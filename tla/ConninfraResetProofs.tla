------------------------ MODULE ConninfraResetProofs ------------------------
(***************************************************************************)
(* Proofs about ConninfraCore, continued: when the gate has a reset behind *)
(* it, when a reset brings conn_infra back and core_lock is released, and  *)
(* when the chip has power whenever its record says so.  Each needs a      *)
(* condition on the configuration or on the requests; the runs core_leak   *)
(* and core_cut show what happens without it.                              *)
(***************************************************************************)
EXTENDS ConninfraCoreProofs

-----------------------------------------------------------------------------
(* The gate has a reset behind it *)

\* A reset ends by opening the gate (conninfra_core.c:359, 445).
LEMMA ChipRstKeepsGate ==
    ASSUME CoreType, OneReset, GateHasReset, ChipRst
    PROVE  GateHasReset'
  <1>1. CASE RstNothingOn \/ RstOpen
    BY <1>1 DEF RstNothingOn, RstOpen, GateHasReset
  <1>2. CASE CbGetOp
    BY <1>2 DEF CbGetOp, Goto, GateHasReset, ResetRuns, CoreType, ThreadType, Threads
  <1>3. CASE RstBegin \/ RstPre \/ RstWaitPre \/ RstPowerOn \/ RstPowered \/ RstPost
             \/ RstWaitPost
    <2>1. tpc[Cb] # "idle"
      BY <1>3 DEF RstBegin, RstPre, RstWaitPre, RstPowerOn, RstPowered, RstPost, RstWaitPost
    <2>2. \/ tpc' = tpc
          \/ \E label \in {"rst_pre", "off_lock", "on_lock", "rst_post", "rst_open"} :
                tpc' = [tpc EXCEPT ![Cb] = label]
      BY <1>3 DEF RstBegin, RstPre, RstWaitPre, RstPowerOn, RstPowered, RstPost,
                  RstWaitPost, Goto, threadVars
    <2>3. tpc'[Cb] # "idle"
      BY <2>1, <2>2 DEF CoreType, ThreadType, Threads
    <2> QED
      BY <2>3 DEF GateHasReset, ResetRuns
  <1> QED
    BY <1>1, <1>2, <1>3 DEF ChipRst

\* conninfra_trigger_whole_chip_rst (conninfra.c:152-169) when its message can
\* be queued.
LEMMA TriggerKeepsGate ==
    ASSUME CoreType, GateHasReset, Killable = {},
           NEW d \in Triggers, LockRst(d) \/ TriggerNext(d)
    PROVE  GateHasReset'
  <1>1. CASE LockRst(d) \/ MarkTrigger(d)
    <2>1. gpc'[d] # "idle"
      BY <1>1 DEF LockRst, MarkTrigger, CoreType, ResetType
    <2> QED
      BY <2>1 DEF GateHasReset, Triggering
  <1>2. CASE SendReset(d)
    <2>1. cbQ' # <<>>
      BY <1>2 DEF SendReset, CoreType, ResetType
    <2> QED
      BY <2>1 DEF GateHasReset
  <1>3. ~SendResetFails(d)
    BY DEF SendResetFails
  <1> QED
    BY <1>1, <1>2, <1>3 DEF TriggerNext

\* conninfra.h, "=0: triggered, =1: ongoing": when no fatal signal can hit the
\* driver that triggers, requests are refused only while a reset is triggered,
\* queued or run.
THEOREM GateAlwaysHasReset == Killable = {} => (Spec => []GateHasReset)
  <1> SUFFICES ASSUME Killable = {} PROVE Spec => []GateHasReset
    OBVIOUS
  <1>1. Init => GateHasReset
    BY DEF Init, GateHasReset
  <1>2. CoreType /\ OneReset /\ GateHasReset /\ [Next]_vars => GateHasReset'
    <2> SUFFICES ASSUME CoreType, OneReset, GateHasReset, [Next]_vars PROVE GateHasReset'
      OBVIOUS
    <2>1. CASE UNCHANGED <<rstStatus, cbQ, gpc>> /\ (tpc'[Cb] = "idle" <=> tpc[Cb] = "idle")
      BY <2>1 DEF GateHasReset, Triggering, ResetRuns
    <2>2. CASE CoredNext
      <3>1. CASE CoredGetOp
        <4>1. tpc'[Cb] = tpc[Cb]
          BY <3>1, ThreadsAssumption DEF CoredGetOp, Goto, CoreType, ThreadType, Threads
        <4> QED
          BY <2>1, <3>1, <4>1 DEF CoredGetOp, rstVars
      <3> QED
        BY <2>1, <2>2, <3>1, PowerInsideReset, ThreadsAssumption DEF CoredNext, Threads
    <2>3. CASE CbNext
      BY <2>1, <2>3, PowerInsideReset, ChipRstKeepsGate DEF CbNext, Threads
    <2>4. CASE \E t \in Readers : AccessStarts(t) \/ AccessEnds(t)
      BY <2>1, <2>4, PowerInsideReset, ThreadsAssumption DEF Threads
    <2>5. CASE \E d \in Triggers : LockRst(d) \/ TriggerNext(d)
      BY <2>5, TriggerKeepsGate
    <2>6. CASE \/ \E d \in Drv : SubNext(d)
               \/ \E d \in Registrars : Register(d)
               \/ \E c \in Callers : CallerNext(c)
               \/ UNCHANGED vars
      <3>1. UNCHANGED <<rstStatus, cbQ, gpc, tpc>>
        BY <2>6 DEF SubNext, SubGetOp, SubCallback, SubOopses, SubDone, Register, CallerNext, CheckRst,
                    SendRequest, vars, rstVars, threadVars
      <3> QED
        BY <2>1, <3>1
    <2> QED
      BY <2>2, <2>3, <2>4, <2>5, <2>6 DEF Next
  <1> QED
    BY <1>1, <1>2, CoreTypeHolds, OneResetHolds, PTL DEF Spec

-----------------------------------------------------------------------------
(* A reset brings conn_infra back, and core_lock is released *)

\* No request switches conn_infra itself off: the drivers only call
\* conninfra_pwr_off for their own radio.
NoForcedOff == \A op \in Calls : op[1] = "off" => op[2] # Conninfra

\* A thread outside of the critical sections moves, core_lock is left alone.
LEMMA OutsideReleased ==
    ASSUME CoreType, LockReleased, NEW t \in Threads, tpc[t] \notin Critical,
           UNCHANGED lock, \A u \in Threads \ {t} : tpc'[u] = tpc[u]
    PROVE  LockReleased'
  <1>1. lock # None => lock \in Threads \ {t}
    BY DEF CoreType, PowerType, LockReleased
  <1> QED
    BY <1>1 DEF LockReleased

\* The steps of a thread other than conninfra_cb cannot disturb the reset if they
\* keep the record of conn_infra.
LEMMA OthersRestore ==
    ASSUME ResetRestores, NEW t \in Threads \ {Cb},
           UNCHANGED <<rsti, pwrState>>, Conninfra \in drv => Conninfra \in drv',
           \A u \in Threads \ {t} : tpc'[u] = tpc[u] /\ arg'[u] = arg[u],
           tpc'[t] \in {"off_read", "off_lock", "off_end"} => arg'[t] # Conninfra,
           tpc'[t] # "force"
    PROVE  ResetRestores'
  <1>1. Cb \in Threads \ {t}
    BY DEF Threads
  <1>2. tpc'[Cb] = tpc[Cb] /\ arg'[Cb] = arg[Cb]
    BY <1>1
  <1> QED
    BY <1>2 DEF ResetRestores

\* Only the thread that runs a power function moves.
LEMMA PowerStepMoves ==
    ASSUME CoreType, NEW t \in Threads, PowerStep(t)
    PROVE  /\ \A u \in Threads \ {t} : tpc'[u] = tpc[u] /\ arg'[u] = arg[u]
           /\ UNCHANGED <<rsti, pwrState>>
  BY DEF PowerStep, PowerOn, PowerOnSet, ReadStatus, PowerOff, PowerOffEnd, ForceOff,
         ForceOffAlreadyOff, ForceOffDrv, ForceOffEnd, Goto, Return, locals, cbVars,
         CoreType, ThreadType

\* What a return leaves.
LEMMA ReturnsTo ==
    ASSUME CoreType, NEW t \in Threads, Return(t)
    PROVE  tpc'[t] = IF t = Cb THEN "rst_on" ELSE "idle"
  BY DEF Return, Goto, CoreType, ThreadType

\* The power functions on conninfra_cored (conninfra_core.c:189-339).
LEMMA OtherPowerStepRestores ==
    ASSUME CoreType, ResetRestores, NEW t \in Threads \ {Cb}, PowerStep(t)
    PROVE  ResetRestores'
  <1>1. /\ \A u \in Threads \ {t} : tpc'[u] = tpc[u] /\ arg'[u] = arg[u]
        /\ UNCHANGED <<rsti, pwrState>>
    BY PowerStepMoves
  <1>2. /\ tpc[t] \in {"off_read", "off_lock", "off_end"} => arg[t] # Conninfra
        /\ tpc[t] # "force"
    BY DEF ResetRestores
  <1>3. Return(t) => tpc'[t] = "idle"
    BY ReturnsTo
  <1>4. Conninfra \in drv => Conninfra \in drv'
    BY <1>2 DEF PowerStep, PowerOn, PowerOnSet, ReadStatus, PowerOff, PowerOffEnd, ForceOff,
                ForceOffAlreadyOff, ForceOffDrv, ForceOffEnd, powerVars
  <1>5. /\ tpc'[t] \in {"off_read", "off_lock", "off_end"} => arg'[t] # Conninfra
        /\ tpc'[t] # "force"
    <2>1. CASE Return(t)
      BY <1>3, <2>1
    <2>2. CASE ReadStatus(t)
      BY <1>2, <2>2 DEF ReadStatus, Goto, CoreType, ThreadType
    <2>3. CASE UNCHANGED locals /\ Goto(t, "on_set")
      BY <2>3 DEF locals, Goto, CoreType, ThreadType
    <2>4. CASE PowerOff(t) /\ ~Return(t)
      BY <1>2, <2>4 DEF PowerOff, locals, Goto, CoreType, ThreadType
    <2>5. ~ForceOff(t) /\ ~ForceOffAlreadyOff(t) /\ ~ForceOffDrv(t) /\ ~ForceOffEnd(t)
      BY <1>2 DEF ForceOff, ForceOffAlreadyOff, ForceOffDrv, ForceOffEnd
    <2> QED
      BY <2>1, <2>2, <2>3, <2>4, <2>5 DEF PowerStep, PowerOn, PowerOnSet, PowerOffEnd
  <1> QED
    BY <1>1, <1>4, <1>5, OthersRestore

\* The power functions inside a reset (conninfra_core.c:403-412): everything is
\* switched off, and what was on is switched on again, conn_infra last.
LEMMA ResetPowerStepRestores ==
    ASSUME CoreType, ResetRestores, PowerStep(Cb)
    PROVE  ResetRestores'
  <1>1. /\ \A u \in Threads \ {Cb} : tpc'[u] = tpc[u] /\ arg'[u] = arg[u]
        /\ UNCHANGED <<rsti, pwrState>>
    BY PowerStepMoves DEF Threads
  <1>2. Return(Cb) => tpc'[Cb] = "rst_on"
    BY ReturnsTo DEF Threads
  <1>3. rsti = DrvMax /\ rsti = arg[Cb] + 1 => arg[Cb] = Conninfra
    BY DrvAssumption DEF Conninfra, CoreType, ThreadType, Threads, Drv
  <1>4. Cb \in Threads
    BY DEF Threads
  <1>5. CASE PowerOn(Cb)
    <2>1. CASE Return(Cb) /\ arg[Cb] \in drv
      BY <1>1, <1>2, <1>3, <1>5, <2>1 DEF PowerOn, ResetRestores, PowerCut
    <2>2. CASE UNCHANGED locals /\ Goto(Cb, "on_set")
      <3>1. tpc'[Cb] = "on_set" /\ arg'[Cb] = arg[Cb]
        BY <1>4, <2>2 DEF Goto, locals, CoreType, ThreadType
      <3> QED
        BY <1>1, <1>5, <3>1 DEF PowerOn, ResetRestores, PowerCut
    <2> QED
      BY <1>5, <2>1, <2>2 DEF PowerOn
  <1>6. CASE PowerOnSet(Cb)
    BY <1>1, <1>2, <1>3, <1>6 DEF PowerOnSet, ResetRestores, PowerCut
  <1>7. CASE ForceOff(Cb)
    <2>1. tpc'[Cb] = "force"
      BY <1>4, <1>7 DEF ForceOff, Goto, CoreType, ThreadType
    <2> QED
      BY <1>1, <1>7, <2>1 DEF ForceOff, ResetRestores, PowerCut
  <1>8. CASE ForceOffAlreadyOff(Cb)
    <2>1. rsti # DrvMax
      BY <1>8, DrvAssumption DEF ForceOffAlreadyOff, ResetRestores
    <2> QED
      BY <1>1, <1>2, <1>8, <2>1 DEF ForceOffAlreadyOff, ResetRestores, PowerCut
  <1>9. CASE ForceOffDrv(Cb)
    BY <1>1, <1>9 DEF ForceOffDrv, ResetRestores, PowerCut
  <1>10. CASE ForceOffEnd(Cb)
    <2>1. rsti # DrvMax
      BY <1>10, DrvAssumption DEF ForceOffEnd, ResetRestores
    <2> QED
      BY <1>1, <1>2, <1>10, <2>1 DEF ForceOffEnd, ResetRestores, PowerCut
  <1>11. ~ReadStatus(Cb) /\ ~PowerOff(Cb) /\ ~PowerOffEnd(Cb)
    BY DEF ReadStatus, PowerOff, PowerOffEnd, ResetRestores
  <1> QED
    BY <1>5, <1>6, <1>7, <1>8, <1>9, <1>10, <1>11 DEF PowerStep

\* The steps of opfunc_chip_rst itself (conninfra_core.c:349-454): the records it
\* saves include conn_infra, which nobody switches off meanwhile.
LEMMA ChipRstRestores ==
    ASSUME CoreType, ResetRestores, ChipRst
    PROVE  ResetRestores'
  <1>1. \A u \in Threads \ {Cb} : tpc'[u] = tpc[u] /\ arg'[u] = arg[u]
    BY DEF ChipRst, CbGetOp, RstNothingOn, RstBegin, RstPre, RstWaitPre, RstPowerOn,
           RstPowered, RstPost, RstWaitPost, RstOpen, Goto, threadVars, CoreType, ThreadType
  <1>2. Cb \in Threads /\ rsti \in 0 .. DrvMax /\ 0 # DrvMax /\ Conninfra = DrvMax - 1
    BY DrvAssumption DEF Threads, Conninfra, CoreType, ResetType
  <1>3. UNCHANGED drv
    BY DEF ChipRst, CbGetOp, RstNothingOn, RstBegin, RstPre, RstWaitPre, RstPowerOn,
           RstPowered, RstPost, RstWaitPost, RstOpen, powerVars
  <1>4. CASE CbGetOp \/ RstNothingOn \/ RstOpen \/ RstWaitPost
    <2>1. tpc[Cb] \in {"idle", "rst_check", "rst_open", "rst_post"}
      BY <1>4 DEF CbGetOp, RstNothingOn, RstOpen, RstWaitPost
    <2>2. tpc'[Cb] \in {"rst_check", "idle", "rst_open"}
      BY <1>2, <1>4 DEF CbGetOp, RstNothingOn, RstOpen, RstWaitPost, Goto, CoreType,
                        ThreadType
    <2> QED
      BY <1>1, <1>3, <2>1, <2>2 DEF ResetRestores, PowerCut
  <1>5. CASE RstBegin
    <2>1. tpc'[Cb] = "rst_pre" /\ rsti' = 0
      BY <1>2, <1>5 DEF RstBegin, Goto, CoreType, ThreadType
    <2> QED
      BY <1>1, <1>2, <1>3, <1>5, <2>1 DEF RstBegin, ResetRestores, PowerCut
  <1>6. CASE RstPre
    <2>1. /\ tpc[Cb] = "rst_pre" /\ UNCHANGED <<tpc, arg>>
          /\ rsti' = rsti + 1 /\ pwrState' = pwrState \cup (drv \cap {rsti})
      BY <1>6 DEF RstPre, threadVars
    <2>2. rsti' = DrvMax => Conninfra \in pwrState'
      BY <1>2, <2>1 DEF ResetRestores, PowerCut
    <2> QED
      BY <1>1, <1>3, <2>1, <2>2 DEF ResetRestores, PowerCut
  <1>7. CASE RstWaitPre
    <2>1. /\ tpc[Cb] = "rst_pre" /\ rsti = DrvMax /\ UNCHANGED pwrState
          /\ tpc'[Cb] = "off_lock" /\ arg'[Cb] = Conninfra /\ rsti' = 0
      BY <1>2, <1>7 DEF RstWaitPre, Goto, CoreType, ThreadType
    <2> QED
      BY <1>1, <1>2, <1>3, <2>1 DEF ResetRestores, PowerCut
  <1>8. CASE RstPowerOn
    <2>1. tpc[Cb] = "rst_on" /\ rsti < DrvMax /\ rsti' = rsti + 1 /\ UNCHANGED pwrState
      BY <1>8 DEF RstPowerOn
    <2>2. Conninfra \in pwrState
      BY <2>1 DEF ResetRestores, PowerCut
    <2>3. CASE rsti \in pwrState
      <3>1. tpc'[Cb] = "on_lock" /\ arg'[Cb] = rsti
        BY <1>2, <1>8, <2>3 DEF RstPowerOn, Goto, CoreType, ThreadType
      <3> QED
        BY <1>1, <2>1, <2>2, <3>1 DEF ResetRestores, PowerCut
    <2>4. CASE rsti \notin pwrState
      <3>1. rsti' # DrvMax
        BY <1>2, <2>1, <2>2, <2>4
      <3>2. tpc'[Cb] = "rst_on"
        BY <1>8, <2>1, <2>4 DEF RstPowerOn
      <3> QED
        BY <1>1, <2>1, <2>2, <3>1, <3>2 DEF ResetRestores, PowerCut
    <2> QED
      BY <2>3, <2>4
  <1>9. CASE RstPowered
    <2>1. tpc[Cb] = "rst_on" /\ rsti = DrvMax /\ tpc'[Cb] = "rst_post"
      BY <1>2, <1>9 DEF RstPowered, Goto, CoreType, ThreadType
    <2> QED
      BY <1>1, <1>3, <2>1 DEF ResetRestores, PowerCut
  <1>10. CASE RstPost
    BY <1>1, <1>3, <1>10 DEF RstPost, threadVars, ResetRestores, PowerCut
  <1> QED
    BY <1>4, <1>5, <1>6, <1>7, <1>8, <1>9, <1>10 DEF ChipRst

\* Hardware accesses and the next request of conninfra_cored.
LEMMA AccessRestores ==
    ASSUME CoreType, ResetRestores, NoForcedOff, NEW t \in Threads \ {Cb},
           AccessStarts(t) \/ AccessEnds(t) \/ (t = Cored /\ CoredGetOp)
    PROVE  ResetRestores'
  <1>1. UNCHANGED <<rsti, pwrState, drv>>
    BY DEF AccessStarts, AccessEnds, CoredGetOp, cbVars, powerVars
  <1>2. \A u \in Threads \ {t} : tpc'[u] = tpc[u] /\ arg'[u] = arg[u]
    BY DEF AccessStarts, AccessEnds, CoredGetOp, Goto, CoreType, ThreadType
  <1>3. /\ tpc'[t] \in {"off_read", "off_lock", "off_end"} => arg'[t] # Conninfra
        /\ tpc'[t] # "force"
    <2>1. CASE AccessStarts(t) \/ AccessEnds(t)
      BY <2>1 DEF AccessStarts, AccessEnds, Goto, CoreType, ThreadType
    <2>2. CASE t = Cored /\ CoredGetOp
      <3> DEFINE op == Head(coreQ)
                 label == CASE op[1] = "on" -> "on_lock"
                            [] op[1] = "off" -> "off_read"
                            [] OTHER -> "acc_lock"
      <3>1. op \in Calls
        BY <2>2 DEF CoredGetOp, CoreType, RequestType
      <3>2. tpc'[t] = label /\ arg'[t] = op[2]
        BY <2>2 DEF CoredGetOp, Goto, CoreType, ThreadType
      <3>3. label = "off_read" => op[1] = "off"
        OBVIOUS
      <3>4. label \in {"on_lock", "off_read", "acc_lock"}
        OBVIOUS
      <3> HIDE DEF op, label
      <3> QED
        BY <3>1, <3>2, <3>3, <3>4 DEF NoForcedOff
    <2> QED
      BY <2>1, <2>2
  <1> QED
    BY <1>1, <1>2, <1>3, OthersRestore

\* The power functions release core_lock where they return, but for the one that
\* finds conn_infra off already (conninfra_core.c:286-289).
LEMMA PowerStepReleases ==
    ASSUME CoreType, LockReleased, NEW t \in Threads, PowerStep(t), ~ForceOffAlreadyOff(t)
    PROVE  LockReleased'
  <1>1. \A u \in Threads \ {t} : tpc'[u] = tpc[u]
    BY PowerStepMoves
  <1>2. CASE lock' = None
    BY <1>2 DEF LockReleased
  <1>3. CASE lock' = t /\ (Goto(t, "on_set") \/ Goto(t, "off_end") \/ Goto(t, "force"))
    BY <1>3 DEF LockReleased, Goto, CoreType, ThreadType, Critical
  <1>4. CASE lock' = lock /\ tpc[t] \notin Critical
    BY <1>1, <1>4, OutsideReleased
  <1>5. CASE ForceOffDrv(t)
    BY <1>5 DEF ForceOffDrv, LockReleased
  <1> QED
    BY <1>2, <1>3, <1>4, <1>5
    DEF PowerStep, PowerOn, PowerOnSet, ReadStatus, PowerOff, PowerOffEnd, ForceOff,
        ForceOffEnd, Critical, powerVars

\* Accesses release core_lock, and nobody else touches it.
LEMMA AccessReleases ==
    ASSUME CoreType, LockReleased, NEW t \in Threads, AccessStarts(t) \/ AccessEnds(t)
    PROVE  LockReleased'
  <1>1. \A u \in Threads \ {t} : tpc'[u] = tpc[u]
    BY DEF AccessStarts, AccessEnds, Goto, CoreType, ThreadType
  <1>2. CASE lock' = None
    BY <1>2 DEF LockReleased
  <1>3. CASE lock' = t /\ Goto(t, "access")
    BY <1>3 DEF LockReleased, Goto, CoreType, ThreadType, Critical
  <1>4. CASE lock' = lock /\ tpc[t] \notin Critical
    BY <1>1, <1>4, OutsideReleased
  <1> QED
    BY <1>2, <1>3, <1>4 DEF AccessStarts, AccessEnds, Critical

\* The other steps of conninfra_cored and conninfra_cb happen outside.
LEMMA GetOpAndResetRelease ==
    ASSUME CoreType, LockReleased, CoredGetOp \/ ChipRst
    PROVE  LockReleased'
  <1>1. UNCHANGED lock
    BY DEF CoredGetOp, ChipRst, CbGetOp, RstNothingOn, RstBegin, RstPre, RstWaitPre,
           RstPowerOn, RstPowered, RstPost, RstWaitPost, RstOpen, powerVars
  <1>2. CASE CoredGetOp
    <2>1. tpc[Cored] \notin Critical /\ \A u \in Threads \ {Cored} : tpc'[u] = tpc[u]
      BY <1>2 DEF CoredGetOp, Goto, CoreType, ThreadType, Critical
    <2> QED
      BY <1>1, <2>1, OutsideReleased DEF Threads
  <1>3. CASE ChipRst
    <2>1. tpc[Cb] \notin Critical /\ \A u \in Threads \ {Cb} : tpc'[u] = tpc[u]
      BY <1>3 DEF ChipRst, CbGetOp, RstNothingOn, RstBegin, RstPre, RstWaitPre, RstPowerOn,
                  RstPowered, RstPost, RstWaitPost, RstOpen, threadVars, Goto, CoreType,
                  ThreadType, Critical
    <2> QED
      BY <1>1, <2>1, OutsideReleased DEF Threads
  <1> QED
    BY <1>2, <1>3

\* Whoever wants to switch conn_infra off finds it on: the step that leaks
\* core_lock (conninfra_core.c:286-289) is never taken.
LEMMA NeverAlreadyOff ==
    ASSUME PowerRecords, ResetRestores, NEW t \in Threads
    PROVE  ~ForceOffAlreadyOff(t)
  <1> SUFFICES ASSUME ForceOffAlreadyOff(t) PROVE FALSE
    OBVIOUS
  <1>1. tpc[t] = "off_lock" /\ arg[t] = Conninfra /\ lock = None /\ ~infra
    BY DEF ForceOffAlreadyOff
  <1>2. t = Cb
    BY <1>1 DEF ResetRestores
  <1>3. Conninfra \in drv
    BY <1>1, <1>2 DEF ResetRestores, PowerCut
  <1> QED
    BY <1>1, <1>3 DEF PowerRecords, RecordsAgree

\* With conn_infra powered from the load of the module on (CONFIG_CONNINFRA_AUTO_UP)
\* and no request to switch it off, every reset brings it back, and core_lock is
\* released on every path.
THEOREM ResetRestoresHolds ==
    AutoUp /\ NoForcedOff => (Spec => [](ResetRestores /\ LockReleased))
  <1> SUFFICES ASSUME AutoUp, NoForcedOff
               PROVE  Spec => [](ResetRestores /\ LockReleased)
    OBVIOUS
  <1>1. Init => ResetRestores /\ LockReleased
    <2> SUFFICES ASSUME Init PROVE ResetRestores /\ LockReleased
      OBVIOUS
    <2>1. \A t \in Threads : tpc[t] = "idle"
      BY DEF Init
    <2>2. Conninfra \in drv /\ Cb \in Threads /\ lock = None
      BY DEF Init, Threads
    <2> QED
      BY <2>1, <2>2 DEF ResetRestores, PowerCut, LockReleased
  <1>2. CoreType /\ PowerRecords /\ ResetRestores /\ LockReleased /\ [Next]_vars
            => ResetRestores' /\ LockReleased'
    <2> SUFFICES ASSUME CoreType, PowerRecords, ResetRestores, LockReleased, [Next]_vars
                 PROVE  ResetRestores' /\ LockReleased'
      OBVIOUS
    <2>1. CASE CoredNext
      <3>1. Cored \in Threads \ {Cb}
        BY ThreadsAssumption DEF Threads
      <3>2. ResetRestores'
        BY <2>1, <3>1, OtherPowerStepRestores, AccessRestores DEF CoredNext
      <3>3. LockReleased'
        BY <2>1, <3>1, PowerStepReleases, NeverAlreadyOff, AccessReleases,
           GetOpAndResetRelease DEF CoredNext
      <3> QED
        BY <3>2, <3>3
    <2>2. CASE CbNext
      <3>1. ResetRestores'
        BY <2>2, ResetPowerStepRestores, ChipRstRestores DEF CbNext
      <3>2. LockReleased'
        BY <2>2, PowerStepReleases, NeverAlreadyOff, GetOpAndResetRelease DEF CbNext, Threads
      <3> QED
        BY <3>1, <3>2
    <2>3. CASE \E t \in Readers : AccessStarts(t) \/ AccessEnds(t)
      <3>1. PICK t \in Threads \ {Cb} : AccessStarts(t) \/ AccessEnds(t)
        BY <2>3, ThreadsAssumption DEF Threads
      <3> QED
        BY <3>1, AccessRestores, AccessReleases
    <2>4. CASE \/ \E d \in Drv : SubNext(d)
               \/ \E d \in Triggers : LockRst(d) \/ TriggerNext(d)
               \/ \E d \in Registrars : Register(d)
               \/ \E c \in Callers : CallerNext(c)
               \/ UNCHANGED vars
      <3>1. UNCHANGED <<powerVars, threadVars, cbVars>>
        BY <2>4 DEF SubNext, SubGetOp, SubCallback, SubOopses, SubDone, LockRst, TriggerNext,
                    MarkTrigger, SendReset, SendResetFails, Register, CallerNext, CheckRst,
                    SendRequest, vars
      <3>2. UNCHANGED <<lock, drv, tpc, arg, rsti, pwrState>>
        BY <3>1 DEF powerVars, threadVars, cbVars
      <3> QED
        BY <3>2 DEF ResetRestores, LockReleased
    <2> QED
      BY <2>1, <2>2, <2>3, <2>4 DEF Next
  <1> QED
    BY <1>1, <1>2, CoreTypeHolds, PowerRecordsHold, PTL DEF Spec

\* core_lock is released on every path (conninfra_core.c:208-243, 268-339) under
\* the same condition; without AUTO_UP the run core_leak shows it leaked.
THEOREM LockAlwaysReleased == AutoUp /\ NoForcedOff => (Spec => []LockReleased)
  BY ResetRestoresHolds, PTL

\* conninfra_core.c:414, "conninfra status should be power on": under the same
\* condition it is on after the loop that powers the radios on again.
THEOREM ResetPowersOn == AutoUp /\ NoForcedOff => (Spec => []StatusOnAfterReset)
  <1>1. CoreType /\ PowerRecords /\ ResetRestores /\ LockReleased => StatusOnAfterReset
    <2> SUFFICES ASSUME CoreType, PowerRecords, ResetRestores, LockReleased,
                        tpc[Cb] = "rst_on", rsti = DrvMax
                 PROVE  infra
      BY DEF StatusOnAfterReset
    <2>1. Conninfra \in drv
      BY DEF ResetRestores
    <2>2. CASE lock = None
      BY <2>1, <2>2 DEF PowerRecords, RecordsAgree
    <2>3. CASE lock # None
      <3>1. lock \in Threads /\ tpc[lock] \in Critical
        BY <2>3 DEF CoreType, PowerType, LockReleased
      <3>2. tpc[lock] # "force"
        BY <3>1 DEF ResetRestores
      <3> QED
        BY <2>1, <3>1, <3>2 DEF Critical, PowerRecords, RecordsInside
    <2> QED
      BY <2>2, <2>3
  <1> QED
    BY <1>1, CoreTypeHolds, PowerRecordsHold, ResetRestoresHolds, PTL

-----------------------------------------------------------------------------
(* The chip follows its record *)

\* A thread outside of the critical sections moves and stays outside.
LEMMA ChipOutside ==
    ASSUME CoreType, ChipRecords, NEW t \in Threads,
           UNCHANGED <<lock, drv, infra, chip>>, tpc'[t] \notin Critical,
           \A u \in Threads \ {t} : tpc'[u] = tpc[u] /\ arg'[u] = arg[u] /\ curr'[u] = curr[u]
    PROVE  ChipRecords'
  <1>1. ChipFollows'
    BY DEF ChipRecords, ChipFollows
  <1>2. ChipInside'
    BY DEF ChipRecords, ChipInside, Critical
  <1> QED
    BY <1>1, <1>2 DEF ChipRecords

\* The thread in a critical section leaves it with chip and record in step.
LEMMA ChipLeaves ==
    ASSUME CoreType, PowerRecords, NEW t \in Threads, tpc[t] \in Critical,
           tpc'[t] \notin Critical, \A u \in Threads \ {t} : tpc'[u] = tpc[u],
           infra' <=> chip'
    PROVE  ChipRecords'
  <1>1. \A u \in Threads : tpc'[u] \notin Critical
    BY DEF PowerRecords, MutualExclusion
  <1> QED
    BY <1>1 DEF ChipRecords, ChipFollows, ChipInside, Critical

\* A thread finds core_lock free and takes it: what holds inside is up to it.
LEMMA ChipTakes ==
    ASSUME CoreType, PowerRecords, NEW t \in Threads, lock = None, lock' = t,
           \A u \in Threads \ {t} : tpc'[u] = tpc[u],
           tpc'[t] = "on_set" => chip',
           tpc'[t] = "off_end" => chip' /\ curr'[t] \ {arg'[t]} = drv',
           tpc'[t] = "access" => infra' /\ chip'
    PROVE  ChipRecords'
  <1>1. \A u \in Threads \ {t} : tpc'[u] \notin Critical
    BY NoneIsNoThread DEF PowerRecords, MutualExclusion
  <1>2. ChipInside'
    BY <1>1 DEF ChipInside, Critical
  <1> QED
    BY <1>2, NoneIsNoThread DEF ChipRecords, ChipFollows

\* Where the locals of the power functions stay as they are.
LEMMA PowerStepLocals ==
    ASSUME CoreType, NEW t \in Threads, PowerStep(t)
    PROVE  \A u \in Threads \ {t} :
               tpc'[u] = tpc[u] /\ arg'[u] = arg[u] /\ curr'[u] = curr[u]
  BY DEF PowerStep, PowerOn, PowerOnSet, ReadStatus, PowerOff, PowerOffEnd, ForceOff,
         ForceOffAlreadyOff, ForceOffDrv, ForceOffEnd, Goto, Return, locals,
         CoreType, ThreadType

\* The power functions switch the chip exactly when they change its record, as
\* long as the status they decide on is that of the records.
LEMMA PowerStepChip ==
    ASSUME CoreType, PowerRecords, ChipRecords, FreshStatus, NEW t \in Threads, PowerStep(t)
    PROVE  ChipRecords'
  <1>1. \A u \in Threads \ {t} : tpc'[u] = tpc[u] /\ arg'[u] = arg[u] /\ curr'[u] = curr[u]
    BY PowerStepLocals
  <1>2. Return(t) => tpc'[t] \notin Critical
    BY ReturnsTo DEF Critical
  <1>3. CASE PowerOn(t)
    <2>1. CASE arg[t] \in drv
      BY <1>1, <1>2, <1>3, <2>1, ChipOutside DEF PowerOn
    <2>2. CASE arg[t] \notin drv
      <3>1. lock = None /\ lock' = t /\ tpc'[t] = "on_set"
        BY <1>3, <2>2 DEF PowerOn, Goto, CoreType, ThreadType
      <3>2. drv # {} => chip
        BY <3>1 DEF PowerRecords, RecordsAgree, ChipRecords, ChipFollows
      <3>3. chip'
        BY <1>3, <2>2, <3>2 DEF PowerOn, FirstPowerOn
      <3> QED
        BY <1>1, <3>1, <3>3, ChipTakes
    <2> QED
      BY <2>1, <2>2
  <1>4. CASE PowerOnSet(t)
    <2>1. tpc[t] \in Critical /\ tpc'[t] \notin Critical
      BY <1>2, <1>4 DEF PowerOnSet, Critical
    <2>2. infra' /\ chip'
      BY <1>4 DEF PowerOnSet, PowerRecords, RecordsInside, ChipRecords, ChipInside
    <2> QED
      BY <1>1, <2>1, <2>2, ChipLeaves
  <1>5. CASE ReadStatus(t)
    <2>1. tpc'[t] \notin Critical /\ UNCHANGED <<lock, drv, infra, chip>>
      BY <1>5 DEF ReadStatus, Goto, powerVars, CoreType, ThreadType, Critical
    <2> QED
      BY <1>1, <2>1, ChipOutside
  <1>6. CASE PowerOff(t)
    <2>1. CASE arg[t] \notin drv
      BY <1>1, <1>2, <1>6, <2>1, ChipOutside DEF PowerOff
    <2>2. CASE arg[t] \in drv
      <3>1. /\ lock = None /\ lock' = t /\ tpc'[t] = "off_end" /\ drv' = drv \ {arg[t]}
            /\ arg'[t] = arg[t] /\ curr'[t] = curr[t] /\ UNCHANGED chip
        BY <1>6, <2>2 DEF PowerOff, Goto, locals, CoreType, ThreadType
      <3>2. curr[t] = drv
        BY <1>6 DEF PowerOff, FreshStatus
      <3>3. chip'
        BY <2>2, <3>1 DEF PowerRecords, RecordsAgree, ChipRecords, ChipFollows
      <3> QED
        BY <1>1, <3>1, <3>2, <3>3, ChipTakes
    <2> QED
      BY <2>1, <2>2
  <1>7. CASE PowerOffEnd(t)
    <2>1. tpc[t] \in Critical /\ tpc'[t] \notin Critical
      BY <1>2, <1>7 DEF PowerOffEnd, Critical
    <2>2. infra /\ chip /\ curr[t] \ {arg[t]} = drv
      BY <1>7 DEF PowerOffEnd, PowerRecords, RecordsInside, ChipRecords, ChipInside
    <2>3. infra' <=> chip'
      BY <1>7, <2>2 DEF PowerOffEnd, LastPowerOff
    <2> QED
      BY <1>1, <2>1, <2>3, ChipLeaves
  <1>8. CASE ForceOff(t) \/ ForceOffAlreadyOff(t)
    <2>1. lock = None /\ lock' = t /\ tpc'[t] \notin {"on_set", "off_end", "access"}
      BY <1>8, ReturnsTo DEF ForceOff, ForceOffAlreadyOff, Goto, CoreType, ThreadType
    <2> QED
      BY <1>1, <2>1, ChipTakes
  <1>9. CASE ForceOffDrv(t)
    <2>1. /\ tpc[t] = "force" /\ UNCHANGED <<lock, infra, chip, tpc, arg, curr>>
      BY <1>9 DEF ForceOffDrv
    <2>2. lock' = t /\ \A u \in Threads : tpc'[u] \in Critical => u = t
      BY <2>1 DEF PowerRecords, MutualExclusion, Critical
    <2> QED
      BY <2>1, <2>2, NoneIsNoThread DEF ChipRecords, ChipFollows, ChipInside, Critical
  <1>10. CASE ForceOffEnd(t)
    <2>1. tpc[t] \in Critical /\ tpc'[t] \notin Critical /\ (infra' <=> chip')
      BY <1>2, <1>10 DEF ForceOffEnd, Critical
    <2> QED
      BY <1>1, <2>1, ChipLeaves
  <1> QED
    BY <1>3, <1>4, <1>5, <1>6, <1>7, <1>8, <1>9, <1>10 DEF PowerStep

\* An access starts only when conn_infra is recorded on, and so has power.
LEMMA AccessChip ==
    ASSUME CoreType, PowerRecords, ChipRecords, NEW t \in Threads,
           AccessStarts(t) \/ AccessEnds(t)
    PROVE  ChipRecords'
  <1>1. /\ UNCHANGED <<drv, infra, chip, arg, curr>>
        /\ \A u \in Threads \ {t} : tpc'[u] = tpc[u]
    BY DEF AccessStarts, AccessEnds, Goto, CoreType, ThreadType
  <1>2. CASE AccessStarts(t) /\ infra
    <2>1. lock = None /\ lock' = t /\ tpc'[t] = "access"
      BY <1>2 DEF AccessStarts, Goto, CoreType, ThreadType
    <2>2. infra' /\ chip'
      BY <1>1, <1>2, <2>1 DEF ChipRecords, ChipFollows
    <2> QED
      BY <1>1, <2>1, <2>2, ChipTakes
  <1>3. CASE AccessStarts(t) /\ ~infra
    <2>1. UNCHANGED lock /\ tpc'[t] = "idle"
      BY <1>3 DEF AccessStarts, Goto, CoreType, ThreadType
    <2> QED
      BY <1>1, <2>1, ChipOutside DEF Critical
  <1>4. CASE AccessEnds(t)
    <2>1. tpc[t] = "access" /\ tpc'[t] = "idle"
      BY <1>4 DEF AccessEnds, Goto, CoreType, ThreadType
    <2>2. infra' <=> chip'
      BY <1>1, <2>1 DEF ChipRecords, ChipInside
    <2> QED
      BY <1>1, <2>1, <2>2, ChipLeaves DEF Critical
  <1> QED
    BY <1>2, <1>3, <1>4

\* The other steps of conninfra_cored and conninfra_cb touch neither chip nor
\* records.
LEMMA GetOpAndResetChip ==
    ASSUME CoreType, ChipRecords, CoredGetOp \/ ChipRst
    PROVE  ChipRecords'
  <1>1. UNCHANGED <<lock, drv, infra, chip, curr>>
    BY DEF CoredGetOp, ChipRst, CbGetOp, RstNothingOn, RstBegin, RstPre, RstWaitPre,
           RstPowerOn, RstPowered, RstPost, RstWaitPost, RstOpen, powerVars, threadVars
  <1>2. CASE CoredGetOp
    <2> DEFINE op == Head(coreQ)
               label == CASE op[1] = "on" -> "on_lock"
                          [] op[1] = "off" -> "off_read"
                          [] OTHER -> "acc_lock"
    <2>1. tpc' = [tpc EXCEPT ![Cored] = label] /\ arg' = [arg EXCEPT ![Cored] = op[2]]
      BY <1>2 DEF CoredGetOp, Goto
    <2>2. label \notin Critical
      BY DEF Critical
    <2> HIDE DEF op, label
    <2>3. /\ tpc'[Cored] \notin Critical
          /\ \A u \in Threads \ {Cored} : tpc'[u] = tpc[u] /\ arg'[u] = arg[u]
      BY <2>1, <2>2 DEF CoreType, ThreadType, Threads
    <2> QED
      BY <1>1, <2>3, ChipOutside DEF Threads
  <1>3. CASE ChipRst
    <2>1. tpc'[Cb] \notin Critical
      BY <1>3 DEF ChipRst, CbGetOp, RstNothingOn, RstBegin, RstPre, RstWaitPre, RstPowerOn,
                  RstPowered, RstPost, RstWaitPost, RstOpen, threadVars, Goto, CoreType,
                  ThreadType, Critical, Threads
    <2>2. \A u \in Threads \ {Cb} : tpc'[u] = tpc[u] /\ arg'[u] = arg[u]
      BY <1>3 DEF ChipRst, CbGetOp, RstNothingOn, RstBegin, RstPre, RstWaitPre, RstPowerOn,
                  RstPowered, RstPost, RstWaitPost, RstOpen, threadVars, Goto, CoreType,
                  ThreadType
    <2> QED
      BY <1>1, <2>1, <2>2, ChipOutside DEF Threads
  <1> QED
    BY <1>2, <1>3

\* The chip has power exactly when its record says so, and every access finds it
\* powered, as long as no power function decides on a status that is out of date
\* when it gets core_lock (conninfra_core.c:266, 310).
THEOREM FreshStatusSuffices == Spec /\ []FreshStatus => []ChipRecords
  <1>1. Init => ChipRecords
    <2> SUFFICES ASSUME Init PROVE ChipRecords
      OBVIOUS
    <2>1. \A t \in Threads : tpc[t] = "idle"
      BY DEF Init
    <2> QED
      BY <2>1 DEF Init, ChipRecords, ChipFollows, ChipInside
  <1>2. CoreType /\ PowerRecords /\ FreshStatus /\ ChipRecords /\ [Next]_vars => ChipRecords'
    <2> SUFFICES ASSUME CoreType, PowerRecords, FreshStatus, ChipRecords, [Next]_vars
                 PROVE  ChipRecords'
      OBVIOUS
    <2>1. CASE CoredNext
      BY <2>1, PowerStepChip, AccessChip, GetOpAndResetChip DEF CoredNext, Threads
    <2>2. CASE CbNext
      BY <2>2, PowerStepChip, GetOpAndResetChip DEF CbNext, Threads
    <2>3. CASE \E t \in Readers : AccessStarts(t) \/ AccessEnds(t)
      BY <2>3, AccessChip DEF Threads
    <2>4. CASE \/ \E d \in Drv : SubNext(d)
               \/ \E d \in Triggers : LockRst(d) \/ TriggerNext(d)
               \/ \E d \in Registrars : Register(d)
               \/ \E c \in Callers : CallerNext(c)
               \/ UNCHANGED vars
      <3>1. UNCHANGED <<powerVars, threadVars>>
        BY <2>4 DEF SubNext, SubGetOp, SubCallback, SubOopses, SubDone, LockRst, TriggerNext,
                    MarkTrigger, SendReset, SendResetFails, Register, CallerNext, CheckRst,
                    SendRequest, vars
      <3>2. UNCHANGED <<lock, drv, infra, chip, tpc, arg, curr>>
        BY <3>1 DEF powerVars, threadVars
      <3> QED
        BY <3>2 DEF ChipRecords, ChipFollows, ChipInside
    <2> QED
      BY <2>1, <2>2, <2>3, <2>4 DEF Next
  <1> QED
    BY <1>1, <1>2, CoreTypeHolds, PowerRecordsHold, PTL DEF Spec

\* No request switches anything off.
NoOff == \A op \in Calls : op[1] # "off"

\* Then no thread is in the power off of a single radio.
NobodyOff ==
    \A t \in Threads :
        /\ tpc[t] \notin {"off_read", "off_end"}
        /\ tpc[t] = "off_lock" => arg[t] = Conninfra

\* Only a reset switches off, and it switches off everything.
LEMMA OnlyResetsOff == NoOff => (Spec => []NobodyOff)
  <1> SUFFICES ASSUME NoOff PROVE Spec => []NobodyOff
    OBVIOUS
  <1>1. Init => NobodyOff
    BY DEF Init, NobodyOff
  <1>2. CoreType /\ NobodyOff /\ [Next]_vars => NobodyOff'
    <2> SUFFICES ASSUME CoreType, NobodyOff, [Next]_vars PROVE NobodyOff'
      OBVIOUS
    <2>1. ASSUME NEW t \in Threads, PowerStep(t) PROVE NobodyOff'
      <3>1. \A u \in Threads \ {t} : tpc'[u] = tpc[u] /\ arg'[u] = arg[u]
        BY <2>1, PowerStepMoves
      <3>2. ~ReadStatus(t) /\ ~PowerOff(t) /\ ~PowerOffEnd(t)
        BY DEF ReadStatus, PowerOff, PowerOffEnd, NobodyOff
      <3>3. tpc'[t] \notin {"off_read", "off_lock", "off_end"}
        BY <2>1, <3>2 DEF PowerStep, PowerOn, PowerOnSet, ForceOff, ForceOffAlreadyOff,
                          ForceOffDrv, ForceOffEnd, Goto, Return, CoreType, ThreadType
      <3> QED
        BY <3>1, <3>3 DEF NobodyOff
    <2>2. ASSUME NEW t \in Threads, AccessStarts(t) \/ AccessEnds(t) PROVE NobodyOff'
      BY <2>2 DEF AccessStarts, AccessEnds, Goto, NobodyOff, CoreType, ThreadType
    <2>3. CASE CoredGetOp
      <3> DEFINE op == Head(coreQ)
                 label == CASE op[1] = "on" -> "on_lock"
                            [] op[1] = "off" -> "off_read"
                            [] OTHER -> "acc_lock"
      <3>1. op \in Calls
        BY <2>3 DEF CoredGetOp, CoreType, RequestType
      <3>2. label \in {"on_lock", "acc_lock"}
        BY <3>1 DEF NoOff
      <3>3. tpc' = [tpc EXCEPT ![Cored] = label] /\ arg' = [arg EXCEPT ![Cored] = op[2]]
        BY <2>3 DEF CoredGetOp, Goto
      <3> HIDE DEF op, label
      <3> QED
        BY <3>2, <3>3 DEF NobodyOff, CoreType, ThreadType
    <2>4. CASE ChipRst
      BY <2>4 DEF ChipRst, CbGetOp, RstNothingOn, RstBegin, RstPre, RstWaitPre, RstPowerOn,
                  RstPowered, RstPost, RstWaitPost, RstOpen, threadVars, Goto, NobodyOff,
                  CoreType, ThreadType
    <2>5. CASE \/ \E d \in Drv : SubNext(d)
               \/ \E d \in Triggers : LockRst(d) \/ TriggerNext(d)
               \/ \E d \in Registrars : Register(d)
               \/ \E c \in Callers : CallerNext(c)
               \/ UNCHANGED vars
      <3>1. UNCHANGED <<tpc, arg>>
        BY <2>5 DEF SubNext, SubGetOp, SubCallback, SubOopses, SubDone, LockRst, TriggerNext,
                    MarkTrigger, SendReset, SendResetFails, Register, CallerNext, CheckRst,
                    SendRequest, vars, threadVars
      <3> QED
        BY <3>1 DEF NobodyOff
    <2> QED
      BY <2>1, <2>2, <2>3, <2>4, <2>5 DEF Next, CoredNext, CbNext, Threads
  <1> QED
    BY <1>1, <1>2, CoreTypeHolds, PTL DEF Spec

\* When no driver triggers a reset, conninfra_cb rests and conninfra_cored alone
\* changes the records: the status it reads, one record at a time, stays true.
OneWriter ==
    /\ tpc[Cb] = "idle" /\ cbQ = <<>>
    /\ \A t \in Readers : tpc[t] \in {"idle", "access"}
    /\ tpc[Cored] \notin {"off_read", "off_lock", "off_end", "force"}
            => curr[Cored] = {} /\ idx[Cored] = 0
    /\ tpc[Cored] = "off_read" => curr[Cored] = {d \in drv : d < idx[Cored]}
    /\ tpc[Cored] = "off_lock" => curr[Cored] = drv

\* The power functions when conninfra_cored is the only one to run them.
LEMMA PowerStepOneWriter ==
    ASSUME CoreType, OneWriter, PowerStep(Cored)
    PROVE  OneWriter'
  <1>1. /\ Cored \in Threads /\ Cb \in Threads /\ Cored # Cb
        /\ \A t \in Readers : t \in Threads /\ t # Cored
    BY ThreadsAssumption DEF Threads
  <1>2. /\ \A u \in Threads \ {Cored} : tpc'[u] = tpc[u]
        /\ UNCHANGED cbQ
    <2>1. \A u \in Threads \ {Cored} : tpc'[u] = tpc[u]
      BY <1>1, PowerStepMoves
    <2>2. UNCHANGED cbQ
      BY DEF PowerStep, PowerOn, PowerOnSet, ReadStatus, PowerOff, PowerOffEnd, ForceOff,
             ForceOffAlreadyOff, ForceOffDrv, ForceOffEnd
    <2> QED
      BY <2>1, <2>2
  <1>3. /\ tpc'[Cb] = "idle" /\ cbQ' = <<>>
        /\ \A t \in Readers : tpc'[t] \in {"idle", "access"}
    BY <1>1, <1>2 DEF OneWriter
  <1>4. CASE Return(Cored)
    <2>1. tpc'[Cored] = "idle" /\ curr'[Cored] = {} /\ idx'[Cored] = 0
      BY <1>1, <1>4 DEF Return, Goto, CoreType, ThreadType
    <2> QED
      BY <1>3, <2>1 DEF OneWriter
  <1>5. CASE PowerOn(Cored) /\ ~Return(Cored)
    <2>1. tpc[Cored] = "on_lock" /\ tpc'[Cored] = "on_set" /\ UNCHANGED <<curr, idx>>
      BY <1>1, <1>5 DEF PowerOn, Goto, locals, CoreType, ThreadType
    <2> QED
      BY <1>3, <2>1 DEF OneWriter
  <1>6. CASE ReadStatus(Cored)
    <2>1. tpc[Cored] = "off_read" /\ UNCHANGED drv
      BY <1>6 DEF ReadStatus, powerVars
    <2>2. curr[Cored] = {d \in drv : d < idx[Cored]}
      BY <2>1 DEF OneWriter
    <2>3. idx[Cored] \in 0 .. DrvMax /\ \A d \in drv : d \in Int /\ d < DrvMax
      BY <1>1, DrvAssumption DEF CoreType, ThreadType, PowerType, Drv
    <2>4. CASE idx[Cored] < DrvMax
      <3>1. /\ tpc'[Cored] = "off_read" /\ idx'[Cored] = idx[Cored] + 1
            /\ curr'[Cored] = curr[Cored] \cup (drv \cap {idx[Cored]})
        BY <1>1, <1>6, <2>1, <2>4, DrvAssumption DEF ReadStatus, CoreType, ThreadType
      <3>2. \A d \in drv : d < idx[Cored] + 1 <=> d < idx[Cored] \/ d = idx[Cored]
        BY <2>3, DrvAssumption
      <3>3. curr'[Cored] = {d \in drv : d < idx[Cored] + 1}
        BY <2>2, <3>1, <3>2
      <3> QED
        BY <1>3, <2>1, <3>1, <3>3 DEF OneWriter
    <2>5. CASE idx[Cored] = DrvMax
      <3>1. tpc'[Cored] = "off_lock" /\ curr'[Cored] = curr[Cored]
        BY <1>1, <1>6, <2>5, DrvAssumption DEF ReadStatus, Goto, CoreType, ThreadType
      <3>2. curr[Cored] = drv
        BY <2>2, <2>3, <2>5
      <3> QED
        BY <1>3, <2>1, <3>1, <3>2 DEF OneWriter
    <2> QED
      BY <2>3, <2>4, <2>5, DrvAssumption
  <1>7. CASE Goto(Cored, "off_end") \/ Goto(Cored, "force") \/ ForceOffDrv(Cored)
    <2>1. tpc'[Cored] \in {"off_end", "force"}
      BY <1>1, <1>7 DEF Goto, ForceOffDrv, CoreType, ThreadType
    <2> QED
      BY <1>3, <2>1 DEF OneWriter
  <1> QED
    BY <1>4, <1>5, <1>6, <1>7
    DEF PowerStep, PowerOnSet, PowerOff, PowerOffEnd, ForceOff, ForceOffAlreadyOff,
        ForceOffEnd

\* Without resets the status that opfunc_power_off_internal reads is that of the
\* records when it gets core_lock (conninfra_core.c:266-310).
LEMMA OneWriterHolds == Triggers = {} => (Spec => []OneWriter)
  <1> SUFFICES ASSUME Triggers = {} PROVE Spec => []OneWriter
    OBVIOUS
  <1>1. Init => OneWriter
    BY DEF Init, OneWriter, Threads
  <1>2. CoreType /\ OneWriter /\ [Next]_vars => OneWriter'
    <2> SUFFICES ASSUME CoreType, OneWriter, [Next]_vars PROVE OneWriter'
      OBVIOUS
    <2>1. /\ Cored \in Threads /\ Cb \in Threads /\ Cored # Cb
          /\ \A t \in Readers : t \in Threads /\ t # Cored /\ t # Cb
      BY ThreadsAssumption DEF Threads
    <2>2. CASE CoredGetOp
      <3> DEFINE op == Head(coreQ)
                 label == CASE op[1] = "on" -> "on_lock"
                            [] op[1] = "off" -> "off_read"
                            [] OTHER -> "acc_lock"
      <3>1. /\ tpc[Cored] = "idle" /\ tpc' = [tpc EXCEPT ![Cored] = label]
            /\ UNCHANGED <<curr, idx, drv, cbQ>>
        BY <2>2 DEF CoredGetOp, Goto, powerVars
      <3>2. label \in {"on_lock", "off_read", "acc_lock"}
        OBVIOUS
      <3> HIDE DEF label
      <3>3. /\ tpc'[Cored] = label
            /\ \A u \in Threads \ {Cored} : tpc'[u] = tpc[u]
        BY <2>1, <3>1 DEF CoreType, ThreadType
      <3>4. \A d \in drv : ~(d < 0)
        BY DrvAssumption DEF CoreType, PowerType, Drv
      <3> QED
        BY <2>1, <3>1, <3>2, <3>3, <3>4 DEF OneWriter
    <2>3. ASSUME NEW t \in Readers \cup {Cored}, AccessStarts(t) \/ AccessEnds(t)
          PROVE  OneWriter'
      <3>1. /\ UNCHANGED <<curr, idx, drv, cbQ>>
            /\ tpc[t] \in {"idle", "acc_lock", "access"} /\ tpc'[t] \in {"idle", "access"}
            /\ \A u \in Threads \ {t} : tpc'[u] = tpc[u]
        BY <2>1, <2>3 DEF AccessStarts, AccessEnds, Goto, CoreType, ThreadType
      <3> QED
        BY <2>1, <3>1 DEF OneWriter
    <2>4. ~CbNext
      BY DEF CbNext, OneWriter, ChipRst, CbGetOp, RstNothingOn, RstBegin, RstPre, RstWaitPre,
             RstPowerOn, RstPowered, RstPost, RstWaitPost, RstOpen, PowerStep, PowerOn,
             PowerOnSet, ReadStatus, PowerOff, PowerOffEnd, ForceOff, ForceOffAlreadyOff,
             ForceOffDrv, ForceOffEnd
    <2>5. CASE \/ \E d \in Drv : SubNext(d)
               \/ \E d \in Registrars : Register(d)
               \/ \E c \in Callers : CallerNext(c)
               \/ UNCHANGED vars
      <3>1. UNCHANGED <<tpc, curr, idx, drv, cbQ>>
        BY <2>5 DEF SubNext, SubGetOp, SubCallback, SubOopses, SubDone, Register, CallerNext, CheckRst,
                    SendRequest, vars, threadVars, powerVars
      <3> QED
        BY <3>1 DEF OneWriter
    <2> QED
      BY <2>2, <2>3, <2>4, <2>5, PowerStepOneWriter DEF Next, CoredNext
  <1> QED
    BY <1>1, <1>2, CoreTypeHolds, PTL DEF Spec

\* The status is fresh when nothing is switched off but by resets, and when there
\* are no resets; the run core_cut shows it stale when both happen.
LEMMA StatusIsFresh == NoOff \/ Triggers = {} => (Spec => []FreshStatus)
  <1>1. NobodyOff => FreshStatus
    BY DEF NobodyOff, FreshStatus
  <1>2. OneWriter => FreshStatus
    BY DEF OneWriter, FreshStatus, Threads
  <1>3. CASE NoOff
    BY <1>1, <1>3, OnlyResetsOff, PTL
  <1>4. CASE Triggers = {}
    BY <1>2, <1>4, OneWriterHolds, PTL
  <1> QED
    BY <1>3, <1>4

\* The hardware follows the record (conninfra_core.c:221, 297, 319): under that
\* condition, whoever gets core_lock finds conn_infra powered exactly when it is
\* recorded on.
THEOREM ChipAlwaysFollows == NoOff \/ Triggers = {} => (Spec => []ChipFollows)
  <1>1. ChipRecords => ChipFollows
    BY DEF ChipRecords
  <1> QED
    BY <1>1, StatusIsFresh, FreshStatusSuffices, PTL

\* Under the same condition no register is accessed while the chip has no power
\* (conninfra_core.c:468-483, 817-819).
THEOREM AccessAlwaysPowered == NoOff \/ Triggers = {} => (Spec => []AccessPowered)
  <1>1. ChipRecords => AccessPowered
    BY DEF ChipRecords, ChipInside, AccessPowered
  <1> QED
    BY <1>1, StatusIsFresh, FreshStatusSuffices, PTL
=============================================================================
