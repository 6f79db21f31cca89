---------------------------- MODULE ConninfraCore ----------------------------
(***************************************************************************)
(* The core of the conninfra driver (core/conninfra_core.c behind          *)
(* src/conninfra.c): power on and off of the radios that share one chip,   *)
(* and the reset of the whole chip.                                        *)
(*                                                                         *)
(* Power requests run one after the other on the thread conninfra_cored.   *)
(* A chip reset runs on the thread conninfra_cb, next to it: it asks every *)
(* radio's own thread to run the pre callback, cuts the power, powers the  *)
(* radios on again and asks for the post callbacks.  core_lock serialises  *)
(* what touches power and hardware, rst_status refuses requests during a   *)
(* reset; but rst_status is tested before a request is queued, and both    *)
(* threads read the power records without core_lock.                       *)
(*                                                                         *)
(* Taking core_lock is joined with the first access under it, releasing it *)
(* with the last.  The voltage rail of a radio (VCN) is switched together  *)
(* with its record and has no variable.  rst_sema only wakes a loop that   *)
(* tests rst_state again at least every 500 ms, and is left out.           *)
(***************************************************************************)
EXTENDS Integers, Sequences

CONSTANTS
    DrvMax,         \* CONNDRV_TYPE_MAX; the last type is CONNDRV_TYPE_CONNINFRA
    AutoUp,         \* CONFIG_CONNINFRA_AUTO_UP
    Cored,          \* the thread conninfra_cored
    Cb,             \* the thread conninfra_cb
    Readers,        \* threads that call conninfra_is_bus_hang, reg_read, ...
    Callers,        \* threads that call conninfra_pwr_on, conninfra_pwr_off, ...
    Calls,          \* the requests <<operation, radio>> that they make
    Triggers,       \* radios whose driver calls conninfra_trigger_whole_chip_rst
    Killable,       \* those of them that a fatal signal may hit
    Registrars,     \* radios whose driver registers and unregisters callbacks
    QSize           \* bound: requests queued for conninfra_cored

Drv == 0 .. DrvMax - 1
Conninfra == DrvMax - 1
NoDrv == DrvMax             \* trg_drv after reset_chip_rst_trg_data
None == 0                   \* core_lock is free

ASSUME DrvAssumption == DrvMax \in Nat \ {0}
ASSUME AutoUpAssumption == AutoUp \in BOOLEAN
ASSUME QSizeAssumption == QSize \in Nat \ {0}
ASSUME RadiosAssumption ==
    /\ Triggers \subseteq Drv /\ Registrars \subseteq Drv
    /\ Killable \subseteq Triggers
ASSUME CallsAssumption == Calls \subseteq {"on", "off", "access"} \X Drv
ASSUME ThreadsAssumption ==
    Cored # Cb /\ Cored \notin Readers /\ Cb \notin Readers
    /\ None \notin Readers \cup {Cored, Cb}

VARIABLES
    lock,           \* core_lock: its owner
    drv,            \* drv_inst[].drv_status: the radios that are on
    infra,          \* infra_drv_status
    chip,           \* the hardware: conn_infra has power
    rstStatus,      \* rst_status
    rstState,       \* rst_state: sum of 2^radio over the callbacks that ended
    trgDrv,         \* trg_drv
    coreQ,          \* requests queued for conninfra_cored
    cbQ,            \* resets queued for conninfra_cb
    tpc,            \* where each thread is
    arg,            \* drv_type of the power function it runs
    curr,           \* curr_status, read by opfunc_power_off_internal
    idx,            \* loop index of the power function
    cbDrv,          \* the reset being run: who asked for it
    pwrState,       \* drv_pwr_state of opfunc_chip_rst
    rsti,           \* its loop index
    cpc, call,      \* callers of power functions
    gpc,            \* callers of conninfra_trigger_whole_chip_rst
    subQ, spc, sop, \* the radios' threads: queue, place, operation
    registered      \* ops_cb: the radios with callbacks

powerVars == <<lock, drv, infra, chip>>
rstVars == <<rstStatus, rstState, trgDrv>>
threadVars == <<tpc, arg, curr, idx>>
cbVars == <<cbDrv, pwrState, rsti>>
callerVars == <<cpc, call>>
subVars == <<subQ, spc, sop, registered>>
vars == <<powerVars, rstVars, coreQ, cbQ, threadVars, cbVars, callerVars, gpc,
          subVars>>

Threads == {Cored, Cb} \cup Readers

\* chip_rst_status.  CHIP_RST_DONE is never assigned.
CHIP_RST_NONE == 0
CHIP_RST_START == 1
CHIP_RST_PRE_CB == 2
CHIP_RST_RESET == 3
CHIP_RST_POST_CB == 4

PowerPC == {"on_lock", "on_set", "off_read", "off_lock", "off_end", "force"}
AccessPC == {"acc_lock", "access"}
ResetPC == {"rst_check", "rst_pre", "rst_on",
            "rst_post", "rst_open"}

\* Where a thread owns core_lock.
Critical == {"on_set", "off_end", "force", "access"}

PowerType ==
    /\ lock \in Threads \cup {None}
    /\ drv \subseteq Drv /\ infra \in BOOLEAN /\ chip \in BOOLEAN

ThreadType ==
    /\ tpc \in [Threads -> {"idle"} \cup PowerPC \cup AccessPC \cup ResetPC]
    /\ arg \in [Threads -> Drv]
    /\ curr \in [Threads -> SUBSET Drv]
    /\ idx \in [Threads -> 0 .. DrvMax]

ResetType ==
    /\ rstStatus \in CHIP_RST_NONE .. CHIP_RST_POST_CB
    /\ trgDrv \in Drv \cup {NoDrv}
    /\ cbQ \in Seq(Triggers)
    /\ cbDrv \in Drv \cup {NoDrv} /\ pwrState \subseteq Drv /\ rsti \in 0 .. DrvMax
    /\ gpc \in [Triggers -> {"idle", "mark", "send"}]

RequestType ==
    /\ coreQ \in Seq(Calls)
    /\ cpc \in [Callers -> {"idle", "send"}]
    /\ call \in [Callers -> Calls \cup {<<>>}]
    /\ \A c \in Callers : cpc[c] = "send" => call[c] \in Calls

SubType ==
    /\ subQ \in [Drv -> Seq({"pre", "post"})]
    /\ spc \in [Drv -> {"idle", "call", "done", "dead"}]
    /\ sop \in [Drv -> {"pre", "post"}]
    /\ registered \subseteq Drv

\* The types of all but rst_state.
CoreType == PowerType /\ ThreadType /\ ResetType /\ RequestType /\ SubType

\* Types; rst_state is what its atomic additions make of it, never negative.
TypeOK == CoreType /\ rstState \in Nat

\* The module is loaded: conninfra_core_init, then conn_infra itself is powered on
\* if so configured.  The drivers that register callbacks have done so.
Init ==
    /\ lock = None /\ drv = IF AutoUp THEN {Conninfra} ELSE {}
    /\ infra = AutoUp /\ chip = AutoUp
    /\ rstStatus = CHIP_RST_NONE /\ rstState = 0 /\ trgDrv = NoDrv
    /\ coreQ = <<>> /\ cbQ = <<>>
    /\ tpc = [t \in Threads |-> "idle"]
    /\ arg = [t \in Threads |-> 0]
    /\ curr = [t \in Threads |-> {}]
    /\ idx = [t \in Threads |-> 0]
    /\ cbDrv = NoDrv /\ pwrState = {} /\ rsti = 0
    /\ cpc = [c \in Callers |-> "idle"] /\ call = [c \in Callers |-> <<>>]
    /\ gpc = [t \in Triggers |-> "idle"]
    /\ subQ = [d \in Drv |-> <<>>] /\ spc = [d \in Drv |-> "idle"]
    /\ sop = [d \in Drv |-> "pre"] /\ registered = Registrars

-----------------------------------------------------------------------------
(* The driver's interface, src/conninfra.c *)

RstLocking == rstStatus > CHIP_RST_NONE /\ rstStatus < CHIP_RST_POST_CB

\* A power request is refused during a reset.  Requests that only touch the
\* hardware are refused, too, but for conninfra_spi_clock_switch and the resume
\* handler's dump: an access may be admitted at any time.
Admitted(op) == op[1] = "access" \/ ~RstLocking

\* The gate is tested; what happens until the request is queued is not looked at.
CheckRst(c) ==
    /\ cpc[c] = "idle"
    /\ \E op \in Calls : Admitted(op) /\ call' = [call EXCEPT ![c] = op]
    /\ cpc' = [cpc EXCEPT ![c] = "send"]
    /\ UNCHANGED <<powerVars, rstVars, coreQ, cbQ, threadVars, cbVars, gpc, subVars>>

\* The request is queued.  The caller may wait for its end, or its wait may
\* time out: it can be back with the next request before this one has run.
SendRequest(c) ==
    /\ cpc[c] = "send" /\ Len(coreQ) < QSize
    /\ coreQ' = Append(coreQ, call[c])
    /\ cpc' = [cpc EXCEPT ![c] = "idle"]
    /\ call' = [call EXCEPT ![c] = <<>>]
    /\ UNCHANGED <<powerVars, rstVars, cbQ, threadVars, cbVars, gpc, subVars>>

\* Faulty variant of LockRst: the gate is set without a look at it.
BadLockRst(d) ==
    /\ gpc[d] = "idle"
    /\ rstStatus' = CHIP_RST_START
    /\ gpc' = [gpc EXCEPT ![d] = "mark"]
    /\ UNCHANGED <<powerVars, rstState, trgDrv, coreQ, cbQ, threadVars, cbVars,
                   callerVars, subVars>>

\* conninfra_core_lock_rst; during a reset the call just returns "ongoing".
LockRst(d) ==
    /\ gpc[d] = "idle" /\ rstStatus = CHIP_RST_NONE
    /\ rstStatus' = CHIP_RST_START
    /\ gpc' = [gpc EXCEPT ![d] = "mark"]
    /\ UNCHANGED <<powerVars, rstState, trgDrv, coreQ, cbQ, threadVars, cbVars,
                   callerVars, subVars>>

\* conninfra_core_trg_chip_rst records who triggers ...
MarkTrigger(d) ==
    /\ gpc[d] = "mark"
    /\ trgDrv' = d
    /\ gpc' = [gpc EXCEPT ![d] = "send"]
    /\ UNCHANGED <<powerVars, rstStatus, rstState, coreQ, cbQ, threadVars, cbVars,
                   callerVars, subVars>>

\* ... and queues the reset.
SendReset(d) ==
    /\ gpc[d] = "send"
    /\ cbQ' = Append(cbQ, d)
    /\ gpc' = [gpc EXCEPT ![d] = "idle"]
    /\ UNCHANGED <<powerVars, rstVars, coreQ, threadVars, cbVars, callerVars, subVars>>

\* The message cannot be queued because the caller is being killed.  The error
\* is dropped: conninfra_trigger_whole_chip_rst returns 0.
SendResetFails(d) ==
    /\ gpc[d] = "send" /\ d \in Killable
    /\ gpc' = [gpc EXCEPT ![d] = "idle"]
    /\ UNCHANGED <<powerVars, rstVars, coreQ, cbQ, threadVars, cbVars, callerVars,
                   subVars>>

\* conninfra_core_subsys_ops_reg and conninfra_core_subsys_ops_unreg
Register(d) ==
    /\ registered' = IF d \in registered THEN registered \ {d}
                                         ELSE registered \cup {d}
    /\ UNCHANGED <<powerVars, rstVars, coreQ, cbQ, threadVars, cbVars, callerVars,
                   gpc, subQ, spc, sop>>

-----------------------------------------------------------------------------
(* opfunc_power_on_internal and opfunc_power_off_internal, run by          *)
(* conninfra_cored and by conninfra_cb                                     *)

Goto(t, label) == tpc' = [tpc EXCEPT ![t] = label]

\* A power function returns, to the loop of opfunc_chip_rst or to the end of the
\* request; its local variables are gone.
Return(t) ==
    /\ Goto(t, IF t = Cb THEN "rst_on" ELSE "idle")
    /\ arg' = [arg EXCEPT ![t] = 0]
    /\ curr' = [curr EXCEPT ![t] = {}]
    /\ idx' = [idx EXCEPT ![t] = 0]

locals == <<arg, curr, idx>>

\* consys_hw_pwr_on and consys_hw_pwr_off: the status they are given decides
\* whether the chip itself is switched, or only the radio's part of it.
FirstPowerOn(status) == status = {}
LastPowerOff(status, d) == status \ {d} = {}

\* Faulty variant of PowerOn: the chip is taken to have power already.
BadPowerOn(t) ==
    /\ tpc[t] = "on_lock" /\ lock = None
    /\ \/ /\ arg[t] \in drv
          /\ Return(t)
          /\ UNCHANGED <<lock, infra>>
       \/ /\ arg[t] \notin drv
          /\ lock' = t
          /\ infra' = TRUE
          /\ Goto(t, "on_set")
          /\ UNCHANGED locals
    /\ UNCHANGED <<drv, chip, rstVars, coreQ, cbQ, cbVars,
                   callerVars, gpc, subVars>>

\* Faulty variant of PowerOn: "already on" returns with core_lock taken.
BadPowerOnLocked(t) ==
    /\ tpc[t] = "on_lock" /\ lock = None
    /\ lock' = t
    /\ \/ /\ arg[t] \in drv
          /\ Return(t)
          /\ UNCHANGED <<infra, chip>>
       \/ /\ arg[t] \notin drv
          /\ chip' = (chip \/ FirstPowerOn(drv))
          /\ infra' = TRUE
          /\ Goto(t, "on_set")
          /\ UNCHANGED locals
    /\ UNCHANGED <<drv, rstVars, coreQ, cbQ, cbVars, callerVars, gpc, subVars>>

\* opfunc_power_on_internal: nothing to do when the radio is on.
PowerOn(t) ==
    /\ tpc[t] = "on_lock" /\ lock = None
    /\ \/ /\ arg[t] \in drv
          /\ Return(t)
          /\ UNCHANGED <<lock, infra, chip>>
       \/ /\ arg[t] \notin drv
          /\ lock' = t
          /\ chip' = (chip \/ FirstPowerOn(drv))
          /\ infra' = TRUE
          /\ Goto(t, "on_set")
          /\ UNCHANGED locals
    /\ UNCHANGED <<drv, rstVars, coreQ, cbQ, cbVars, callerVars,
                   gpc, subVars>>

PowerOnSet(t) ==
    /\ tpc[t] = "on_set"
    /\ drv' = drv \cup {arg[t]}
    /\ lock' = None
    /\ Return(t)
    /\ UNCHANGED <<infra, chip, rstVars, coreQ, cbQ, cbVars,
                   callerVars, gpc, subVars>>

\* opfunc_get_current_status, before core_lock is taken: one record at a time.
ReadStatus(t) ==
    /\ tpc[t] = "off_read"
    /\ \/ /\ idx[t] < DrvMax
          /\ curr' = [curr EXCEPT ![t] = @ \cup (drv \cap {idx[t]})]
          /\ idx' = [idx EXCEPT ![t] = @ + 1]
          /\ UNCHANGED tpc
       \/ /\ idx[t] = DrvMax
          /\ idx' = [idx EXCEPT ![t] = 0]
          /\ Goto(t, "off_lock")
          /\ UNCHANGED curr
    /\ UNCHANGED <<powerVars, arg, rstVars, coreQ, cbQ, cbVars, callerVars, gpc,
                   subVars>>

\* One radio: nothing to do when it is off.
PowerOff(t) ==
    /\ tpc[t] = "off_lock" /\ lock = None /\ arg[t] # Conninfra
    /\ \/ /\ arg[t] \notin drv
          /\ Return(t)
          /\ UNCHANGED <<lock, drv>>
       \/ /\ arg[t] \in drv
          /\ lock' = t
          /\ drv' = drv \ {arg[t]}
          /\ Goto(t, "off_end")
          /\ UNCHANGED locals
    /\ UNCHANGED <<infra, chip, rstVars, coreQ, cbQ, cbVars,
                   callerVars, gpc, subVars>>

\* Faulty variant of PowerOffEnd: the record, too, is decided on the status read
\* before core_lock was taken.
BadPowerOffEnd(t) ==
    /\ tpc[t] = "off_end"
    /\ chip' = (chip /\ ~LastPowerOff(curr[t], arg[t]))
    /\ infra' = (infra /\ curr[t] \ {arg[t]} # {})
    /\ lock' = None
    /\ Return(t)
    /\ UNCHANGED <<drv, rstVars, coreQ, cbQ, cbVars, callerVars, gpc, subVars>>

\* consys_hw_pwr_off decides on curr_status whether this was the last radio, the
\* caller decides on the records.
PowerOffEnd(t) ==
    /\ tpc[t] = "off_end"
    /\ chip' = (chip /\ ~LastPowerOff(curr[t], arg[t]))
    /\ infra' = (infra /\ drv # {})
    /\ lock' = None
    /\ Return(t)
    /\ UNCHANGED <<drv, rstVars, coreQ, cbQ, cbVars, callerVars, gpc,
                   subVars>>

\* Faulty variant of ForceOff: a reset does not wait for core_lock.
BadForceOff(t) ==
    /\ tpc[t] = "off_lock" /\ arg[t] = Conninfra /\ infra
    /\ idx' = [idx EXCEPT ![t] = 0]
    /\ Goto(t, "force")
    /\ UNCHANGED <<lock, drv, infra, chip, arg, curr, rstVars, coreQ, cbQ, cbVars,
                   callerVars, gpc, subVars>>

\* Forced power off of everything.
ForceOff(t) ==
    /\ tpc[t] = "off_lock" /\ lock = None /\ arg[t] = Conninfra /\ infra
    /\ lock' = t
    /\ idx' = [idx EXCEPT ![t] = 0]
    /\ Goto(t, "force")
    /\ UNCHANGED <<drv, infra, chip, arg, curr, rstVars, coreQ, cbQ, cbVars,
                   callerVars, gpc, subVars>>

\* "Connsys already off": the function returns, core_lock stays taken.
ForceOffAlreadyOff(t) ==
    /\ tpc[t] = "off_lock" /\ lock = None /\ arg[t] = Conninfra /\ ~infra
    /\ lock' = t
    /\ Return(t)
    /\ UNCHANGED <<drv, infra, chip, rstVars, coreQ, cbQ, cbVars,
                   callerVars, gpc, subVars>>

ForceOffDrv(t) ==
    /\ tpc[t] = "force" /\ idx[t] < DrvMax
    /\ drv' = drv \ {idx[t]}
    /\ idx' = [idx EXCEPT ![t] = @ + 1]
    /\ UNCHANGED <<lock, infra, chip, tpc, arg, curr, rstVars, coreQ, cbQ, cbVars,
                   callerVars, gpc, subVars>>

\* Faulty variant of ForceOffEnd: the record of conn_infra is not updated.
BadForceOffEnd(t) ==
    /\ tpc[t] = "force" /\ idx[t] = DrvMax
    /\ chip' = FALSE
    /\ lock' = None
    /\ Return(t)
    /\ UNCHANGED <<drv, infra, rstVars, coreQ, cbQ, cbVars, callerVars, gpc, subVars>>

ForceOffEnd(t) ==
    /\ tpc[t] = "force" /\ idx[t] = DrvMax
    /\ chip' = FALSE /\ infra' = FALSE
    /\ lock' = None
    /\ Return(t)
    /\ UNCHANGED <<drv, rstVars, coreQ, cbQ, cbVars, callerVars, gpc,
                   subVars>>

-----------------------------------------------------------------------------
(* Hardware access under core_lock: RF SPI, A-die and SPI clock, forced    *)
(* wake-up and sleep, dumps on conninfra_cored; bus hang test, register    *)
(* access and PMIC events on any other thread.  What such a thread has     *)
(* seen of rst_status before it gets core_lock can be of any age.          *)

AccessStarts(t) ==
    /\ tpc[t] = IF t \in Readers THEN "idle" ELSE "acc_lock"
    /\ lock = None
    /\ \/ /\ infra
          /\ lock' = t
          /\ Goto(t, "access")
       \/ /\ ~infra
          /\ Goto(t, "idle")
          /\ UNCHANGED lock
    /\ UNCHANGED <<drv, infra, chip, arg, curr, idx, rstVars, coreQ, cbQ, cbVars,
                   callerVars, gpc, subVars>>

AccessEnds(t) ==
    /\ tpc[t] = "access"
    /\ lock' = None
    /\ Goto(t, "idle")
    /\ UNCHANGED <<drv, infra, chip, arg, curr, idx, rstVars, coreQ, cbQ, cbVars,
                   callerVars, gpc, subVars>>

\* conninfra_cored takes the next request.
CoredGetOp ==
    /\ tpc[Cored] = "idle" /\ coreQ # <<>>
    /\ LET op == Head(coreQ) IN
       /\ arg' = [arg EXCEPT ![Cored] = op[2]]
       /\ Goto(Cored, CASE op[1] = "on" -> "on_lock"
                        [] op[1] = "off" -> "off_read"
                        [] OTHER -> "acc_lock")
    /\ coreQ' = Tail(coreQ)
    /\ UNCHANGED <<powerVars, rstVars, cbQ, curr, idx, cbVars, callerVars, gpc,
                   subVars>>

-----------------------------------------------------------------------------
(* opfunc_chip_rst on conninfra_cb *)

AllDone == 2 ^ DrvMax - 1           \* subdrv_all_done

CbGetOp ==
    /\ tpc[Cb] = "idle" /\ cbQ # <<>>
    /\ cbDrv' = Head(cbQ)
    /\ cbQ' = Tail(cbQ)
    /\ Goto(Cb, "rst_check")
    /\ UNCHANGED <<powerVars, rstVars, coreQ, arg, curr, idx, pwrState, rsti,
                   callerVars, gpc, subVars>>

\* Nothing is on: the reset is over.
RstNothingOn ==
    /\ tpc[Cb] = "rst_check" /\ ~infra
    /\ rstStatus' = CHIP_RST_NONE
    /\ cbDrv' = NoDrv
    /\ Goto(Cb, "idle")
    /\ UNCHANGED <<powerVars, rstState, trgDrv, coreQ, cbQ, arg, curr, idx,
                   pwrState, rsti, callerVars, gpc, subVars>>

RstBegin ==
    /\ tpc[Cb] = "rst_check" /\ infra
    /\ rstState' = 0
    /\ rstStatus' = CHIP_RST_PRE_CB
    /\ pwrState' = {} /\ rsti' = 0
    /\ Goto(Cb, "rst_pre")
    /\ UNCHANGED <<powerVars, trgDrv, coreQ, cbQ, arg, curr, idx, cbDrv,
                   callerVars, gpc, subVars>>

\* Faulty variant of RstPre: the loop runs once too often.
BadRstPre ==
    /\ tpc[Cb] = "rst_pre" /\ rsti <= DrvMax
    /\ pwrState' = pwrState \cup (drv \cap {rsti})
    /\ subQ' = [subQ EXCEPT ![rsti % DrvMax] = Append(@, "pre")]
    /\ rsti' = rsti + 1
    /\ UNCHANGED <<powerVars, rstVars, coreQ, cbQ, threadVars, cbDrv, callerVars,
                   gpc, spc, sop, registered>>

\* For each radio in turn: its power record is saved, without core_lock, and
\* its thread is asked to run the pre callback.
RstPre ==
    /\ tpc[Cb] = "rst_pre" /\ rsti < DrvMax
    /\ pwrState' = pwrState \cup (drv \cap {rsti})
    /\ subQ' = [subQ EXCEPT ![rsti] = Append(@, "pre")]
    /\ rsti' = rsti + 1
    /\ UNCHANGED <<powerVars, rstVars, coreQ, cbQ, threadVars, cbDrv, callerVars,
                   gpc, spc, sop, registered>>

\* Faulty variant of RstWaitPre: a callback that is late is not waited for.
BadRstWaitPre ==
    /\ tpc[Cb] = "rst_pre" /\ rsti = DrvMax
    /\ rstStatus' = CHIP_RST_RESET
    /\ arg' = [arg EXCEPT ![Cb] = Conninfra]
    /\ Goto(Cb, "off_lock")
    /\ rsti' = 0
    /\ UNCHANGED <<powerVars, rstState, trgDrv, coreQ, cbQ, curr, idx, cbDrv,
                   pwrState, callerVars, gpc, subVars>>

\* All pre callbacks have ended; a timeout of the wait only logs who is late.
\* The power is cut next.
RstWaitPre ==
    /\ tpc[Cb] = "rst_pre" /\ rsti = DrvMax
    /\ rstState = AllDone
    /\ rstStatus' = CHIP_RST_RESET
    /\ arg' = [arg EXCEPT ![Cb] = Conninfra]
    /\ Goto(Cb, "off_lock")
    /\ rsti' = 0
    /\ UNCHANGED <<powerVars, rstState, trgDrv, coreQ, cbQ, curr, idx, cbDrv,
                   pwrState, callerVars, gpc, subVars>>

\* Faulty variant of RstPowerOn: the last type is left out of the loop.
BadRstPowerOn ==
    /\ tpc[Cb] = "rst_on" /\ rsti < DrvMax
    /\ rsti' = rsti + 1
    /\ \/ /\ rsti \in pwrState /\ rsti # Conninfra
          /\ arg' = [arg EXCEPT ![Cb] = rsti]
          /\ Goto(Cb, "on_lock")
       \/ /\ rsti \notin pwrState \/ rsti = Conninfra
          /\ UNCHANGED <<arg, tpc>>
    /\ UNCHANGED <<powerVars, rstVars, coreQ, cbQ, curr, idx, cbDrv, pwrState,
                   callerVars, gpc, subVars>>

\* The radios that were on are powered on again, one by one.
RstPowerOn ==
    /\ tpc[Cb] = "rst_on" /\ rsti < DrvMax
    /\ rsti' = rsti + 1
    /\ \/ /\ rsti \in pwrState
          /\ arg' = [arg EXCEPT ![Cb] = rsti]
          /\ Goto(Cb, "on_lock")
       \/ /\ rsti \notin pwrState
          /\ UNCHANGED <<arg, tpc>>
    /\ UNCHANGED <<powerVars, rstVars, coreQ, cbQ, curr, idx, cbDrv, pwrState,
                   callerVars, gpc, subVars>>

RstPowered ==
    /\ tpc[Cb] = "rst_on" /\ rsti = DrvMax
    /\ rstStatus' = CHIP_RST_POST_CB
    /\ rstState' = 0
    /\ rsti' = 0
    /\ Goto(Cb, "rst_post")
    /\ UNCHANGED <<powerVars, trgDrv, coreQ, cbQ, arg, curr, idx, cbDrv, pwrState,
                   callerVars, gpc, subVars>>

RstPost ==
    /\ tpc[Cb] = "rst_post" /\ rsti < DrvMax
    /\ subQ' = [subQ EXCEPT ![rsti] = Append(@, "post")]
    /\ rsti' = rsti + 1
    /\ UNCHANGED <<powerVars, rstVars, coreQ, cbQ, threadVars, cbDrv, pwrState,
                   callerVars, gpc, spc, sop, registered>>

\* All post callbacks have ended: who triggered is forgotten ...
RstWaitPost ==
    /\ tpc[Cb] = "rst_post" /\ rsti = DrvMax
    /\ rstState = AllDone
    /\ trgDrv' = NoDrv
    /\ Goto(Cb, "rst_open")
    /\ UNCHANGED <<powerVars, rstStatus, rstState, coreQ, cbQ, arg, curr, idx,
                   cbVars, callerVars, gpc, subVars>>

\* Faulty variant of RstOpen: the end of the reset is not recorded.
BadRstOpen ==
    /\ tpc[Cb] = "rst_open"
    /\ cbDrv' = NoDrv /\ pwrState' = {} /\ rsti' = 0
    /\ Goto(Cb, "idle")
    /\ UNCHANGED <<powerVars, rstVars, coreQ, cbQ, arg, curr, idx, callerVars, gpc,
                   subVars>>

\* ... and then the next reset may be triggered.
RstOpen ==
    /\ tpc[Cb] = "rst_open"
    /\ rstStatus' = CHIP_RST_NONE
    /\ cbDrv' = NoDrv /\ pwrState' = {} /\ rsti' = 0
    /\ Goto(Cb, "idle")
    /\ UNCHANGED <<powerVars, rstState, trgDrv, coreQ, cbQ, arg, curr, idx,
                   callerVars, gpc, subVars>>

-----------------------------------------------------------------------------
(* opfunc_subdrv_pre_reset and opfunc_subdrv_post_reset on a radio's thread *)

\* The callback pointer is tested, ...
SubGetOp(d) ==
    /\ spc[d] = "idle" /\ subQ[d] # <<>>
    /\ sop' = [sop EXCEPT ![d] = Head(subQ[d])]
    /\ subQ' = [subQ EXCEPT ![d] = Tail(@)]
    /\ spc' = [spc EXCEPT ![d] = IF d \in registered THEN "call" ELSE "done"]
    /\ UNCHANGED <<powerVars, rstVars, coreQ, cbQ, threadVars, cbVars, callerVars,
                   gpc, registered>>

\* ... the callback runs, ...
SubCallback(d) ==
    /\ spc[d] = "call"
    /\ spc' = [spc EXCEPT ![d] = "done"]
    /\ UNCHANGED <<powerVars, rstVars, coreQ, cbQ, threadVars, cbVars, callerVars,
                   gpc, subQ, sop, registered>>

\* ... or the driver has unregistered since and the call goes through a cleared
\* pointer (if the compiler reads it again): the kernel kills the thread ...
SubOopses(d) ==
    /\ spc[d] = "call" /\ d \notin registered
    /\ spc' = [spc EXCEPT ![d] = "dead"]
    /\ UNCHANGED <<powerVars, rstVars, coreQ, cbQ, threadVars, cbVars, callerVars,
                   gpc, subQ, sop, registered>>

\* ... and its end is added to rst_state.
SubDone(d) ==
    /\ spc[d] = "done"
    /\ rstState' = rstState + 2 ^ d
    /\ spc' = [spc EXCEPT ![d] = "idle"]
    /\ UNCHANGED <<powerVars, rstStatus, trgDrv, coreQ, cbQ, threadVars, cbVars,
                   callerVars, gpc, subQ, sop, registered>>

-----------------------------------------------------------------------------

PowerStep(t) ==
    \/ PowerOn(t) \/ PowerOnSet(t)
    \/ ReadStatus(t) \/ PowerOff(t) \/ PowerOffEnd(t)
    \/ ForceOff(t) \/ ForceOffAlreadyOff(t) \/ ForceOffDrv(t) \/ ForceOffEnd(t)

ChipRst ==
    \/ CbGetOp \/ RstNothingOn \/ RstBegin \/ RstPre \/ RstWaitPre
    \/ RstPowerOn \/ RstPowered \/ RstPost \/ RstWaitPost \/ RstOpen

CoredNext == CoredGetOp \/ PowerStep(Cored) \/ AccessStarts(Cored)
             \/ AccessEnds(Cored)
CbNext == ChipRst \/ PowerStep(Cb)
SubNext(d) == SubGetOp(d) \/ SubCallback(d) \/ SubOopses(d) \/ SubDone(d)
CallerNext(c) == CheckRst(c) \/ SendRequest(c)
TriggerNext(d) == MarkTrigger(d) \/ SendReset(d) \/ SendResetFails(d)

Next ==
    \/ CoredNext \/ CbNext
    \/ \E t \in Readers : AccessStarts(t) \/ AccessEnds(t)
    \/ \E d \in Drv : SubNext(d)
    \/ \E d \in Triggers : LockRst(d) \/ TriggerNext(d)
    \/ \E d \in Registrars : Register(d)
    \/ \E c \in Callers : CallerNext(c)

\* Threads that can run do run, callbacks end, and a thread that keeps asking
\* for core_lock gets it (a kernel mutex hands over to its oldest waiter).
Fairness ==
    /\ SF_vars(CoredNext) /\ SF_vars(CbNext)
    /\ \A t \in Readers : WF_vars(AccessEnds(t))
    /\ \A d \in Drv : WF_vars(SubNext(d))
    /\ \A d \in Triggers : WF_vars(TriggerNext(d))

Spec == Init /\ [][Next]_vars
FairSpec == Spec /\ Fairness

-----------------------------------------------------------------------------
(* Safety *)

\* core_lock (conninfra_core.c:208-243, 268-339): a thread that has left the
\* power functions and hardware accesses does not own core_lock any more.
LockReleased == lock # None => tpc[lock] \in Critical

\* The power records (conninfra_core.c:230-231, 285-301, 312-329): while nobody
\* is in a critical section conn_infra is recorded on exactly when a radio is.
RecordsAgree == lock = None => (infra <=> drv # {})

\* core_lock excludes (conninfra_core.c:208-243, 268-339, 462-485): whoever is
\* between taking and releasing it owns it, so that there is one at a time.
MutualExclusion == \A t \in Threads : tpc[t] \in Critical => lock = t

\* What the records say in the middle of each function that holds core_lock.
RecordsInside ==
    \A t \in Threads :
        /\ tpc[t] \in {"on_set", "off_end"} => infra
        /\ tpc[t] = "access" => (infra <=> drv # {})
        /\ tpc[t] = "force" => \A d \in drv : d >= idx[t]

\* The discipline of the power records (conninfra_core.c:208-243, 268-339): the
\* inductive invariant behind RecordsAgree.
PowerRecords == MutualExclusion /\ RecordsAgree /\ RecordsInside

\* The hardware follows the record (conninfra_core.c:221, 297, 319): whoever
\* gets core_lock and finds conn_infra on finds it powered.
ChipFollows == lock = None => (infra <=> chip)

\* Hardware access (conninfra_core.c:468-483, 817-819): no access happens while
\* the chip has no power.
AccessPowered == \A t \in Threads : tpc[t] = "access" => chip

\* A reset is at one of these places from its trigger to its end.
Triggering == {d \in Triggers : gpc[d] # "idle"}
ResetRuns == tpc[Cb] # "idle"

\* One reset at a time (conninfra_core.c:883-902, 359, 445): the gate admits a
\* trigger only when no other reset is being triggered, queued or run.
OneReset ==
    /\ \A d, e \in Triggering : d = e
    /\ Len(cbQ) <= 1
    /\ Triggering # {} => cbQ = <<>> /\ ~ResetRuns
    /\ cbQ # <<>> => ~ResetRuns
    /\ rstStatus = CHIP_RST_NONE => Triggering = {} /\ cbQ = <<>> /\ ~ResetRuns

\* conninfra.h, "=0: triggered, =1: ongoing": when the gate refuses requests a
\* reset is on its way.
GateHasReset ==
    rstStatus # CHIP_RST_NONE => Triggering # {} \/ cbQ # <<>> \/ ResetRuns

\* Callbacks keep to their phase (conninfra_core.c:371-393, 418-445): a pre
\* callback never runs, or waits to run, once the power is being cut, a post
\* callback never before the power is back or after the reset has ended.
CallbackInPhase ==
    \A d \in Drv : \A op \in {"pre", "post"} :
        (spc[d] # "idle" /\ sop[d] = op) \/ (\E i \in 1 .. Len(subQ[d]) : subQ[d][i] = op)
            => rstStatus = IF op = "pre" THEN CHIP_RST_PRE_CB ELSE CHIP_RST_POST_CB

\* What a pre callback is told (conninfra_core.c:696, 920, 443): the driver that
\* triggered the reset which runs, not a later one and not nobody.
PreSeesTrigger ==
    \A d \in Drv : spc[d] = "call" /\ sop[d] = "pre" => trgDrv = cbDrv

\* conninfra_core.c:414, "conninfra status should be power on": it is, when
\* the radios have been powered on again.
StatusOnAfterReset == tpc[Cb] = "rst_on" /\ rsti = DrvMax => infra

\* What the callback of radio d has added to rst_state in this phase: its bit, once
\* it was asked to run, has run and has ended.
Quiet(d) == subQ[d] = <<>> /\ spc[d] = "idle"
EndBit(d) == IF d < rsti /\ Quiet(d) THEN 2 ^ d ELSE 0

\* The callbacks of a phase of the reset: each radio is asked once, and rst_state
\* has the bits of those that have ended (for up to five types, as in the code).
InPhase(op) ==
    /\ \A d \in Drv :
        /\ d >= rsti => Quiet(d)
        /\ subQ[d] = <<>> \/ (subQ[d] = <<op>> /\ spc[d] = "idle")
        /\ spc[d] # "idle" => sop[d] = op
    /\ rstState = EndBit(0) + EndBit(1) + EndBit(2) + EndBit(3) + EndBit(4)

\* opfunc_chip_rst and the radios' threads (conninfra_core.c:349-454, 685-729): the
\* phase it is in, what rst_status says and what the radios do belong together.
\* The inductive invariant behind CallbackInPhase.
CallbackPhases ==
    /\ tpc[Cb] = "rst_pre" => InPhase("pre") /\ rstStatus = CHIP_RST_PRE_CB
    /\ tpc[Cb] = "rst_post" => InPhase("post") /\ rstStatus = CHIP_RST_POST_CB
    /\ tpc[Cb] \notin {"rst_pre", "rst_post"} => \A d \in Drv : Quiet(d)

\* Who triggered is known from the trigger to the end of the post callbacks
\* (conninfra_core.c:920, 443).
TriggerKnown ==
    /\ \A d \in Triggers : gpc[d] = "send" => trgDrv = d
    /\ cbQ # <<>> => trgDrv = Head(cbQ)
    /\ tpc[Cb] \notin {"idle", "rst_open"} => trgDrv = cbDrv

\* The power function that decides on the status it has read (conninfra_core.c:266,
\* 310): when it gets core_lock for a radio the records still say the same.
FreshStatus ==
    \A t \in Threads :
        tpc[t] = "off_lock" /\ arg[t] # Conninfra /\ lock = None => curr[t] = drv

\* The chip in the middle of each function that holds core_lock.
ChipInside ==
    \A t \in Threads :
        /\ tpc[t] = "on_set" => chip
        /\ tpc[t] = "off_end" => chip /\ curr[t] \ {arg[t]} = drv
        /\ tpc[t] = "access" => infra /\ chip

\* The chip and its record (conninfra_core.c:208-243, 268-339): the inductive
\* invariant behind ChipFollows and AccessPowered.
ChipRecords == ChipFollows /\ ChipInside

\* Where opfunc_chip_rst is between the cut of the power and its return.
PowerCut == {"force", "rst_on", "on_lock", "on_set"}

\* A reset keeps conn_infra on (conninfra_core.c:368-412): its record is missing
\* only between the cut and the end of the loop that restores it, and the copy
\* that loop works from has it; nobody else switches conn_infra off.
ResetRestores ==
    /\ tpc[Cb] \notin PowerCut => Conninfra \in drv
    /\ tpc[Cb] = "rst_on" /\ rsti = DrvMax => Conninfra \in drv
    /\ (tpc[Cb] \in PowerCut \cup {"off_lock"} \/ (tpc[Cb] = "rst_pre" /\ rsti = DrvMax))
            => Conninfra \in pwrState
    /\ tpc[Cb] = "off_lock" => arg[Cb] = Conninfra
    /\ tpc[Cb] \in {"off_lock", "force"} => rsti = 0
    /\ tpc[Cb] \in {"on_lock", "on_set"} => rsti = arg[Cb] + 1
    /\ tpc[Cb] \notin {"off_read", "off_end", "acc_lock", "access"}
    /\ \A t \in Threads \ {Cb} :
            /\ tpc[t] \in {"off_read", "off_lock", "off_end"} => arg[t] # Conninfra
            /\ tpc[t] # "force"

-----------------------------------------------------------------------------
(* Liveness *)

\* A reset comes to its end (conninfra_core.c:349-454) and the interface accepts
\* requests again.
ResetEnds == rstStatus # CHIP_RST_NONE ~> rstStatus = CHIP_RST_NONE
=============================================================================
