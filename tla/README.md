# Verification of the conninfra and NAND bad block drivers (immortalwrt-mt798x)

The repository is an OpenWrt tree for MediaTek MT798x routers: build system, package
recipes, kernel patches, vendored upstream code and a number of drivers and tools of its
own. Two of them are modelled here in
TLA+. The part with the most concurrency and the least testing is the *conninfra* driver
(`src/package/mtk/drivers/conninfra/src`), which lets several radios (BT, FM, GPS, WIFI)
share one connectivity chip. The part on which every byte of the firmware and its settings
depends is the NAND bad block management of the MT798x boards
(`src/target/linux/generic/files/drivers/mtd/nand`), whose tables have to survive worn
blocks and power cuts at any moment. The models are checked with TLC; every invariant that
TLC checks is also proved with TLAPS, for all sizes, those of the bad block management under
conditions that section 4 names.

## 1. Inventory

| Component | State | Operations | Interacts with |
|---|---|---|---|
| Message thread (`base/msg_thread.c`) | pool of 64 ops, free queue, active queue, per-op reference count, completion, result | send, send and wait, thread loop, init, deinit | called by the core; one instance each for `conninfra_cored`, `conninfra_cb` and every radio |
| Core and interface (`core/conninfra_core.c`, `src/conninfra.c`) | `core_lock`, `drv_status` per radio, `infra_drv_status`, `rst_status`, `rst_state`, `trg_drv`, callbacks | power on/off, forced off, hardware access, trigger and run a whole chip reset, register callbacks | queues requests on the message threads; calls the hardware layer; runs radio callbacks |
| Hardware layer (`platform/consys_hw.c`) | power of the chip | `consys_hw_pwr_on`, `consys_hw_pwr_off`, register access | called under `core_lock` |
| OSAL (`base/osal.c`) | none of its own | mutex, completion, wait queue, kthread wrappers | kernel |
| Op history ring (`base/ring.c`) | write and read index, 32 bit | segments to read and to write | message thread (log only) |
| Character device (`src/conninfra_dev.c`) | module state | load, unload, ioctl, AUTO_UP power on | core |
| NAND bad block management, NMBM (`mtk_bmt.c`, `mtk_bmt_nmbm.c`) | in memory: block states, mapping, where the two info tables and the pool are; on the chip: signature, main and backup info table, data, bad block marks | attach, create, read, write, erase, isbad, markbad, remap with copy, write and rescue tables, debugfs `mark_bad`, `mark_good`, `repair` | between the MTD layer and the NAND driver |
| Its other back ends (`mtk_bmt_v2.c`, `mtk_bmt_bbt.c`) | the same in other layouts, older SoCs | map, remap | `mtk_bmt.c` |
| Modem band interface (`package/mm-ui-bands`) | modem modes and bands | set in several steps | ModemManager |
| Fan control (`package/fancontrol`), system upgrade scripts (`package/base-files`) | little | polling loop; sequence of flash writes | kernel, flash tools |
| MTK WiFi driver (`package/mtk/drivers/mt_wifi`) | large | calls `conninfra_pwr_on/off` | core |
| Build system, recipes, patches | none | none | none |

What is hard here: callers and thread drop references to the same op in any order; a wait
can time out while the handler runs, finishes, or signals; a caller can be killed at every
mutex (`mutex_lock_killable`); power requests run on one thread while a chip reset runs on
another; the reset gate is tested before a request is queued, not when it runs; the power
records are read without the lock in two places; the reset waits for callbacks of all
radios. In the bad block management every erase and program operation may fail and use up
the spare blocks reserved for it, in the middle of writing one of two tables, and the power
may go at any of these steps; what the next boot finds then decides where every logical
block is. PROJECT.json lists these as hazards, each at its line.

What makes each part correct:

* message thread: counts are exact, no op is freed twice or while in use, none is lost, a
  put always finds room, a call returns its own result, every call returns;
* core: `core_lock` excludes and is always given back; `infra_drv_status` agrees with the
  radios' records and with the chip; no access reaches an unpowered chip; at most one reset
  at a time; callbacks run in their phase and are told who triggered; every reset ends;
* bad block management: no physical block serves two logical ones; the tables never grow over
  data or the signature; after a power cut the mapping found is the stored one or the one
  that was being stored; acknowledged pages stay readable at their logical address; every
  request and every attach ends.

## 2. Modules

| Module | Models | Role |
|---|---|---|
| `MsgThread` | `msg_thread.c`, wait and signal of `osal.c` | detailed specification, inductive invariant |
| `MsgService` | what `msg_thread_send_wait` promises | abstract specification |
| `MsgRefinement` | | the refinement mapping from `MsgThread` to `MsgService` |
| `MCMsgThread` | | instances for TLC |
| `MsgThreadProofs` | | types, ownership, counts, no double free, room in the queues, no op lost |
| `MsgDeliveryProofs` | | a caller gets its own result |
| `MsgRefinementProofs` | | every step is a step of `MsgService` |
| `ConninfraCore` | `conninfra_core.c`, `conninfra.c`, the switching decision of `consys_hw.c` | detailed specification |
| `MCConninfraCore` | | instances for TLC |
| `ConninfraCoreProofs` | | types, power records, one reset at a time |
| `ConninfraResetProofs` | | the gate, the lock and the power around a reset; the chip and its record |
| `ConninfraCallbackProofs` | | phases of the callbacks, `rst_state`, who triggered |
| `Nmbm` | `mtk_bmt_nmbm.c`, requests and debugfs files of `mtk_bmt.c` | detailed specification with worn blocks and power cuts |
| `MCNmbm` | | instances for TLC |
| `NmbmProofs` | | the layout of the chip, blocks not shared, tables miss the data, data kept; types |
| `NmbmCutProofs` | | what attaching finds after any number of power cuts, and the layout across them |

### MsgThread

`freeQ`/`activeQ` are the two op queues, `data`, `timeoutValue`, `result`, `ref`, `done` the
fields of each op (`done` is the completion's count, -1 a completion that was only zeroed).
To raise that one is fatal: the zeroed wait list is not empty to `complete()`, which follows its
NULL pointer, and the kernel kills the thread (`WorkerOopses`, `wpc = "dead"`). A kernel with
`PANIC_ON_OOPS`, as in `target/linux/generic/config-6.6`, restarts instead: the behaviour ends
there, and every prefix of it is one of the model.
A caller walks through `msg_thread_send_wait_3` / `msg_thread_send_2`: `GetFreeOp`, `FillOp`,
`ArmOp`, `TakeRefForThread`, `PutOpToActive`, `TriggerEvent`, `CheckWait`, `WaitSignalled` or
`WaitTimesOut`, `ReadResult`, `DropRef`, `PutOpToFree`; the thread through `msg_evt_thread`:
`WorkerSleeps` when there is nothing to do, until somebody wakes it, `WorkerGetOp`,
`RunHandler`, `WorkerDropRef`, `WorkerPutOpToFree` or `WorkerCheckWait`,
`WorkerWriteResult`, `WorkerRaiseSignal`. Each access to shared memory is one step. Queue
operations are one step because they happen under the queue's mutex; their failing variants
are enabled for callers in `Killable`. `ThreadStop`, `WorkerExit`, `ThreadDeinit`,
`ThreadInit` unload and reload the module, which the kernel does only when no call into it is
in progress. A request is the pair of its caller and an alternating tag, so that a stale result
is told from a fresh one. The history ring, the queue dumps and the duplicate test of
engineering builds do not influence any of this and are left out.

### ConninfraCore

`lock` is `core_lock`, `drv` the set of radios recorded on, `infra` the record of conn_infra,
`chip` what the hardware really is, `rstStatus`/`rstState`/`trgDrv` the reset's shared state.
`conninfra_cored` takes requests from `coreQ`; `conninfra_cb` takes resets from `cbQ` and
follows `opfunc_chip_rst`: `RstBegin`, `RstPre` per radio, `RstWaitPre`, forced power off,
`RstPowerOn` per radio, `RstPowered`, `RstPost` per radio, `RstWaitPost`, `RstOpen`. Both run
the same power functions (`PowerStep`). The radios' threads run callbacks (`SubGetOp`,
`SubCallback`, `SubDone`), or die in the attempt when the driver has unregistered between the
test of the pointer and the call through it (`SubOopses`; a reset then waits for ever, so
`ResetEnds` is checked without callbacks that come and go); other threads access registers (`AccessStarts`, `AccessEnds`).
Taking `core_lock` is joined with the first access under it, releasing it with the last. The
queues are abstract here: what the message thread promises is `MsgThread`'s business. The
one failure of it that matters to the core, a message that cannot be queued because the
caller is being killed, is `SendResetFails`. A power request does not wait for its caller and
its caller not for it (the wait times out), which admits every order the code does.
`consys_hw_pwr_on` and `consys_hw_pwr_off` always return 0; what they are asked to do is
`FirstPowerOn` and `LastPowerOff`. Voltage rails are switched together with the records.
`rst_sema` only wakes a loop that looks at `rst_state` again every 500 ms at the latest.
A thread other than `conninfra_cored` tests `rst_status` (if at all) before it asks for
`core_lock`; as that test can be arbitrarily old, it is not modelled, and accesses may happen
at any time.

### Nmbm

`flash` and `marks` are the chip: what each block holds (nothing, the signature, an info
table, pages of one logical block, or a torn operation) and which blocks are marked bad.
`ni` is `struct nmbm_instance`; its fields are listed above its definition. `pc`, `wr` and
`req` are the driver's stack: the block a write or an erase has come to, the function that
asked for it, and who called that (`for`, `table`, `update`). An erase-and-program of one
block is one step that succeeds or fails; everything between two of them is memory and one
step. So `nmbm_write_mgmt_range` is `WriteSkips`, `WriteSucceeds`, `WriteFails`,
`WriteRunsOut`, and each of its call sites is a pair `...Written`/`...Full` that goes on or
returns: `nmbm_rebuild_info_table`, `nmbm_rescue_single_info_table`,
`nmbm_update_single_info_table`, `nmbm_update_info_table_once` and
`nmbm_rescue_main_info_table` in the order of the source. `Map`, `CopySucceeds`/`CopyFails`
and the update are `remap_block_nmbm`; `Begin`, `RequestSucceeds`, `RequestFails`,
`ReadFindsBitflips`, `BlockIsBad`, `MarkBad`, `BeginMark` the MTD operations with their retry
loop; `BeginUnmap`, `Repair` the debugfs files; `Attach` is `nmbm_attach` up to its first
write to the chip. A request for a logical block without mapping fails at once
(`get_mapping_block_index_nmbm` returns -1), so `NewRequest` has no such request;
`mtk_bmt_block_isbad`, the one caller that does not look at the result, would ask the NAND
driver for a block of that number, which is not modelled.

`PowerCut` may happen at any step. Memory is lost; the block being worked on holds what it
held, nothing, a torn operation, or what was to be written. A failed operation may leave a
block as it was, and writing the bad block mark may fail (the code does not look). A torn
block either fails to read with an ECC error (the search then takes it for bad) or reads as
something that is no table. The chip is abstracted to: info tables of one block (with the
128 KiB blocks and the table sizes of these boards), logical pages counted and not valued, a
page written behind the pages before it, as the flash file systems do.

The remaining variables only watch: `acked` counts acknowledged pages, `saved` are the
mappings that may be on the chip (one once the tables have been loaded, written or updated;
a power cut adds the one in memory), `lost` the blocks whose data are gone, `faults` what the
code has no answer to. A block gets into `lost` when the chip cannot read a page of it, when the
user writes it to `mark_good`, and in two cases that are the driver's own doing: the copy to a
replacement fails and `remap_block_nmbm` does not look at the result (2228-2231), although the
old block may still be readable; and a block was remapped while `protected`, when the mapping is
no longer stored, and the power goes. `DataKept` is about the other blocks, so it does not speak
against these two: it shows that they harm no block but their own. The `faults`:

* `hole`: a walk down the pool has skipped a bad block (then `top` is wrong, see
  `nmbm_shared`); exempts all five properties of `nmbm_cut` that speak of the mapping;
* `bare`: power cut while the only table is rewritten in place; exempts `Recovers` and
  `DataKept`;
* `two stale`: two blocks with a table could neither be erased nor marked bad, and are found
  before the new tables; exempts `Recovers` and `DataKept`. One such block is tolerated.

Each exemption was found by TLC as a counterexample of the property without it.

## 3. Runs

`BT`, `WIFI` and `CONNINFRA` are the three driver types of the core's runs (the code has
five): one that only witnesses, one that is switched and triggers, and the special one, so
that "first", "last" and "another radio is on" all happen. `QSize = 1` for the core's request
queue suffices since a second request waits in its caller. The message thread runs with one
or two ops and two or three callers: the pool is exhausted, ops are reused by another caller,
and both queues can be full.

| Run | Configuration | Shows |
|---|---|---|
| `msg_wait` | 3 waiting callers, 2 ops, late handlers, one killable | `Ownership` (the inductive invariant), `OwnedOnce`, `PutFindsRoom`. Payloads and results are outside the VIEW as no guard reads them; the callers that cannot be killed are symmetric |
| `msg_timely` | 2 waiting callers, 2 ops, handlers in time, one killable | `TypeOK`, `OwnResult`, `Delivery` (its inductive invariant), `CallsReturn`, refinement of `MsgService` |
| `msg_nowait` | 2 callers that do not wait, 2 ops | `RefCountExact`, `NoOpLost`, `QueuedIsHandled`, `PoolRecovers` |
| `msg_late` | 2 waiting callers, 1 op, late handlers | `NoOpLost`, `PoolRecoversUnlessDead`: timeouts before, during and after the handler cost no op; the pool comes back unless the thread has died (see `msg_recycled`) |
| `core_autoup` | conn_infra powered on at load (the shipped configuration), WIFI on/off/access and reset | `LockReleased`, `GateHasReset`, `StatusOnAfterReset`, `ResetRestores` (the invariant behind the first and third), `ResetEnds` |
| `core_on` | radios only powered on, resets, a reader | `ChipFollows`, `AccessPowered`, `ChipRecords` (their inductive invariant) |
| `nmbm_cut` | 16 chips of 12 blocks, see below | `TypeOK`, `NoSharingUnlessHole`, `TablesMissData`, `Layout` (the invariant behind the first two), `DataKept`, `Recovers`, `DriverReturns` |
| `core_all` | no AUTO_UP, BT on, WIFI on/off, both trigger, WIFI killable and re-registering | `TypeOK`, `RecordsAgree`, `PowerRecords` (its inductive invariant), `OneReset`, `CallbackInPhase`, `CallbackPhases` (its inductive invariant), `PreSeesTrigger` |

`nmbm_cut` uses chips of 12 blocks: two data blocks (two are needed to share one, or to take
the neighbour's old block on `mark_good`), one block per table, two spare blocks, a pool of
two or one, the signature. Each scenario of `MCNmbm` spends a budget on failing operations
(up to 4), power cuts (up to 2), requests (up to 3) and debugfs writes (up to 2) on a
prepared chip, a blank one, or one so bad that it has no room for a backup table, for a main
table, for a pool or for the signature, with and without
`mediatek,bmt-force-create`. That exhausts the pool, drives the tables through every rescue
function into and out of the pool, and cuts the power twice in a row, also during the repair
that the first cut made necessary. `Pages` and `Retries` are 2 (the code has 64 and 10): the
first page is moved along by a write of the second, and a retry can fail again and can be
the last. The runs end in idle or dead devices whose budget is used up, so deadlock is not
checked. The state space has 181,607 states.

The remaining runs end in a violation; each is a disagreement of the code with a comment of
its own, recorded under "findings":

* `msg_recycled`: the thread gives up its reference before it writes the result and raises
  the signal. After a timeout the op can belong to another call by then, which is answered
  with the old result. If that call has taken the op and not yet initialised its completion
  (`msg_thread.c:312` to 332), raising the signal kills the thread: `PoolRecovers` fails in the
  configuration of `msg_late`, where only `PoolRecoversUnlessDead` holds. Calls then time out,
  until all ops are stuck in the active queue.
* `core_leak`: the forced power off returns with `core_lock` taken when conn_infra is already
  off. Without AUTO_UP a power off that was admitted just before a reset gets it there. With
  AUTO_UP the state is unreachable (`core_autoup`).
* `core_cut`: a power off reads the status while a reset powers the radios on again, finds
  itself the last, and switches the chip off although conn_infra is recorded on.
* `nmbm_shared`: `nmbm_map_block` takes the first good block from the top of the pool down,
  but lowers the top by one block, not to below the block it took. With one bad block in the
  pool, the third replacement is the block the second one got, and it is erased.

Two more disagreements are known and have no run of their own: a caller that set no timeout
reads `timeoutValue` from an op that the thread may have freed and another caller taken
(`msg_thread.c:355`, "Not set timeout, don't wait"), so that on `conninfra_cored`, which has
both kinds of callers, it may wait and drop a reference that is not its own (`MsgThread` with
one caller of each kind shows it); and a trigger of a reset whose message cannot be queued,
because its caller is being killed, leaves the gate closed for good (`conninfra.c:165`;
`GateHasReset` fails when the triggering driver is in `Killable`).

Each property of a passing run has a mutant in PROJECT.json: the definitions named `Bad...`,
in `Nmbm` those with the comment "Mutant of", stand before the definition they are a faulty
variant of, and make TLC report the property.

### Fairness

`MsgThread`: weak fairness of a call that has started, of the thread and of the end of
`kthread_stop` (not when the thread has died): kernel threads are scheduled, and the timer of
a wait expires. Nobody is
obliged to call or to unload the module. `ConninfraCore`: weak fairness of the radios'
threads (callbacks end), of a trigger under way and of the end of an access; strong fairness
of `conninfra_cored` and `conninfra_cb`, because a kernel mutex is handed to its oldest waiter,
so that a thread cannot be overtaken for ever while `core_lock` is free time and again. Callers
of power functions, triggers and readers need not start anything. `Nmbm`: weak fairness of
the driver's own steps: a thread that has entered the driver runs on. Nobody is obliged to
boot or to send a request.

## 4. Proofs

Every theorem holds for all values of the constants: any pool size, any sets of callers,
readers, drivers that trigger and drivers that are killed. A condition that is needed beyond
the assumptions of the modules is a hypothesis of the theorem and is named below, with what
the code has to say about it.

### Message thread

* `TypeCorrect`: `Spec => []TypeOK`, no further condition.
* `OwnershipHolds`, and from it `RefCountsExact` and `NoDoubleFree`, under `Uniform`: the
  callers of one thread all wait or all do not. That is so for `conninfra_cb` and the radios'
  threads; on `conninfra_cored`, where it is not, the invariants fail (section 3). Exact
  counts alone are not inductive: one has to know that an op is in one place only (free queue,
  active queue, thread, caller), that no op is twice in a queue, that once the thread has
  seen zero no caller refers to the op, and that a waiting caller reads back the timeout it
  wrote. `Ownership` is the conjunction; one lemma per action shows that it is kept. Late
  handlers and killed callers are included: the late write of `msg_recycled` touches only
  `result` and `done`, on which ownership does not depend.
* `PutAlwaysFindsRoom`, under `Uniform`: whoever puts an op holds it, so it is in neither
  queue; a queue has no op twice, so at most `QSize - 1` are in it. The proof is about
  cardinalities: a sequence without repetition is an injection into the set of ops.
* `NoOpEverLost`, under `Uniform` and `Killable = {}` (a killed caller does lose its op: the
  model has the action). An op that is in no queue and with no one has a count of zero, and
  the step that brings the count to zero is the step that starts to free it.
* `DeliveryHolds` and `ResultsAreOwn`, under `Uniform` and `Timely`: handlers end before the
  caller's timeout, without which `msg_recycled` refutes them. `Delivery` follows a result:
  the request stays in the op until its caller lets go; while the thread answers, after it has
  given up its reference, the caller of that op still waits; a raised completion means that
  the result is there and the thread is through with the op; the return value is the result.
* `ThreadSurvives`, under the same two conditions: the thread never raises a completion that was
  only zeroed. It follows from `Delivery`: while the thread answers, the completion is the one
  that the waiting caller has initialised.
* `RefinesService`, under the same two conditions: with the mapping of `MsgRefinement`, every
  step is a step of `MsgService` or changes nothing there. The request is executed when the
  thread has its handler's result, and the caller answered when it returns. The fairness part
  of the refinement is left to TLC (`msg_timely`).

### Core

* `CoreTypeHolds`: types of everything but `rst_state`; `CoreTypeCorrect`: all of `TypeOK`.
* `PowerRecordsHold` and `RecordsAlwaysAgree`: `RecordsAgree` speaks only of moments when
  `core_lock` is free, so the invariant adds mutual exclusion and what the records say in the
  middle of each critical section: on while a radio is being switched, in agreement during an
  access, and below the loop index empty during a forced power off. It includes the leaked
  lock: whoever leaks it leaves the records in agreement.
* `OneResetHolds`: the gate's state and the four places where a reset can be (being triggered,
  queued, running, none) exclude each other; `OneReset` is inductive with the types.
* `GateAlwaysHasReset`, under `Killable = {}`: no driver is killed while it triggers (section 3
  has what happens otherwise). Inductive with `OneReset`.
* `ResetRestoresHolds`, and from it `LockAlwaysReleased` and `ResetPowersOn`, under `AutoUp`
  (the shipped configuration) and `NoForcedOff`: no caller asks to switch CONNINFRA itself
  off, which no driver of the tree does once it is up. The argument is that `core_lock` leaks
  only if a forced power off finds conn_infra off, that only the reset forces a power off, and
  that it does so only when conn_infra is on: its record is missing only between the cut and
  the end of the loop that restores it, and that loop works from a copy that has it. Without
  AUTO_UP the theorem is false (`core_leak`).
* `FreshStatusSuffices`: `Spec /\ []FreshStatus => []ChipRecords`. A power off reads the
  status before it takes `core_lock`. In every behaviour in which what it read is still true
  when it gets the lock, the record of conn_infra is the truth about the chip: this read is
  the only thing that can go wrong, and `core_cut` is how it does. `ChipAlwaysFollows` and
  `AccessAlwaysPowered` derive the two properties for two cases in which the status is always
  fresh: nobody asks for a power off (`NoOff`), or no driver triggers resets.
* `CallbackPhasesHold`, and from it `CallbacksKeepToPhase` and the rest of `TypeOK`, for one
  to five driver types (`FewTypes`; the code has five). `rst_state` is a sum of powers of two
  that the driver compares with `(1 << n) - 1`; the invariant says it is the sum of the bits of
  those radios that were asked in this phase and are quiet again, which is the full sum only
  if all are. The bound on the types is what makes that sum a finite expression the provers
  can handle.
* `TriggerKnownHolds`, `PreAlwaysSeesTrigger`: `trg_drv` is written by the driver that has
  closed the gate and not again before the reset has read it. Needs `OneReset`.

### NMBM

For any number of blocks, any data area, any set of bad blocks, any number of failing
operations, requests, retries and pages, and with every outcome of an operation the model has.
But for `TypesHold`, none of the theorems says anything once there is a hole in the pool
(`nmbm_shared`).

* `DriverKeepsLayout`: `Spec => LayoutKept`. `Layout` is the order of the management blocks:
  main table, backup table, `mapping_blocks_ba <= mapping_blocks_top_ba`, replacements,
  signature; and for each of the ten writes and the erase in progress, where it may begin and
  end (`WriteRange`, `EraseRange`). That ranges are part of it is what makes it inductive: a
  rescue moves tables and pool to the place where a write that began three calls earlier
  ended. In every behaviour, power cuts included, no step disturbs the layout but `Attach`,
  which sets it up, and the debugfs files `mark_good` and `repair`: `unmap_block_nmbm` guesses
  where a block was before, and with a bad data block the guess is off and can be the first
  management block.
* `LayoutHolds`, `BlocksNotShared`, `TablesMissTheData`: `Spec /\ OneBoot => []...`, where
  `OneBoot` says that the power is not cut and nobody writes to those two files. The invariant
  is `BootInv`: `Shape` (numbers are numbers), `Placement` (the layout), `Stored` (the stored
  mappings use no block below the pool's top either, which is why a table written while the
  mapping in memory is ahead of the stored one still destroys nothing), and that the tables on
  the chip before attaching use no replacements. A replacement is always the block at the
  pool's top, which no mapping uses; a table is always written below it.
* `DataStaysInPlace`: `Spec /\ OneBoot => []DataKept`. The invariant adds `DataInPlace`: while a
  block is being replaced its data are in the old block up to the copy and in the new one
  from then on (`Where`); a write that is retried finds exactly the pages before it
  (`RequestKept`), because `remap_block_nmbm` copies as many as were acknowledged; a block with
  acknowledged pages is one of the `data_block_count` mapped ones. That no table and no other
  request writes to these blocks is `TablesMissTheData` and `BlocksNotShared`.

* `TypesHold`: `Spec /\ NoUnmaps => []TypeOK`, through any number of power cuts and failing
  operations. The ranges are not inductive as they stand: a block number that is about to be
  incremented has to be known to lie below a limit that is itself a block, a request has to
  be for a mapped block, and a write to have a page left (`StepType`). `NoUnmaps` leaves out
  `mark_good` and `repair`: the block that `unmap_block_nmbm` guesses is below `block_count`
  only if distinct logical blocks have distinct replacements, which a hole in the pool breaks.

The remaining theorems are about behaviours with any number of power cuts, each at any step and
with every outcome for the block that was being worked on. Their condition is `TablesWritten`:
no write of an info table fails, and nobody writes to `mark_good` or `repair`. Erasing a block,
writing the signature, and every operation on data may fail, and so the pool may be used up.

* `AttachFindsMapping`: `Spec /\ TablesWritten => Recovers`.
* `LayoutSurvives`, `SharingAcrossCuts`, `TablesMissAcrossCuts`: `Layout`,
  `NoSharingUnlessHole` and `TablesMissData` without `OneBoot`.

The invariant is `CutInv`: the types, and, unless there is a hole, `Placement` and `Safe`.
`Safe` says what is on the chip at every step, and how it relates to memory:

* there are at most two tables, and they are the ones that the driver knows of, plus the one
  just written (`UseInv`); one is there as soon as a mapping has been stored, unless the only
  one was cut while it was rewritten (`Present`);
* of two tables the count tells the newer one, equal counts mean equal tables, and the newer
  one has all the bad blocks of the older and no replacement above it (`Aged`); no table is
  newer than the instance in this sense (`FitInv`). It is this that keeps an older table from
  failing or, worse, misleading the checks of `nmbm_check_info_table` after a cut;
* a table holds a stored mapping or the one in memory, except one that is being overwritten
  because the other one is newer (`KnownInv`, `Outdated`); between two requests both hold
  the one in memory (`RestInv`); while tables are written, which of them does depends on the
  caller (`WriteInv`);
* with the power off, every table would be loaded from where it is, and the newest one holds
  a stored mapping (`OffInv`).

`PowerCutSafe` shows that a cut takes the running part of `Safe` to `OffInv`, `AttachSafe` that
attaching takes it back: `nmbm_load_info_table` finds all tables that are there, takes the newer
one, and its top of the pool is above every table. `DriverSafe` has the steps in between.

A table write that fails is left out because `nmbm_rescue_main_info_table` leaves the old backup
table where it was. It is then a third table on the chip, the pool may grow over it, and a
later search may take it for the backup. TLC finds nothing wrong with that within the bounds of
`nmbm_cut`, whose failing operations include table writes.

### Model-checked only

All liveness properties (`CallsReturn`, `PoolRecovers`, `PoolRecoversUnlessDead`,
`QueuedIsHandled`, `ResetEnds`, `DriverReturns`) and the fairness part of the refinement, because the provers do not treat
fairness. Of `Nmbm`: `DataKept` behind a power cut; what happens across power cuts when the
write of a table fails; and all its properties behind `mark_good` and `repair`.

## 5. Not modelled

conninfra: register sequences, PMIC and clock programming of the hardware layer (I/O);
logging, the op history ring so far; module unload of the core as a whole; return codes of
power functions (the hardware layer never fails); contents of SPI requests;
`conninfra_core_reg_readable_no_lock` (`conninfra_core.c:791-806`), which reads the hardware
without `core_lock` and without a look at `infra_drv_status` and which nothing in the tree
calls: `AccessPowered` does not cover it.

NMBM: info tables of more than one block, and with them lines 1375-1419 of
`nmbm_rescue_main_info_table`; requests that run at the same time; a request over several
blocks (the loop starts anew for each); version and geometry checks of the signature; OOB
bytes; `mtk_bmt_detach`; the remap ranges of the device tree. The stored block *states* are
modelled, but nothing is claimed of them: `nmbm_mark_tables_clean` also clears the flags of
bad blocks found while the table was being written, so that a stored table may miss one,
although `mtk_bmt_nmbm.c:1521` says the update is repeated "until no new bad block found".
Such a block is marked on the chip, or fails again. Nor is anything claimed of "Device is now
read-only" (1962): `protected` only stops the table updates, while writes and remaps go on.

The other back ends of `mtk_bmt.c`, the modem and fan packages, the upgrade scripts, the WiFi
driver: see PROJECT.json, and the plan.

## 6. Plan

1. Proofs about `Nmbm` across power cuts, continued: `DataKept` (every mapping that a table
   holds has its data, as `DataInPlace` now says of the one in memory), and failing writes of
   tables: `Safe` has to allow the table that `nmbm_rescue_main_info_table` leaves behind.
2. `Nmbm` with two requests at a time: `remap_block_nmbm` is not serialised.
3. `ConninfraCore`: a run for callbacks that are unregistered while they are about to be
   called (`Register` and `SubOopses` are there); what becomes of a power-on request that a reset overtakes;
   SPI requests with the caller's result pointer, composed with `MsgThread`'s timeouts.
4. `Ring`: index arithmetic of `ring.c` at 32 bits against a reference definition.
5. `MmBands`: setting modes and bands of a modem step by step, one step failing.
