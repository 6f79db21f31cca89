-------------------------------- MODULE Nmbm --------------------------------
(***************************************************************************)
(* The NAND bad block management of the MT798x boards (drivers/mtd/nand/   *)
(* mtk_bmt.c with mtk_bmt_nmbm.c).  Logical blocks 0 .. MgmtStart - 1 are  *)
(* mapped to physical blocks.  The blocks from MgmtStart on hold, in this  *)
(* order, the main info table, spare blocks, the backup info table, the    *)
(* pool that replaces failed blocks (used from its top down) and the       *)
(* signature.  An info table holds the block states and the mapping, and   *)
(* a write count that tells the newer of two tables.                       *)
(*                                                                         *)
(* What is on the chip (flash, marks) survives a power cut; ni, the        *)
(* instance in memory, does not.  A step is one operation on the chip, or  *)
(* the computation between two of them; a cut during an operation leaves   *)
(* the block it works on in any of the states it can be in.  Requests of   *)
(* the MTD layer come one at a time.                                       *)
(***************************************************************************)
EXTENDS Integers, FiniteSets

CONSTANTS
    BlockCount,     \* block_count
    MgmtStart,      \* mgmt_start_ba
    Scenarios,      \* chips to start from, with bounds for each (see Scenario)
    Pages,          \* pages of a block
    Retries         \* 10: retries of a request (mtk_bmt.c)

Blocks == 0 .. BlockCount - 1
Logical == 0 .. MgmtStart - 1
Unmapped == -1

ASSUME GeometryAssumption ==
    /\ BlockCount \in Nat /\ MgmtStart \in Nat
    /\ 0 < MgmtStart /\ MgmtStart < BlockCount
ASSUME PagesAssumption == Pages \in Nat /\ Retries \in Nat

(***************************************************************************)
(* bad are the blocks that left the factory bad.  A prepared chip holds a  *)
(* signature and two info tables (the boot loader creates them in          *)
(* production), the other one is empty.  force is the board's device tree  *)
(* property mediatek,bmt-force-create.  The bounds are on the erase and    *)
(* program operations that fail, on power cuts, on requests of the MTD     *)
(* layer and on writes to the debugfs files.                               *)
(***************************************************************************)
Scenario ==
    [bad : SUBSET Blocks, prepared : BOOLEAN, force : BOOLEAN,
     wear : Nat, cuts : Nat, reqs : Nat, debug : Nat]

ASSUME ScenarioAssumption ==
    /\ Scenarios \subseteq Scenario
    /\ \A s \in Scenarios : s.prepared => s.bad \cap Logical = {}

VARIABLES
    flash,      \* what each block holds
    marks,      \* the blocks marked bad in their OOB area
    ni,         \* struct nmbm_instance
    pc,         \* where the driver is
    wr,         \* the range being written or erased, and who asked for it
    req,        \* the request, and who called the table and update functions
    acked,      \* pages of each logical block whose write was acknowledged
    lost,       \* logical blocks whose data are gone: destroyed by the chip, given
                \* up by the user, or dropped by the driver in one of the two ways
                \* that CopyFails and Forgotten describe
    saved,      \* the mappings the chip may hold (one, but for a power cut)
    faults,     \* what the driver has been through: see Faults
    env         \* force_create, and what is left of the bounds

chip == <<flash, marks>>
seen == <<acked, lost, saved, faults>>
vars == <<chip, ni, pc, wr, req, seen, env>>

\* What a block holds.  A torn block is one whose erase or program operation
\* did not end well.
Empty == [kind |-> "empty"]
Torn == [kind |-> "torn"]
Signature == [kind |-> "signature"]
Data(lb, n) == [kind |-> "data", lb |-> lb, pages |-> n]
Mapping == [Logical -> Blocks \cup {Unmapped}]
Table == [kind : {"table"}, count : Nat, bad : SUBSET Blocks, map : Mapping]
Content ==
    {Empty, Torn, Signature} \cup Table
    \cup [kind : {"data"}, lb : Logical, pages : 0 .. Pages]

(***************************************************************************)
(* Fields of ni: bad are the blocks whose block_state is BLOCK_ST_BAD, map *)
(* is block_mapping, main and backup are main_table_ba and backup_table_ba *)
(* (0: none), next and top are mapping_blocks_ba and mapping_blocks_top_ba,*)
(* count is info_table.write_count, size is data_block_count, sig is       *)
(* signature_ba, cache is info_table_cache.  changed tells whether         *)
(* block_state_changed or block_mapping_changed is not 0: the code only    *)
(* ever tests the two together.                                            *)
(***************************************************************************)
NoMap == [lb \in Logical |-> Unmapped]
NoTable == [kind |-> "table", count |-> 0, bad |-> {}, map |-> NoMap]
Fresh ==
    [bad |-> {}, map |-> NoMap, main |-> 0, backup |-> 0, next |-> 0, top |-> 0,
     count |-> 0, changed |-> FALSE, protected |-> FALSE, size |-> 0, sig |-> 0,
     cache |-> NoTable]
Instance ==
    [bad : SUBSET Blocks, map : Mapping, main : Blocks, backup : Blocks,
     next : Blocks, top : Blocks, count : Nat, changed : BOOLEAN,
     protected : BOOLEAN, size : 0 .. MgmtStart, sig : Blocks, cache : Table]

NoReq == [op |-> "none", lb |-> 0, old |-> 0, tries |-> 0, table |-> "none", update |-> "none"]
NoRange == [ba |-> 0, lim |-> 0, from |-> 0, tmp |-> 0, for |-> "none"]

\* "hole": a walk down the pool has skipped a bad block.  "bare": the power
\* was cut while the only info table was rewritten in place.  "stale": a block
\* with a table could neither be erased nor marked; "two stale": once more.
Faults == {"hole", "bare", "stale", "two stale"}

Debugfs == {"mark_bad", "mark_good", "repair"}
Operations == {"read", "flips", "write", "erase", "isbad", "markbad"} \cup Debugfs
Writes == {"rebuild main", "rebuild backup", "rescue front", "rescue next",
           "single main", "single backup", "once backup", "once main", "temporary",
           "main again"}
PCs == {"off", "dead", "idle", "signature", "fill", "request", "map", "copy", "mark",
        "repair", "update", "write", "written", "full", "erase"}

TypeOK ==
    /\ flash \in [Blocks -> Content] /\ marks \subseteq Blocks
    /\ ni \in Instance /\ pc \in PCs
    /\ wr \in [ba : 0 .. BlockCount, lim : Blocks, from : Blocks, tmp : Blocks,
               for : Writes \cup {"none"}]
    /\ req \in [op : Operations \cup {"none"}, lb : Logical, old : Blocks,
                tries : 0 .. Retries, table : {"none", "create", "load", "update"},
                update : {"none", "create", "remap", "no spare", "unmap"}]
    /\ acked \in [Logical -> 0 .. Pages] /\ lost \subseteq Logical
    /\ saved \subseteq Mapping /\ faults \subseteq Faults
    /\ env \in [force : BOOLEAN, wear : Nat, cuts : Nat, reqs : Nat, debug : Nat]

-----------------------------------------------------------------------------
(* Operators on the instance *)

Good(n, b) == b \notin n.bad

\* nmbm_set_block_state(ni, b, BLOCK_ST_BAD)
nmbm_set_bad(n, b) == [n EXCEPT !.bad = @ \cup {b}, !.changed = @ \/ Good(n, b)]

\* nmbm_mark_tables_clean
Clean(n) == [n EXCEPT !.changed = FALSE]

\* nmbm_generate_info_table_cache
nmbm_generate_info_table_cache(n) ==
    LET count == IF n.changed THEN n.count + 1 ELSE n.count
    IN  [n EXCEPT !.count = count,
                  !.cache = [kind |-> "table", count |-> count, bad |-> n.bad, map |-> n.map]]

\* The good blocks that nmbm_block_walk_asc meets from ba on, below limit, and
\* nmbm_block_walk_desc from ba down, above limit.
Ascending(n, ba, limit) == {b \in Blocks : ba <= b /\ b < limit /\ Good(n, b)}
Descending(n, ba, limit) == {b \in Blocks : limit < b /\ b <= ba /\ Good(n, b)}

\* Where a walk ends that skips count good blocks (nowhere: the walk fails).
SkipUp(walk, count) == {b \in walk : Cardinality({c \in walk : c < b}) = count}
SkipDown(walk, count) == {b \in walk : Cardinality({c \in walk : c > b}) = count}

\* info_table_spare_blocks of an info table that fits one block
Spare == 2

\* nmbm_try_reserve_blocks: leave Spare good blocks behind ba, or fewer, with
\* room for a table below top.
nmbm_try_reserve_blocks(n, ba) ==
    LET walk == Ascending(n, ba, n.top - 1)
        most == Cardinality(walk) - 1
    IN  SkipUp(walk, IF most < Spare THEN most ELSE Spare)

\* nmbm_build_mapping_table: the good data blocks, in their order.
InitialMapping(good, map) ==
    \A lb \in Logical :
        IF lb < Cardinality(good)
        THEN map[lb] \in good /\ Cardinality({b \in good : b < map[lb]}) = lb
        ELSE map[lb] = Unmapped

\* The replacement blocks a mapping uses.
Replacements(n) == {n.map[lb] : lb \in {l \in Logical : n.map[l] >= n.next}}

-----------------------------------------------------------------------------
(* Returns to the caller: the request, the update, the table functions *)

\* remap_block_nmbm returned false: the request fails, except that markbad and
\* a read with bitflips go on.  During creation the update follows.
MapFailed(n) ==
    /\ ni' = n
    /\ \/ /\ req.op = "none"
          /\ pc' = "update" /\ req' = [req EXCEPT !.update = "create"]
       \/ /\ req.op # "none"
          /\ pc' = IF req.op = "markbad" THEN "mark" ELSE "idle"
          /\ UNCHANGED req

\* remap_block_nmbm returned true: mtk_bmt_read, _write, _mtd_erase and
\* _block_isbad try again, the others do not.
RemapReturns ==
    LET again == req.op \in {"read", "write", "erase", "isbad"} /\ req.tries < Retries
    IN  /\ pc' = IF again THEN "request"
                 ELSE IF req.op = "markbad" THEN "mark" ELSE "idle"
        /\ req' = IF again THEN [req EXCEPT !.tries = @ + 1] ELSE req

\* nmbm_update_info_table returns to nmbm_create_info_table, remap_block_nmbm,
\* nmbm_map_block or unmap_block_nmbm; the last three ignore the result.
UpdateReturn(n, ok) ==
    /\ saved' = IF ok /\ ~n.protected THEN {n.map} ELSE saved
    /\ \/ /\ req.update = "create"
          /\ ni' = n /\ UNCHANGED req
          /\ pc' = IF ok THEN "idle" ELSE "dead"
       \/ /\ req.update = "remap"
          /\ ni' = n /\ RemapReturns
       \/ /\ req.update = "no spare"
          /\ MapFailed([n EXCEPT !.top = n.next])
       \/ /\ req.update = "unmap"
          /\ ni' = n /\ UNCHANGED req
          /\ pc' = IF req.op = "repair" THEN "repair" ELSE "idle"

\* A function that writes tables returns to nmbm_create_info_table, to
\* nmbm_load_info_table, which may set the chip to read-only, or to the loop of
\* nmbm_update_info_table.
TableReturn(n, ok) ==
    \/ /\ req.table = "create"
       /\ ni' = n /\ UNCHANGED <<req, saved>>
       /\ pc' = IF ok THEN "fill" ELSE "dead"
    \/ /\ req.table = "load"
       /\ ni' = [n EXCEPT !.protected = (n.next = n.top \/ ~ok)]
       /\ pc' = "idle" /\ UNCHANGED <<req, saved>>
    \/ /\ req.table = "update" /\ ok
       /\ ni' = n /\ pc' = "update" /\ UNCHANGED <<req, saved>>
    \/ /\ req.table = "update" /\ ~ok
       /\ UpdateReturn(n, FALSE)

-----------------------------------------------------------------------------
(* Writing one table: nmbm_write_mgmt_range, and nmbm_erase_range.  A      *)
(* block whose erase or program operation fails is marked, if that works,  *)
(* and counts as bad.                                                      *)

\* nmbm_write_info_table is called for a range of blocks.
StartWrite(n, ba, lim, for) ==
    /\ ni' = n /\ pc' = "write"
    /\ wr' = [wr EXCEPT !.ba = ba, !.lim = lim, !.from = ba, !.for = for]

\* The operation on wr.ba fails: an erase may have left the block as it was.
\* Whether the mark could be written is not looked at.
BlockFails ==
    /\ env.wear > 0 /\ env' = [env EXCEPT !.wear = @ - 1]
    /\ \E c \in {Torn, flash[wr.ba]}, m \in {{}, {wr.ba}} :
          /\ flash' = [flash EXCEPT ![wr.ba] = c]
          /\ marks' = marks \cup m
          /\ faults' = faults \cup
                IF m # {} \/ c.kind # "table" THEN {}
                ELSE IF "stale" \in faults THEN {"two stale"} ELSE {"stale"}
    /\ ni' = nmbm_set_bad(ni, wr.ba)
    /\ UNCHANGED <<acked, lost, saved>>

\* A block that is not good, or that is marked but not known to be bad, is
\* passed over.
Skip ==
    /\ wr.ba < wr.lim /\ (wr.ba \in ni.bad \/ wr.ba \in marks)
    /\ ni' = nmbm_set_bad(ni, wr.ba)
    /\ wr' = [wr EXCEPT !.ba = @ + 1]
    /\ UNCHANGED <<chip, pc, req, seen, env>>

Usable == wr.ba < wr.lim /\ wr.ba \notin ni.bad /\ wr.ba \notin marks

WriteSkips == pc = "write" /\ Skip

WriteSucceeds ==
    /\ pc = "write" /\ Usable
    /\ flash' = [flash EXCEPT ![wr.ba] = ni.cache]
    /\ pc' = "written"
    /\ UNCHANGED <<marks, ni, wr, req, seen, env>>

WriteFails ==
    /\ pc = "write" /\ Usable
    /\ BlockFails
    /\ wr' = [wr EXCEPT !.ba = @ + 1]
    /\ UNCHANGED <<pc, req>>

WriteRunsOut ==
    /\ pc = "write" /\ wr.ba >= wr.lim
    /\ pc' = "full"
    /\ UNCHANGED <<chip, ni, wr, req, seen, env>>

EraseSkips == pc = "erase" /\ Skip

EraseSucceeds ==
    /\ pc = "erase" /\ Usable
    /\ flash' = [flash EXCEPT ![wr.ba] = Empty]
    /\ wr' = [wr EXCEPT !.ba = @ + 1]
    /\ UNCHANGED <<marks, ni, pc, req, seen, env>>

EraseFails ==
    /\ pc = "erase" /\ Usable
    /\ BlockFails
    /\ wr' = [wr EXCEPT !.ba = @ + 1]
    /\ UNCHANGED <<pc, req>>

\* The spare blocks between two tables are erased from ba up to lim.
StartErase(n, ba, lim) ==
    /\ ni' = n /\ pc' = "erase"
    /\ wr' = [wr EXCEPT !.ba = ba, !.lim = lim, !.tmp = wr.ba]

Written(for) == pc = "written" /\ wr.for = for
Full(for) == pc = "full" /\ wr.for = for

-----------------------------------------------------------------------------
(* The functions that write tables.  Every step is memory only: it starts  *)
(* the next write or erase, or returns.                                    *)

Memory == UNCHANGED <<chip, acked, lost, faults, env>>

\* What a step that starts a write or an erase leaves alone.
Going == Memory /\ UNCHANGED <<req, saved>>

Return(n, ok) == TableReturn(n, ok) /\ Memory /\ UNCHANGED wr

\* nmbm_rebuild_info_table: main and backup table from scratch.
nmbm_rebuild_info_table(n) ==
    StartWrite([n EXCEPT !.main = 0, !.backup = 0, !.next = n.top],
               MgmtStart, n.top, "rebuild main")

RebuildMainWritten ==
    LET n == Clean([ni EXCEPT !.main = wr.ba, !.next = wr.ba + 1])
        room == nmbm_try_reserve_blocks(n, wr.ba + 1)
    IN  /\ Written("rebuild main")
        /\ \/ room = {} /\ Return(n, TRUE)
           \/ \E b \in room : StartWrite(n, b, n.top, "rebuild backup") /\ Going

RebuildMainFull ==
    Full("rebuild main") /\ Return([ni EXCEPT !.protected = TRUE], FALSE)

RebuildBackupWritten ==
    /\ Written("rebuild backup")
    /\ StartErase([ni EXCEPT !.backup = wr.ba, !.next = wr.ba + 1], ni.main + 1, wr.ba)
    /\ Going

RebuildBackupFull == Full("rebuild backup") /\ Return(ni, TRUE)

\* nmbm_rescue_single_info_table: there is one table, write another, in front
\* of it or else behind it.
nmbm_rescue_single_info_table(n) == StartWrite(n, MgmtStart, n.main, "rescue front")

RescueFrontWritten ==
    /\ Written("rescue front")
    /\ StartErase(Clean([ni EXCEPT !.backup = ni.main, !.main = wr.ba]), wr.ba + 1, ni.main)
    /\ Going

RescueFrontFull ==
    LET room == nmbm_try_reserve_blocks(ni, ni.next)
    IN  /\ Full("rescue front")
        /\ \/ room = {} /\ Return(ni, FALSE)
           \/ \E b \in room : StartWrite(ni, b, ni.top, "rescue next") /\ Going

RescueNextWritten ==
    /\ Written("rescue next")
    /\ StartErase(ni, ni.next, wr.ba)
    /\ Going

\* Mutant of Earlier: write_ba is not decremented.
Again(for) ==
    /\ Full(for) /\ wr.from - 1 >= ni.next
    /\ StartWrite(ni, wr.from, ni.top, for)
    /\ Going

\* A write that ran out is tried again from one block earlier, down to next.
Earlier(for) ==
    /\ Full(for) /\ wr.from - 1 >= ni.next
    /\ StartWrite(ni, wr.from - 1, ni.top, for)
    /\ Going

RescueNextEarlier == Earlier("rescue next")

RescueNextFull ==
    Full("rescue next") /\ wr.from - 1 < ni.next /\ Return(ni, FALSE)

\* The erase of the spare blocks has ended.
EraseEnds ==
    /\ pc = "erase" /\ wr.ba >= wr.lim
    /\ \/ wr.for # "rescue next" /\ Return(ni, TRUE)
       \/ wr.for = "rescue next"
          /\ Return(Clean([ni EXCEPT !.backup = wr.tmp, !.next = wr.tmp + 1]), TRUE)

\* nmbm_update_single_info_table: bring the older of two tables up to date.
nmbm_update_single_info_table(n, main) ==
    IF main THEN StartWrite(n, n.main, n.backup, "single main")
            ELSE StartWrite(n, n.backup, n.top, "single backup")

SingleMainWritten ==
    Written("single main") /\ Return(Clean([ni EXCEPT !.main = wr.ba]), TRUE)

SingleMainFull ==
    /\ Full("single main")
    /\ nmbm_rescue_single_info_table([ni EXCEPT !.main = ni.backup, !.backup = 0])
    /\ Going

SingleBackupWritten ==
    /\ Written("single backup")
    /\ Return(Clean([ni EXCEPT !.backup = wr.ba, !.next = wr.ba + 1]), TRUE)

SingleBackupFull ==
    /\ Full("single backup")
    /\ Return([ni EXCEPT !.next = ni.backup, !.backup = 0], FALSE)

\* nmbm_update_info_table_once: the backup table first, then the main table.
WriteMain(n, lim) ==
    \/ n.main = 0 /\ nmbm_rebuild_info_table(n)
    \/ n.main # 0 /\ StartWrite(n, n.main, lim, "once main")

\* Mutant of nmbm_update_info_table_once: the backup table may use the pool.
UpdateOnceUpToSignature(n) ==
    \/ n.backup = 0 /\ WriteMain(n, n.sig)
    \/ n.backup # 0 /\ StartWrite(n, n.backup, n.sig, "once backup")

nmbm_update_info_table_once(n) ==
    \/ n.backup = 0 /\ WriteMain(n, n.top)
    \/ n.backup # 0 /\ StartWrite(n, n.backup, n.top, "once backup")

OnceBackupWritten ==
    /\ Written("once backup")
    /\ WriteMain(Clean([ni EXCEPT !.backup = wr.ba, !.next = wr.ba + 1]), wr.ba)
    /\ Going

OnceBackupFull ==
    /\ Full("once backup")
    /\ WriteMain([ni EXCEPT !.next = ni.backup, !.backup = 0], ni.top)
    /\ Going

OnceMainWritten ==
    /\ Written("once main")
    /\ Return(Clean([ni EXCEPT !.main = wr.ba,
                               !.next = IF ni.backup = 0 THEN wr.ba + 1 ELSE @]), TRUE)

\* nmbm_rescue_main_info_table, when there is a backup table: a temporary
\* table in the pool, the main table at the start of the management blocks,
\* and the temporary one becomes the backup.
BackupBecomesMain == [ni EXCEPT !.main = ni.backup, !.backup = 0]

OnceMainFull ==
    LET room == nmbm_try_reserve_blocks(ni, ni.next)
    IN  /\ Full("once main")
        /\ \/ ni.backup = 0 /\ nmbm_rebuild_info_table(ni) /\ Going
           \/ ni.backup # 0 /\ room = {} /\ Return(BackupBecomesMain, TRUE)
           \/ /\ ni.backup # 0
              /\ \E b \in room : StartWrite(ni, b, ni.top, "temporary") /\ Going

TemporaryEarlier == Earlier("temporary")

TemporaryFull ==
    Full("temporary") /\ wr.from - 1 < ni.next /\ Return(BackupBecomesMain, TRUE)

TemporaryWritten ==
    /\ Written("temporary")
    /\ ni' = [ni EXCEPT !.next = wr.ba + 1]
    /\ pc' = "write"
    /\ wr' = [ba |-> MgmtStart, lim |-> wr.ba, from |-> MgmtStart, tmp |-> wr.ba,
              for |-> "main again"]
    /\ Going

MainAgainWritten ==
    /\ Written("main again")
    /\ Return(Clean([ni EXCEPT !.main = wr.ba, !.backup = wr.tmp]), TRUE)

MainAgainFull ==
    /\ Full("main again")
    /\ Return(Clean([ni EXCEPT !.main = wr.tmp, !.backup = 0]), TRUE)

\* nmbm_update_info_table: again and again while there is something to write.
UpdateEnds ==
    /\ pc = "update" /\ (ni.protected \/ ~ni.changed)
    /\ UpdateReturn(ni, TRUE)
    /\ Memory /\ UNCHANGED wr

UpdateOnce ==
    /\ pc = "update" /\ ~ni.protected /\ ni.changed
    /\ nmbm_update_info_table_once(nmbm_generate_info_table_cache(ni))
    /\ req' = [req EXCEPT !.table = "update"]
    /\ Memory /\ UNCHANGED saved

-----------------------------------------------------------------------------
(* Mapping a block to a replacement: nmbm_map_block and remap_block_nmbm *)

\* Mutant of MapTo: the top of the pool stays.
MapToKeepingTop(n, lb, pb) == [n EXCEPT !.map[lb] = pb, !.changed = TRUE]

\* The walk from the top of the pool finds pb; top is lowered by one.
MapTo(n, lb, pb) ==
    [n EXCEPT !.map[lb] = pb, !.top = n.top - 1, !.changed = TRUE]

Found(n) == IF n.next = n.top THEN {} ELSE SkipDown(Descending(n, n.top, n.next), 0)

\* No spare block: a pool that looked usable is written off after an update.
MapFails(n) ==
    /\ Found(n) = {}
    /\ \/ n.next = n.top /\ MapFailed(n)
       \/ /\ n.next # n.top
          /\ ni' = n /\ pc' = "update" /\ req' = [req EXCEPT !.update = "no spare"]
    /\ UNCHANGED faults

MapSucceeds(n, lb, pb) ==
    /\ pb \in Found(n)
    /\ ni' = MapTo(n, lb, pb)
    /\ faults' = IF pb # n.top THEN faults \cup {"hole"} ELSE faults
    /\ UNCHANGED req

\* Mutant of Fill: one data block too many.
FillOneMore ==
    /\ pc = "fill" /\ ni.size <= MgmtStart
    /\ \/ MapFails(ni)
       \/ \E pb \in Found(ni) :
             MapSucceeds([ni EXCEPT !.size = @ + 1], ni.size, pb) /\ pc' = "fill"
    /\ UNCHANGED <<chip, wr, acked, lost, saved, env>>

\* The loop of nmbm_create_info_table that replaces the data blocks that were
\* bad from the start, and the update behind it.
Fill ==
    /\ pc = "fill"
    /\ \/ /\ ni.size < MgmtStart
          /\ \/ MapFails(ni)
             \/ \E pb \in Found(ni) :
                   MapSucceeds([ni EXCEPT !.size = @ + 1], ni.size, pb) /\ pc' = "fill"
       \/ /\ ni.size = MgmtStart
          /\ pc' = "update" /\ req' = [req EXCEPT !.update = "create"]
          /\ UNCHANGED <<ni, faults>>
    /\ UNCHANGED <<chip, wr, acked, lost, saved, env>>

\* remap_block_nmbm up to the copy: the old block is bad from now on.
Map ==
    LET n == nmbm_set_bad(ni, req.old)
    IN  /\ pc = "map"
        /\ \/ MapFails(n)
           \/ \E pb \in Found(n) : MapSucceeds(n, req.lb, pb) /\ pc' = "copy"
        /\ UNCHANGED <<chip, wr, acked, lost, saved, env>>

\* bbt_nand_copy of the first n pages of a block.  A copy made because a read
\* failed ends at the page that cannot be read, one of a torn block at once.
Copied(src, n) ==
    IF src.kind = "torn" \/ n = 0 THEN {Empty}
    ELSE IF src.kind # "data" THEN {src}
    ELSE LET most == IF src.pages < n THEN src.pages ELSE n
             some == IF req.op = "read" THEN 0 .. most - 1 ELSE {most}
         IN  {IF p = 0 THEN Empty ELSE Data(src.lb, p) : p \in some}

\* Mutant of CopyLen: a failed write moves no page.
CopyNothing == IF req.op \in {"erase", "write"} THEN 0 ELSE Pages

CopyLen ==
    IF req.op = "erase" THEN 0 ELSE IF req.op = "write" THEN acked[req.lb] ELSE Pages

Updating == pc' = "update" /\ req' = [req EXCEPT !.update = "remap"]

CopySucceeds ==
    /\ pc = "copy"
    /\ \E c \in Copied(flash[req.old], CopyLen) :
          flash' = [flash EXCEPT ![ni.map[req.lb]] = c]
    /\ Updating
    /\ UNCHANGED <<marks, ni, wr, seen, env>>

\* The results of bbt_nand_erase and bbt_nand_copy are not looked at: the block is
\* mapped to a replacement without its data.  The old block may still have them,
\* so it is the driver that drops them.
CopyFails ==
    /\ pc = "copy" /\ env.wear > 0 /\ env' = [env EXCEPT !.wear = @ - 1]
    /\ flash' = [flash EXCEPT ![ni.map[req.lb]] = Torn]
    /\ lost' = IF req.op = "erase" THEN lost ELSE lost \cup {req.lb}
    /\ Updating
    /\ UNCHANGED <<marks, ni, wr, acked, saved, faults>>

-----------------------------------------------------------------------------
(* Requests of the MTD layer: mtk_bmt_read, _write, _mtd_erase,            *)
(* _block_isbad, _block_markbad, and the debugfs files mark_bad, mark_good *)
(* and repair                                                              *)

Page(lb, n) == IF n = 0 THEN Empty ELSE Data(lb, n)

\* A page is written behind the pages written before, since the last erase.
Writable(lb) == acked[lb] < Pages /\ flash[ni.map[lb]] = Page(lb, acked[lb])

\* get_mapping_block_index_nmbm: a request for a block without mapping fails at once.
NewRequest(op, lb, update) ==
    /\ pc = "idle" /\ lb < ni.size /\ ni.map[lb] # Unmapped
    /\ IF op \in Debugfs
       THEN env.debug > 0 /\ env' = [env EXCEPT !.debug = @ - 1]
       ELSE env.reqs > 0 /\ env' = [env EXCEPT !.reqs = @ - 1]
    /\ req' = [NoReq EXCEPT !.op = op, !.lb = lb, !.old = ni.map[lb], !.update = update]

\* From here on an erased block holds nothing that is missed.
Begin(op, lb) ==
    /\ op \in {"read", "write", "erase", "isbad"}
    /\ NewRequest(op, lb, "none") /\ (op = "write" => Writable(lb))
    /\ pc' = "request"
    /\ acked' = IF op = "erase" THEN [acked EXCEPT ![lb] = 0] ELSE acked
    /\ UNCHANGED <<chip, ni, wr, lost, saved, faults>>

BeginMark(op, lb) ==
    /\ op \in {"markbad", "mark_bad"}
    /\ NewRequest(op, lb, "none")
    /\ pc' = "map"
    /\ UNCHANGED <<chip, ni, wr, seen>>

RequestSucceeds ==
    LET lb == req.lb
        pb == ni.map[lb]
    IN  /\ pc = "request" /\ (req.op = "isbad" => pb \notin marks)
        /\ pc' = "idle"
        /\ flash' = IF req.op = "erase" THEN [flash EXCEPT ![pb] = Empty]
                    ELSE IF req.op = "write" /\ flash[pb] = Page(lb, acked[lb])
                    THEN [flash EXCEPT ![pb] = Data(lb, acked[lb] + 1)]
                    ELSE flash
        /\ acked' = IF req.op = "write" THEN [acked EXCEPT ![lb] = @ + 1] ELSE acked
        /\ lost' = IF req.op = "erase" THEN lost \ {lb} ELSE lost
        /\ UNCHANGED <<marks, ni, wr, req, saved, faults, env>>

\* A read that had to correct too many bits has its block remapped.
ReadFindsBitflips ==
    /\ pc = "request" /\ req.op = "read" /\ env.wear > 0
    /\ env' = [env EXCEPT !.wear = @ - 1]
    /\ pc' = "map" /\ req' = [req EXCEPT !.op = "flips", !.old = ni.map[req.lb]]
    /\ UNCHANGED <<chip, ni, wr, seen>>

\* A page that cannot be read is lost with the read.
RequestFails ==
    LET pb == ni.map[req.lb]
    IN  /\ pc = "request" /\ req.op \in {"read", "write", "erase"} /\ env.wear > 0
        /\ env' = [env EXCEPT !.wear = @ - 1]
        /\ \E c \in {flash[pb]} \cup (IF req.op = "erase" THEN {Torn} ELSE {}) :
              flash' = [flash EXCEPT ![pb] = c]
        /\ lost' = IF req.op = "read" THEN lost \cup {req.lb} ELSE lost
        /\ pc' = "map" /\ req' = [req EXCEPT !.old = pb]
        /\ UNCHANGED <<marks, ni, wr, acked, saved, faults>>

BlockIsBad ==
    /\ pc = "request" /\ req.op = "isbad" /\ ni.map[req.lb] \in marks
    /\ pc' = "map" /\ req' = [req EXCEPT !.old = ni.map[req.lb]]
    /\ UNCHANGED <<chip, ni, wr, seen, env>>

\* The last step of mtk_bmt_block_markbad.
MarkBad ==
    /\ pc = "mark"
    /\ marks' \in {marks, marks \cup {req.old}}
    /\ pc' = "idle"
    /\ UNCHANGED <<flash, ni, wr, req, seen, env>>

\* unmap_block_nmbm guesses where the block was before: at its distance from
\* the nearest block below that has not been replaced.
Kept(lb) == {l \in 0 .. lb : ni.map[l] < ni.next}
Nearest(lb) == CHOOSE l \in Kept(lb) : \A k \in Kept(lb) : k <= l

Minimum(S) == CHOOSE x \in S : \A y \in S : x <= y
Maximum(S) == CHOOSE x \in S : \A y \in S : y <= x

unmap_block_nmbm(lb) ==
    LET was == ni.map[Nearest(lb)] + (lb - Nearest(lb))
        n == [ni EXCEPT !.map[lb] = was, !.bad = @ \ {was}, !.changed = TRUE]
    IN  [n EXCEPT !.top = Minimum(Replacements(n) \cup {n.sig}) - 1]

\* The debugfs files mark_good and repair; mark_good leaves the data behind.
BeginUnmap(op, lb) ==
    /\ op \in {"mark_good", "repair"}
    /\ NewRequest(op, lb, "unmap")
    /\ \/ /\ Kept(lb) = {} \/ lb \in Kept(lb)
          /\ pc' = "idle" /\ UNCHANGED <<ni, lost>>
       \/ /\ Kept(lb) # {} /\ lb \notin Kept(lb)
          /\ ni' = unmap_block_nmbm(lb)
          /\ pc' = "update"
          /\ lost' = IF op = "mark_good" THEN lost \cup {lb} ELSE lost
    /\ UNCHANGED <<chip, wr, acked, saved, faults>>

\* mtk_bmt_debug_repair: the mapping is stored, now the data follow.
Repair ==
    LET new == ni.map[req.lb]
    IN  /\ pc = "repair"
        /\ \E c \in Copied(flash[req.old], Pages) :
              flash' = IF new = req.old THEN flash ELSE [flash EXCEPT ![new] = c]
        /\ pc' = "idle"
        /\ UNCHANGED <<marks, ni, wr, req, seen, env>>

RepairFails ==
    LET new == ni.map[req.lb]
    IN  /\ pc = "repair" /\ new # req.old
        /\ env.wear > 0 /\ env' = [env EXCEPT !.wear = @ - 1]
        /\ flash' = [flash EXCEPT ![new] = Torn]
        /\ lost' = lost \cup {req.lb}
        /\ pc' = "idle"
        /\ UNCHANGED <<marks, ni, wr, req, acked, saved, faults>>

-----------------------------------------------------------------------------
(* Attaching to a chip: nmbm_attach, nmbm_create_new, nmbm_load_existing *)

\* nmbm_scan_badblocks and nmbm_build_mapping_table
WithInitialMapping(n, map) ==
    LET bad == n.bad \cup marks
        good == {b \in Logical : b \notin bad}
    IN  [n EXCEPT !.bad = bad, !.changed = @ \/ bad # n.bad, !.map = map,
                  !.size = Cardinality(good)]

\* nmbm_create_info_table up to its first write: the top of the pool is the
\* second good block from the signature down.
nmbm_create_info_table(n) ==
    LET tops == SkipDown(Descending(n, n.sig, MgmtStart), 1)
    IN  /\ req' = [NoReq EXCEPT !.table = "create"]
        /\ \/ tops = {} /\ ni' = n /\ pc' = "dead" /\ UNCHANGED wr
           \/ \E t \in tops :
                 nmbm_rebuild_info_table(nmbm_generate_info_table_cache([n EXCEPT !.top = t]))

\* nmbm_create_new on a chip without signature.
CreateNew(map) ==
    LET n == WithInitialMapping(Fresh, map)
    IN  /\ InitialMapping({b \in Logical : b \notin n.bad}, map)
        /\ ni' = n /\ pc' = "signature" /\ req' = NoReq
        /\ wr' = [NoRange EXCEPT !.ba = BlockCount - 1]

\* nmbm_write_signature: the highest block that can be written.
SignatureSucceeds ==
    /\ pc = "signature" /\ wr.ba > MgmtStart /\ wr.ba \notin ni.bad
    /\ flash' = [flash EXCEPT ![wr.ba] = Signature]
    /\ nmbm_create_info_table([ni EXCEPT !.sig = wr.ba])
    /\ UNCHANGED <<marks, seen, env>>

SignatureFails ==
    /\ pc = "signature" /\ wr.ba > MgmtStart
    /\ \/ wr.ba \in ni.bad /\ UNCHANGED <<chip, ni, seen, env>>
       \/ wr.ba \notin ni.bad /\ BlockFails
    /\ wr' = [wr EXCEPT !.ba = @ - 1]
    /\ UNCHANGED <<pc, req>>

SignatureRunsOut ==
    /\ pc = "signature" /\ wr.ba <= MgmtStart
    /\ pc' = "dead"
    /\ UNCHANGED <<chip, ni, wr, req, seen, env>>

\* nmbm_find_signature looks from the last block down.
Signatures == {b \in Blocks : flash[b] = Signature /\ b \notin marks}

\* nmbm_check_info_table of a table in block b: the mapping uses neither the
\* blocks up to b nor the signature, and the table does not call b bad.
nmbm_check_info_table(t, b, sig) ==
    /\ \A lb \in Logical : ~(MgmtStart <= t.map[lb] /\ t.map[lb] <= b) /\ t.map[lb] # sig
    /\ b \notin t.bad

\* nmbm_search_info_table: the blocks from ba on where a table can be loaded.
Loadable(ba, bad, sig) ==
    {b \in Blocks : /\ ba <= b /\ b < sig - 1 /\ b \notin bad /\ b \notin marks
                    /\ flash[b] \in Table /\ nmbm_check_info_table(flash[b], b, sig)}

\* The blocks the search meets before end and takes for bad: marked ones, and
\* the torn ones among ecc, whose pages cannot be read.
FoundBad(ba, end, ecc) == {b \in Blocks : ba <= b /\ b < end /\ (b \in marks \/ b \in ecc)}

TornBlocks == {b \in Blocks : flash[b] = Torn}

\* The mapping_blocks_top_ba that nmbm_check_info_table returns.
TopOf(t, b, sig) == Minimum({t.map[lb] : lb \in {l \in Logical : t.map[l] > b}} \cup {sig}) - 1

LastMapped(map) == {l \in Logical : map[l] # Unmapped}

\* Mutant of Loaded: the table with the lower write count wins.
LoadedOlder(m, s, ecc, sig) ==
    LET first == flash[m]
        second == flash[s]
        newer == s # 0 /\ second.count < first.count
        before == FoundBad(MgmtStart, m, ecc)
        between == FoundBad(m + 1, IF s = 0 THEN sig - 1 ELSE s, ecc) \ first.bad
        t == IF newer THEN second ELSE first
    IN  nmbm_generate_info_table_cache(
          [Fresh EXCEPT
            !.bad = IF newer THEN t.bad ELSE t.bad \cup between,
            !.map = t.map, !.count = t.count,
            !.changed = (before \cup between # {}),
            !.main = m, !.backup = s, !.sig = sig,
            !.top = TopOf(t, IF newer THEN s ELSE m, sig),
            !.next = (IF s = 0 THEN m ELSE s) + 1,
            !.size = IF LastMapped(t.map) = {} THEN MgmtStart
                     ELSE Maximum(LastMapped(t.map)) + 1])

\* nmbm_load_info_table, with what it found: the first table in block m, the
\* second one, if there is one, in block s (0: none).
Loaded(m, s, ecc, sig) ==
    LET first == flash[m]
        second == flash[s]
        newer == s # 0 /\ second.count > first.count
        before == FoundBad(MgmtStart, m, ecc)
        between == FoundBad(m + 1, IF s = 0 THEN sig - 1 ELSE s, ecc) \ first.bad
        t == IF newer THEN second ELSE first
    IN  nmbm_generate_info_table_cache(
          [Fresh EXCEPT
            !.bad = IF newer THEN t.bad ELSE t.bad \cup between,
            !.map = t.map, !.count = t.count,
            !.changed = (before \cup between # {}),
            !.main = m, !.backup = s, !.sig = sig,
            !.top = TopOf(t, IF newer THEN s ELSE m, sig),
            !.next = (IF s = 0 THEN m ELSE s) + 1,
            !.size = IF LastMapped(t.map) = {} THEN MgmtStart
                     ELSE Maximum(LastMapped(t.map)) + 1])

\* One table: write another.  Two of different age: update the older.
LoadTables(ecc, sig) ==
    LET mains == Loadable(MgmtStart, {}, sig)
        m == Minimum(mains)
        backups == Loadable(m + 1, flash[m].bad \cup ecc, sig)
        s == IF backups = {} THEN 0 ELSE Minimum(backups)
        n == Loaded(m, s, ecc, sig)
        older == s # 0 /\ flash[m].count < flash[s].count
        same == s # 0 /\ flash[m].count = flash[s].count
    IN  /\ mains # {}
        /\ req' = [NoReq EXCEPT !.table = "load"] /\ saved' = {n.map}
        /\ \/ s = 0 /\ nmbm_rescue_single_info_table(n)
           \/ /\ s # 0 /\ ~same
              /\ nmbm_update_single_info_table([n EXCEPT !.changed = TRUE], older)
           \/ /\ same
              /\ ni' = [n EXCEPT !.protected = (n.next = n.top)]
              /\ pc' = "idle" /\ UNCHANGED wr

\* nmbm_load_existing when no table was found.
CreateTables(ecc, sig, map) ==
    LET n == WithInitialMapping(
                [Fresh EXCEPT !.bad = FoundBad(MgmtStart, sig - 1, ecc), !.sig = sig,
                              !.changed = FoundBad(MgmtStart, sig - 1, ecc) # {}], map)
    IN  /\ Loadable(MgmtStart, {}, sig) = {} /\ env.force
        /\ InitialMapping({b \in Logical : b \notin n.bad}, map)
        /\ nmbm_create_info_table(n)
        /\ saved' = {}

Unusable ==
    /\ ~env.force
    /\ Signatures # {} => Loadable(MgmtStart, {}, Maximum(Signatures)) = {}
    /\ pc' = "dead" /\ UNCHANGED <<ni, wr, req, saved>>

Attach ==
    /\ pc = "off"
    /\ \/ Unusable
       \/ /\ Signatures = {} /\ env.force
          /\ \E map \in Mapping : CreateNew(map) /\ UNCHANGED saved
       \/ /\ Signatures # {}
          /\ \E ecc \in SUBSET TornBlocks :
                \/ LoadTables(ecc, Maximum(Signatures))
                \/ \E map \in Mapping : CreateTables(ecc, Maximum(Signatures), map)
    /\ UNCHANGED <<chip, acked, lost, faults, env>>

-----------------------------------------------------------------------------
(* Power cuts *)

\* The block an operation is under way on, and what a cut can leave in it.
Target ==
    IF pc \in {"write", "erase"} THEN {b \in {wr.ba} : Usable}
    ELSE IF pc = "signature" THEN {b \in {wr.ba} : b > MgmtStart /\ b \notin ni.bad}
    ELSE IF pc \in {"copy", "repair"} \/ (pc = "request" /\ req.op \in {"write", "erase"})
    THEN {ni.map[req.lb]}
    ELSE {}

Remains(b) ==
    {flash[b]} \cup
    IF pc = "request" /\ req.op = "write" THEN {Page(req.lb, acked[req.lb] + 1)}
    ELSE IF pc \in {"copy", "repair"}
    THEN {Empty, Torn} \cup Copied(flash[req.old], CopyLen)
    ELSE {Empty, Torn} \cup (IF pc = "write" THEN {ni.cache} ELSE {})
         \cup (IF pc = "signature" THEN {Signature} ELSE {})

\* A mapping that the driver changed while protected, and never stored, goes
\* with the power, and with it what was written through it; so do data the repair
\* file was about to copy.
Forgotten ==
    {lb \in Logical : ni.protected /\ \E m \in saved : ni.map[lb] # m[lb]}
    \cup (IF pc = "repair" \/ (pc # "idle" /\ req.op = "repair") THEN {req.lb} ELSE {})

\* Nothing but the table being written says what is mapped where.
OneTableRewritten ==
    /\ pc \in {"write", "full"}
    /\ wr.for = "rebuild main" \/ (wr.for = "once main" /\ ni.backup = 0)

PowerCut ==
    /\ pc # "off" /\ env.cuts > 0 /\ env' = [env EXCEPT !.cuts = @ - 1]
    /\ \/ Target = {} /\ UNCHANGED flash
       \/ \E b \in Target : \E c \in Remains(b) : flash' = [flash EXCEPT ![b] = c]
    /\ lost' = lost \cup Forgotten
    /\ saved' = IF ni.protected \/ saved = {} THEN saved ELSE saved \cup {ni.map}
    /\ faults' = IF OneTableRewritten THEN faults \cup {"bare"} ELSE faults
    /\ ni' = Fresh /\ pc' = "off" /\ wr' = NoRange /\ req' = NoReq
    /\ UNCHANGED <<marks, acked>>

-----------------------------------------------------------------------------

\* A chip as nmbm_create_new leaves it when no operation fails and all data
\* blocks are good.
Prepared(bad) ==
    LET n == [Fresh EXCEPT !.bad = bad]
        sig == Maximum({b \in Blocks : Good(n, b)})
        table == [kind |-> "table", count |-> IF bad = {} THEN 0 ELSE 1, bad |-> bad,
                  map |-> [lb \in Logical |-> lb]]
    IN  \E top \in SkipDown(Descending(n, sig, MgmtStart), 1) :
        \E main \in SkipUp(Ascending(n, MgmtStart, top), 0) :
        \E backup \in nmbm_try_reserve_blocks([n EXCEPT !.top = top], main + 1) :
           flash = [b \in Blocks |-> IF b = sig THEN Signature
                                     ELSE IF b \in {main, backup} THEN table ELSE Empty]

Init ==
    \E s \in Scenarios :
        /\ \/ s.prepared /\ Prepared(s.bad)
           \/ ~s.prepared /\ flash = [b \in Blocks |-> Empty]
        /\ marks = s.bad
        /\ env = [force |-> s.force, wear |-> s.wear, cuts |-> s.cuts, reqs |-> s.reqs,
                  debug |-> s.debug]
        /\ saved = IF s.prepared THEN {[lb \in Logical |-> lb]} ELSE {}
        /\ ni = Fresh /\ pc = "off" /\ wr = NoRange /\ req = NoReq
        /\ acked = [lb \in Logical |-> 0] /\ lost = {} /\ faults = {}

TableSteps ==
    \/ RebuildMainWritten \/ RebuildMainFull \/ RebuildBackupWritten \/ RebuildBackupFull
    \/ RescueFrontWritten \/ RescueFrontFull
    \/ RescueNextWritten \/ RescueNextEarlier \/ RescueNextFull
    \/ SingleMainWritten \/ SingleMainFull \/ SingleBackupWritten \/ SingleBackupFull
    \/ OnceBackupWritten \/ OnceBackupFull \/ OnceMainWritten \/ OnceMainFull
    \/ TemporaryEarlier \/ TemporaryFull \/ TemporaryWritten
    \/ MainAgainWritten \/ MainAgainFull
    \/ EraseEnds \/ UpdateEnds \/ UpdateOnce

ChipSteps ==
    \/ WriteSkips \/ WriteSucceeds \/ WriteFails \/ WriteRunsOut
    \/ EraseSkips \/ EraseSucceeds \/ EraseFails
    \/ SignatureSucceeds \/ SignatureFails \/ SignatureRunsOut
    \/ CopySucceeds \/ CopyFails \/ Repair \/ RepairFails \/ MarkBad
    \/ RequestSucceeds \/ ReadFindsBitflips \/ RequestFails \/ BlockIsBad

Driver == TableSteps \/ ChipSteps \/ Fill \/ Map

Requests ==
    \E op \in Operations, lb \in Logical :
        Begin(op, lb) \/ BeginMark(op, lb) \/ BeginUnmap(op, lb)

Next == Attach \/ Driver \/ Requests \/ PowerCut

Spec == Init /\ [][Next]_vars

\* A thread that has entered the driver runs on.
FairSpec == Spec /\ WF_vars(Driver)

-----------------------------------------------------------------------------
(* Properties *)

\* nmbm_map_block, "Map a bad block to a unused spare block": no two logical
\* blocks share a physical one.
NoSharing ==
    \A k, l \in Logical : k # l /\ ni.map[k] # Unmapped => ni.map[k] # ni.map[l]
NoSharingUnlessHole == "hole" \in faults \/ NoSharing

\* The blocks that the table functions write or erase hold no data, neither by
\* the mapping in memory nor by one that a power cut would leave, and not the
\* signature.
TablesMissData ==
    pc \in {"write", "erase"} /\ Usable /\ "hole" \notin faults =>
        /\ \A lb \in Logical : wr.ba # ni.map[lb] /\ \A m \in saved : wr.ba # m[lb]
        /\ wr.ba # ni.sig

(***************************************************************************)
(* The layout behind NoSharingUnlessHole and TablesMissData, from attaching *)
(* to the next power cut.  From MgmtStart on there are the main table, the  *)
(* backup table, the free blocks next .. top, the replacements in use and   *)
(* the signature.                                                           *)
(***************************************************************************)
TablesBelowPool(n) ==
    /\ MgmtStart <= n.next /\ n.next <= n.top /\ n.top < n.sig
    /\ n.main = 0 \/ (MgmtStart <= n.main /\ n.main < n.next)
    /\ n.backup = 0 \/ (MgmtStart <= n.backup /\ n.main < n.backup /\ n.backup < n.next)

\* A mapping uses data blocks, and replacements above the block top.
OwnPlace(map) == \A lb \in Logical : map[lb] \in Logical \cup {Unmapped}
Above(map, top) == \A lb \in Logical : map[lb] \in Logical \cup {Unmapped} \/ top < map[lb]

\* Where each write begins and ends.
WriteRange(n, w) ==
    /\ MgmtStart <= w.ba /\ w.for # "none"
    /\ w.for = "rebuild main" => n.main = 0 /\ n.backup = 0 /\ w.lim = n.top
    /\ w.for = "rebuild backup" =>
          n.main # 0 /\ n.main < w.ba /\ n.backup = 0 /\ w.lim = n.top
    /\ w.for = "rescue front" => n.main # 0 /\ w.lim = n.main
    /\ w.for \in {"rescue next", "temporary"} =>
          n.next <= w.ba /\ n.next <= w.from /\ w.lim = n.top
    /\ w.for = "single main" => n.backup # 0 /\ w.lim = n.backup
    /\ w.for \in {"single backup", "once backup"} =>
          n.backup # 0 /\ n.backup <= w.ba /\ w.lim = n.top
    /\ w.for = "once main" => w.lim = IF n.backup = 0 THEN n.top ELSE n.backup
    /\ w.for = "main again" =>
          MgmtStart <= w.tmp /\ w.lim = w.tmp /\ n.next = w.tmp + 1

EraseRange(n, w) ==
    /\ MgmtStart <= w.ba /\ w.lim <= n.top
    /\ w.for = "rescue next" => n.next <= w.tmp /\ w.tmp < n.top

Placement ==
    /\ NoSharing
    /\ pc = "signature" => OwnPlace(ni.map)
    /\ pc \notin {"off", "dead", "signature"} =>
          TablesBelowPool(ni) /\ Above(ni.map, ni.top)
    /\ pc \in {"write", "written", "full"} => WriteRange(ni, wr)
    /\ pc = "written" => wr.ba < wr.lim
    /\ pc = "erase" => EraseRange(ni, wr)

Layout == "hole" \in faults \/ Placement

\* What no table survives, or no data.
Spoiled == {"hole", "bare", "two stale"} \cap faults # {}

\* Attaching finds the mapping that was stored, or the one that was being
\* stored when the power went, and nothing older.
Recovers ==
    [][pc = "off" /\ saved # {} /\ pc' # "off" =>
          \/ Spoiled
          \/ pc' # "dead" /\ ni'.map \in saved]_vars

\* Acknowledged pages are where the mapping says (mtk_bmt.c:174-226,
\* mtk_bmt_nmbm.c:2215-2234), through retries and power cuts.  Blocks in lost are
\* left out, those included that an ignored copy error (2228-2231) or a remap
\* while protected (1962) has cost: of these two it only says that no other block
\* is harmed.
DataKept ==
    pc = "idle" /\ ~Spoiled =>
        \A lb \in Logical : lb < ni.size /\ lb \notin lost /\ acked[lb] > 0 =>
            LET c == flash[ni.map[lb]]
            IN  c.kind = "data" /\ c.lb = lb /\ c.pages >= acked[lb]

\* Every request and every attach ends.
DriverReturns == (pc \notin {"idle", "off", "dead"}) ~> (pc \in {"idle", "off", "dead"})
=============================================================================
