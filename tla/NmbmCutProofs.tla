---------------------------- MODULE NmbmCutProofs ----------------------------
(***************************************************************************)
(* Proofs about Nmbm, continued: any number of power cuts.  A table that   *)
(* is being written may be torn, and the next attach has to do with what   *)
(* is left on the chip.                                                    *)
(***************************************************************************)
EXTENDS NmbmProofs

\* The tables on the chip, and the signature that attaching finds.
Tables == {b \in Blocks : flash[b] \in Table}
IsSig(x) == x \in Signatures /\ \A y \in Signatures : y <= x

\* A block that has been replaced is replaced by one further down.
Lower(new, old) ==
    \A lb \in Logical : \/ old[lb] \in Logical \cup {Unmapped}
                        \/ MgmtStart <= new[lb] /\ new[lb] <= old[lb]

\* Of two tables the count tells the newer one.
Aged ==
    \A a, b \in Tables :
        /\ flash[a].count = flash[b].count => flash[a] = flash[b]
        /\ flash[a].count < flash[b].count =>
              flash[a].bad \subseteq flash[b].bad /\ Lower(flash[b].map, flash[a].map)

\* There is a table once a mapping has been stored, and a signature with it.
Present ==
    /\ saved # {} /\ "bare" \notin faults => Tables # {}
    /\ Tables # {} \/ saved # {} => Signatures # {}

\* While the power is off every table can be loaded, and the newest holds a mapping
\* that was stored.
Sound(b) ==
    /\ MgmtStart <= b /\ b \notin marks /\ Distinct(flash[b].map)
    /\ \A x : IsSig(x) => b < x - 1 /\ \A lb \in Logical : flash[b].map[lb] < x
    /\ \A c \in Tables :
          /\ b \notin flash[c].bad
          /\ \A lb \in Logical : \/ flash[c].map[lb] \in Logical \cup {Unmapped}
                                 \/ b + 1 < flash[c].map[lb]
Newest(b) == b \in Tables /\ \A c \in Tables : flash[c].count <= flash[b].count
OffInv ==
    pc = "off" =>
        /\ \A b \in Tables : Sound(b)
        /\ \A a, b, c \in Tables : a = b \/ b = c \/ a = c
        /\ \A b : Newest(b) => saved = {} \/ flash[b].map \in saved

\* A chip without table, and a new one.
DeadInv ==
    /\ pc \in {"dead", "signature"} => Tables = {}
    /\ pc = "signature" =>
          Signatures = {} /\ saved = {} /\ marks \subseteq ni.bad /\ ~ni.protected

Running == pc \notin {"off", "dead", "signature"}
Writing == pc \in {"write", "written", "full"}

\* The tables the driver knows of.
InUse ==
    ({ni.main, ni.backup} \ {0})
    \cup (IF pc = "written" THEN {wr.ba} ELSE {})
    \cup (IF pc = "erase" /\ wr.for = "rescue next" THEN {wr.tmp} ELSE {})

\* A table is not newer than the instance.
Fit(t, n) ==
    /\ t.bad \subseteq n.bad /\ t.count <= n.count
    /\ Distinct(t.map) /\ Above(t.map, n.top) /\ Lower(n.map, t.map)
    /\ \A lb \in Logical : t.map[lb] < n.sig

FitInv ==
    Running => /\ IsSig(ni.sig)
               /\ \A lb \in Logical : ni.map[lb] < ni.sig
               /\ \A b \in Tables : b \notin marks /\ b \notin ni.bad /\ Fit(flash[b], ni)
               /\ \A m \in saved : Above(m, ni.top)
               /\ req.op # "none" =>
                     req.old \in Logical \/ (ni.top < req.old /\ req.old < ni.sig)
               /\ pc # "repair" /\ req.update # "unmap"

UseInv ==
    Running => /\ Tables = InUse
               /\ (ni.main = 0) <=> (Writing /\ wr.for = "rebuild main")
               /\ ni.main = 0 => ni.backup = 0

\* The tables hold the mapping in memory, or one that was stored; the exception is a
\* table that is being replaced because the other one is newer.
Current == \A b \in Tables : flash[b].map = ni.map
Known(b) ==
    saved = {} \/ flash[b].map \in saved \/ (~ni.protected /\ flash[b].map = ni.map)
Outdated(b) ==
    /\ pc = "write"
    /\ \/ wr.for = "single main" /\ b = ni.main /\ flash[b].count < flash[ni.backup].count
       \/ wr.for = "single backup" /\ b = ni.backup /\ flash[b].count < flash[ni.main].count
KnownInv == Running => \A b \in Tables : Known(b) \/ Outdated(b)

\* When they hold the one in memory: between two requests, and wherever nothing is left
\* to be written.
RestInv ==
    /\ pc \in {"idle", "request", "map", "mark"} => ni.protected \/ Current
    /\ pc \in {"update", "fill", "copy"} => ni.protected \/ ni.changed \/ Current
    /\ pc \in {"idle", "request", "map", "mark", "fill"} =>
          saved = {} \/ \A b \in Tables : flash[b].map \in saved
    /\ pc = "fill" => req.op = "none"

\* Which table is written for whom, and what the others hold.
CallInv ==
    /\ wr.for \in {"rebuild main", "rebuild backup"} =>
          req.table = "create" /\ req.op = "none" /\ saved = {}
    /\ wr.for \in {"rescue front", "rescue next", "single main", "single backup"} =>
          req.table = "load" /\ saved = {ni.map}
    /\ wr.for \in {"once main", "once backup"} => req.table = "update"
PlaceInv ==
    /\ wr.for \notin {"none", "temporary", "main again"}
    /\ pc = "full" =>
          wr.for \in {"rebuild main", "rebuild backup", "rescue front", "rescue next"}
    /\ wr.for \in {"single main", "once main"} => wr.ba = ni.main
    /\ wr.for \in {"single backup", "once backup"} => wr.ba = ni.backup /\ wr.ba # 0
    /\ wr.for \in {"rebuild backup", "rescue front", "rescue next"} => ni.backup = 0
CacheInv ==
    /\ ni.cache.map = ni.map /\ ni.cache.count = ni.count /\ ni.cache.bad \subseteq ni.bad
    /\ pc = "written" => flash[wr.ba] = ni.cache
    /\ \A b \in Tables : /\ flash[b].bad \subseteq ni.cache.bad
                         /\ flash[b].count = ni.cache.count => flash[b] = ni.cache
    /\ \A b \in Tables : \/ flash[b].map = ni.map
                         \/ wr.for \in {"single main", "single backup"} /\ b = wr.ba
                         \/ wr.for = "once main" /\ b = ni.main
                         \/ wr.for = "once backup"
WriteInv == Writing => ~ni.protected /\ CallInv /\ PlaceInv /\ CacheInv
EraseInv ==
    pc = "erase" =>
        /\ ~ni.protected /\ CallInv /\ Current
        /\ \A b \in Tables : b < wr.ba \/ wr.lim <= b
        /\ wr.for \in {"rebuild backup", "rescue front", "rescue next"}
        /\ wr.for = "rescue next" => ni.backup = 0

Safe ==
    /\ Aged /\ Present /\ OffInv /\ DeadInv /\ FitInv /\ UseInv /\ KnownInv
    /\ RestInv /\ WriteInv /\ EraseInv

\* The tables are left as they are.
Same == Tables' = Tables /\ \A b \in Tables : flash'[b] = flash[b]

\* Another block is written.
LEMMA OtherBlock ==
    ASSUME TypeInv, NEW b, b \notin Tables, NEW c, c \notin Table,
           flash' = [flash EXCEPT ![b] = c]
    PROVE  Same
  <1>1. flash \in [Blocks -> Content]
    BY DEF TypeInv, ChipType
  <1>2. \A x \in Blocks : x # b => flash'[x] = flash[x]
    BY <1>1
  <1>3. b \in Blocks => flash'[b] = c
    BY <1>1
  <1> QED
    BY <1>2, <1>3 DEF Same, Tables

\* No block is written.
LEMMA NoBlock ==
    ASSUME flash' = flash
    PROVE  Same
  BY DEF Same, Tables

\* The signature stays the last one.
LEMMA SignatureStays ==
    ASSUME TypeInv, NEW s \in Blocks, IsSig(s), NEW b \in Blocks, b < s, NEW c,
           flash' = [flash EXCEPT ![b] = c], marks \subseteq marks', s \notin marks'
    PROVE  s \in Signatures' /\ \A y \in Signatures' : y <= s
  <1>1. flash \in [Blocks -> Content]
    BY DEF TypeInv, ChipType
  <1>2. s \in Int /\ b \in Int
    BY BlockNumbers
  <1>3. flash'[s] = flash[s]
    BY <1>1, <1>2
  <1>4. s \in Signatures'
    BY <1>3 DEF IsSig, Signatures
  <1>5. ASSUME NEW y \in Signatures' PROVE y <= s
    <2>1. CASE y = b
      BY <1>2, <2>1
    <2>2. CASE y # b
      <3>1. y \in Signatures
        BY <1>1, <1>5, <2>2 DEF Signatures
      <3> QED
        BY <3>1 DEF IsSig
    <2> QED
      BY <2>1, <2>2
  <1> QED
    BY <1>4, <1>5

\* What is said of the tables alone.
LEMMA AgedSame ==
    ASSUME Aged, Same
    PROVE  Aged'
  BY DEF Aged, Same

\* There is a table, and a signature.
LEMMA PresentSame ==
    ASSUME Present, Same, "bare" \in faults => "bare" \in faults', Signatures' # {},
           saved' # {} => saved # {} \/ Tables # {}
    PROVE  Present'
  BY DEF Present, Same

\* Where the tables are while the driver runs.
LEMMA TablePlaces ==
    ASSUME Shape, Placement, Safe, Running, NEW b \in Tables
    PROVE  /\ b \in Int /\ MgmtStart <= b /\ b < ni.top /\ b < ni.sig - 1
           /\ pc \in Resting => b < ni.next
  <1>0. b \in InUse /\ b \in Int
    BY BlockNumbers DEF Safe, UseInv, Tables
  <1>1. TablesBelowPool(ni)
    BY DEF Running, Placement
  <1>2. /\ ni.main \in Int /\ ni.backup \in Int /\ ni.next \in Int /\ ni.top \in Int
        /\ ni.sig \in Int /\ wr.ba \in Int /\ wr.lim \in Int /\ wr.tmp \in Int /\ MgmtStart \in Int
    BY ShapeFields
  <1>3. CASE b \in {ni.main, ni.backup} /\ b # 0
    BY <1>1, <1>2, <1>3 DEF TablesBelowPool
  <1>4. CASE pc = "written" /\ b = wr.ba
    <2>1. WriteRange(ni, wr) /\ wr.ba < wr.lim
      BY <1>4, WhileWriting
    <2>2. wr.for \in Writes /\ wr.for \notin {"temporary", "main again"} /\ MgmtStart <= wr.ba
      BY <1>4, <2>1, ShapeFields DEF Safe, WriteInv, Writing, PlaceInv, WriteRange, Extent
    <2>3. \/ wr.lim = ni.top
          \/ ni.main # 0 /\ wr.lim = ni.main
          \/ ni.backup # 0 /\ wr.lim = ni.backup
      BY <2>1, <2>2 DEF WriteRange, Writes
    <2>4. wr.lim <= ni.top
      BY <1>1, <1>2, <2>3 DEF TablesBelowPool
    <2>5. ni.top < ni.sig
      BY <1>1 DEF TablesBelowPool
    <2>6. pc \notin Resting
      BY <1>4 DEF Resting
    <2>7. MgmtStart <= wr.ba /\ wr.ba < ni.top /\ wr.ba < ni.sig - 1
      <3>1. MgmtStart <= wr.ba /\ wr.ba < wr.lim
        BY <2>1, <2>2
      <3> QED
        BY <1>2, <2>4, <2>5, <3>1
    <2> QED
      BY <1>0, <1>4, <2>6, <2>7
  <1>5. CASE pc = "erase" /\ wr.for = "rescue next" /\ b = wr.tmp
    <2>1. EraseRange(ni, wr)
      BY <1>5, WhileWriting
    <2>2. ni.next <= wr.tmp /\ wr.tmp < ni.top
      BY <1>5, <2>1 DEF EraseRange
    <2>3. pc \notin Resting
      BY <1>5 DEF Resting
    <2>4. MgmtStart <= wr.tmp /\ wr.tmp < ni.sig - 1
      BY <1>1, <1>2, <2>2 DEF TablesBelowPool
    <2> QED
      BY <1>0, <1>5, <2>2, <2>3, <2>4
  <1> QED
    BY <1>0, <1>3, <1>4, <1>5 DEF InUse

\* The blocks that hold data hold no table, and lie below the signature.
LEMMA DataPlaces ==
    ASSUME TypeInv, Shape, Placement, Safe, Running, NEW lb \in Logical,
           NEW b, b = ni.map[lb], b # Unmapped
    PROVE  b \in Blocks /\ b \notin Tables /\ b < ni.sig
           /\ (b \in Logical \/ (ni.top < b /\ b < ni.sig))
  <1>1. ni.map \in Mapping
    BY StepTypes, InstanceFields
  <1>2. b \in Blocks
    BY <1>1, MapNumbers
  <1>3. b < ni.sig
    BY DEF Safe, FitInv
  <1>4. b \in Logical \/ ni.top < b
    BY DEF Running, Placement, Above
  <1>5. b \notin Tables
    <2>1. ASSUME b \in Tables PROVE FALSE
      <3>1. b \in Int /\ MgmtStart <= b /\ b < ni.top
        BY <2>1, TablePlaces
      <3> QED
        BY <1>4, <3>1, ShapeFields DEF Logical
    <2> QED
      BY <2>1
  <1> QED
    BY <1>2, <1>3, <1>4, <1>5

\* So does the block a request has been mapped to before.
LEMMA OldPlaces ==
    ASSUME TypeInv, Shape, Placement, Safe, Running, req.op # "none"
    PROVE  req.old \in Blocks /\ req.old \notin Tables /\ req.old # ni.sig
  <1>1. req.old \in Blocks /\ req.old \in Int
    BY MappedBlock, BlockNumbers
  <1>2. req.old \in Logical \/ (ni.top < req.old /\ req.old < ni.sig)
    BY DEF Safe, FitInv
  <1>3. req.old \notin Tables
    <2>1. ASSUME req.old \in Tables PROVE FALSE
      <3>1. MgmtStart <= req.old /\ req.old < ni.top
        BY <2>1, TablePlaces
      <3> QED
        BY <1>1, <1>2, <3>1, ShapeFields DEF Logical
    <2> QED
      BY <2>1
  <1>4. req.old # ni.sig
    <2>1. TablesBelowPool(ni)
      BY DEF Running, Placement
    <2> QED
      BY <1>1, <1>2, <2>1, ShapeFields DEF TablesBelowPool, Logical
  <1> QED
    BY <1>1, <1>3, <1>4

\* A step that leaves the instance and the tables alone, while no table is written.
LEMMA RestsSafe ==
    ASSUME TypeInv, Shape, Placement, Safe, Same, IsSig(ni.sig)', UNCHANGED <<ni, saved, faults>>,
           \A b \in Tables : b \notin marks',
           req'.op # "none" =>
              req'.old \in Logical \/ (ni.top < req'.old /\ req'.old < ni.sig),
           req'.update # "unmap",
           \/ pc \in {"idle", "request", "map", "mark"} /\ pc' \in {"idle", "request", "map", "mark"}
           \/ pc = "copy" /\ pc' = "update"
    PROVE  Safe'
  <1>1. Running /\ pc' \in {"idle", "request", "map", "mark", "update"}
        /\ pc \in {"idle", "request", "map", "mark", "copy"}
    BY DEF Running
  <1>2. Running' /\ ~Writing' /\ ~Writing /\ pc' # "erase" /\ pc # "erase" /\ pc' # "repair"
        /\ pc' # "written" /\ pc # "written"
    BY <1>1 DEF Running, Writing
  <1>3. Aged'
    BY AgedSame DEF Safe
  <1>4. Present'
    BY PresentSame DEF Safe, IsSig
  <1>5. FitInv'
    BY <1>1, <1>2 DEF Safe, FitInv, Same
  <1>6. UseInv'
    BY <1>1, <1>2 DEF Safe, UseInv, InUse, Same
  <1>7. KnownInv'
    BY <1>1, <1>2 DEF Safe, KnownInv, Known, Outdated, Same
  <1>8. RestInv'
    BY <1>1 DEF Safe, RestInv, Current, Same
  <1>9. OffInv' /\ DeadInv' /\ WriteInv' /\ EraseInv'
    BY <1>1, <1>2 DEF OffInv, DeadInv, WriteInv, EraseInv
  <1> QED
    BY <1>3, <1>4, <1>5, <1>6, <1>7, <1>8, <1>9 DEF Safe

\* A request begins.
LEMMA BeginSafe ==
    ASSUME TypeInv, Shape, Placement, Safe, NEW op \in Operations, NEW lb \in Logical,
           Begin(op, lb) \/ BeginMark(op, lb)
    PROVE  Safe'
  <1> DEFINE old == ni.map[lb]
  <1>1. /\ NewRequest(op, lb, "none") /\ pc' \in {"request", "map"} /\ pc = "idle"
        /\ UNCHANGED <<flash, marks, ni, saved, faults>>
    BY DEF Begin, BeginMark, NewRequest, chip, seen
  <1>2. old # Unmapped /\ req' = [NoReq EXCEPT !.op = op, !.lb = lb, !.old = old, !.update = "none"]
    BY <1>1 DEF NewRequest
  <1>3. Running
    BY <1>1 DEF Running
  <1>4. old \in Logical \/ (ni.top < old /\ old < ni.sig)
    BY <1>2, <1>3, DataPlaces
  <1> HIDE DEF old
  <1>5. req'.old = old /\ req'.update # "unmap"
    BY <1>2 DEF NoReq
  <1>6. Same /\ IsSig(ni.sig)' /\ \A b \in Tables : b \notin marks'
    <2>1. IsSig(ni.sig)
      BY <1>3 DEF Safe, FitInv
    <2>2. \A b \in Tables : b \notin marks
      BY <1>3 DEF Safe, FitInv
    <2> QED
      BY <1>1, <2>1, <2>2, NoBlock DEF IsSig, Signatures
  <1> QED
    BY <1>1, <1>4, <1>5, <1>6, RestsSafe

\* What the driver writes to a data block leaves tables and signature alone.
LEMMA DataBlockWritten ==
    ASSUME TypeInv, Shape, Placement, Safe, Running, req.op # "none", NEW c, c \notin Table,
           flash' = flash \/ flash' = [flash EXCEPT ![ni.map[req.lb]] = c],
           marks' = marks, ni' = ni
    PROVE  Same /\ IsSig(ni.sig)' /\ \A b \in Tables : b \notin marks'
  <1> DEFINE pb == ni.map[req.lb]
  <1>1. pb # Unmapped /\ req.lb \in Logical
    BY MappedBlock DEF TypeInv, StepType
  <1>2. pb \in Blocks /\ pb \notin Tables /\ pb < ni.sig
    BY <1>1, DataPlaces
  <1>3. IsSig(ni.sig) /\ \A b \in Tables : b \notin marks
    BY DEF Safe, FitInv
  <1>4. ni.sig \in Blocks /\ ni.sig \notin marks
    BY <1>3 DEF IsSig, Signatures
  <1>5. CASE flash' = flash
    BY <1>3, <1>5, NoBlock DEF IsSig, Signatures
  <1>6. CASE flash' = [flash EXCEPT ![pb] = c]
    <2> HIDE DEF pb
    <2>1. Same
      BY <1>2, <1>6, OtherBlock
    <2>2. IsSig(ni.sig)'
      <3>1. ni.sig \in Signatures' /\ \A y \in Signatures' : y <= ni.sig
        BY <1>2, <1>3, <1>4, <1>6, SignatureStays
      <3> QED
        BY <3>1 DEF IsSig
    <2> QED
      BY <1>3, <2>1, <2>2
  <1> QED
    BY <1>5, <1>6

\* What is not a table.
LEMMA NotTables ==
    /\ Empty \notin Table /\ Torn \notin Table /\ Signature \notin Table
    /\ \A lb, n : Data(lb, n) \notin Table /\ Page(lb, n) \notin Table
  BY DEF Empty, Torn, Signature, Data, Page, Table

\* A copy of what is not a table is not one.
LEMMA CopiedNoTable ==
    ASSUME NEW src, src \notin Table, NEW n, NEW c \in Copied(src, n)
    PROVE  c \notin Table
  BY NotTables DEF Copied

\* The operation of a request.
LEMMA RequestsSafe ==
    ASSUME TypeInv, Shape, Placement, Safe,
           RequestSucceeds \/ ReadFindsBitflips \/ RequestFails \/ BlockIsBad
    PROVE  Safe'
  <1> DEFINE pb == ni.map[req.lb]
  <1>1. pc = "request" /\ pc' \in {"idle", "map"} /\ UNCHANGED <<marks, ni, saved, faults>>
    BY DEF RequestSucceeds, ReadFindsBitflips, RequestFails, BlockIsBad, seen, chip
  <1>2. Running /\ req.op # "none"
    BY <1>1 DEF Running, TypeInv, StepType
  <1>3. req \in Call /\ pb \in Blocks /\ pb # Unmapped /\ req.lb \in Logical
    BY <1>2, StepTypes, MappedBlock DEF TypeInv, StepType
  <1>4. pb \notin Tables /\ (pb \in Logical \/ (ni.top < pb /\ pb < ni.sig))
    BY <1>2, <1>3, DataPlaces
  <1>5. \E c : c \notin Table /\ (flash' = flash \/ flash' = [flash EXCEPT ![pb] = c])
    <2>1. CASE RequestSucceeds
      <3>1. \/ flash' = flash \/ flash' = [flash EXCEPT ![pb] = Empty]
            \/ flash' = [flash EXCEPT ![pb] = Data(req.lb, acked[req.lb] + 1)]
        BY <2>1 DEF RequestSucceeds
      <3> QED
        BY <3>1, NotTables
    <2>2. CASE RequestFails
      <3>1. \E c \in {flash[pb], Torn} : flash' = [flash EXCEPT ![pb] = c]
        BY <2>2 DEF RequestFails
      <3>2. flash[pb] \notin Table
        BY <1>3, <1>4 DEF Tables
      <3> QED
        BY <3>1, <3>2, NotTables
    <2>3. CASE ReadFindsBitflips \/ BlockIsBad
      BY <2>3, NotTables DEF ReadFindsBitflips, BlockIsBad, chip
    <2> QED
      BY <2>1, <2>2, <2>3
  <1>6. Same /\ IsSig(ni.sig)' /\ \A b \in Tables : b \notin marks'
    BY <1>1, <1>2, <1>5, DataBlockWritten
  <1>7. \/ req' = req \/ req' = [req EXCEPT !.old = pb]
        \/ req' = [req EXCEPT !.op = "flips", !.old = pb]
    BY DEF RequestSucceeds, ReadFindsBitflips, RequestFails, BlockIsBad
  <1>8. req'.old \in {req.old, pb} /\ req'.update = req.update
    <2> HIDE DEF pb
    <2>1. CASE req' = req
      BY <2>1
    <2>2. CASE req' = [req EXCEPT !.old = pb]
      BY <1>3, <2>2, CallOld
    <2>3. CASE req' = [req EXCEPT !.op = "flips", !.old = pb]
      BY <1>3, <2>3, CallOld
    <2> QED
      BY <1>7, <2>1, <2>2, <2>3
  <1>9. /\ req.update # "unmap"
        /\ req.old \in Logical \/ (ni.top < req.old /\ req.old < ni.sig)
    BY <1>2 DEF Safe, FitInv
  <1> HIDE DEF pb
  <1>10. /\ req'.update # "unmap"
         /\ req'.old \in Logical \/ (ni.top < req'.old /\ req'.old < ni.sig)
    BY <1>4, <1>8, <1>9
  <1> QED
    BY <1>1, <1>6, <1>10, RestsSafe

\* bbt_nand_copy.
LEMMA CopySafe ==
    ASSUME TypeInv, Shape, Placement, Safe, CopySucceeds \/ CopyFails
    PROVE  Safe'
  <1> DEFINE pb == ni.map[req.lb]
  <1>1. pc = "copy" /\ pc' = "update" /\ req' = [req EXCEPT !.update = "remap"]
        /\ UNCHANGED <<marks, ni, saved, faults>>
    BY DEF CopySucceeds, CopyFails, Updating, seen
  <1>2. Running /\ req.op # "none" /\ req \in Call
    BY <1>1, StepTypes DEF Running, TypeInv, StepType
  <1>3. req.old \in Blocks /\ req.old \notin Tables
    BY <1>2, OldPlaces
  <1>4. flash[req.old] \notin Table
    BY <1>3 DEF Tables
  <1>5. \E c : c \notin Table /\ flash' = [flash EXCEPT ![pb] = c]
    <2>1. CASE CopySucceeds
      BY <1>4, <2>1, CopiedNoTable DEF CopySucceeds
    <2>2. CASE CopyFails
      BY <2>2, NotTables DEF CopyFails
    <2> QED
      BY <2>1, <2>2
  <1>6. Same /\ IsSig(ni.sig)' /\ \A b \in Tables : b \notin marks'
    BY <1>1, <1>2, <1>5, DataBlockWritten
  <1>7. req'.old = req.old /\ req'.update = "remap"
    BY <1>1, <1>2 DEF Call
  <1>8. req.old \in Logical \/ (ni.top < req.old /\ req.old < ni.sig)
    BY <1>2 DEF Safe, FitInv
  <1> QED
    BY <1>1, <1>6, <1>7, <1>8, RestsSafe

\* mtk_bmt_block_markbad marks the block that was replaced.
LEMMA MarkSafe ==
    ASSUME TypeInv, Shape, Placement, Safe, MarkBad
    PROVE  Safe'
  <1>1. /\ pc = "mark" /\ pc' = "idle" /\ UNCHANGED <<flash, ni, req, saved, faults>>
        /\ marks' = marks \/ marks' = marks \cup {req.old}
    BY DEF MarkBad, seen
  <1>2. Running /\ req.op # "none"
    BY <1>1 DEF Running, TypeInv, StepType
  <1>3. req.old \notin Tables /\ req.old # ni.sig
    BY <1>2, OldPlaces
  <1>4. /\ IsSig(ni.sig) /\ \A b \in Tables : b \notin marks
        /\ req.old \in Logical \/ (ni.top < req.old /\ req.old < ni.sig)
        /\ req.update # "unmap"
    BY <1>2 DEF Safe, FitInv
  <1>5. IsSig(ni.sig)'
    <2>1. ni.sig \notin marks'
      BY <1>1, <1>3, <1>4 DEF IsSig, Signatures
    <2> QED
      BY <1>1, <1>4, <2>1 DEF IsSig, Signatures
  <1>6. Same /\ \A b \in Tables : b \notin marks'
    BY <1>1, <1>3, <1>4, NoBlock
  <1> QED
    BY <1>1, <1>4, <1>5, <1>6, RestsSafe

\* A step in memory while the driver runs.
LEMMA RunningSafe ==
    ASSUME Safe, Running, Running', Same, "bare" \in faults => "bare" \in faults',
           saved' # {} => saved # {} \/ Tables # {},
           FitInv', UseInv', KnownInv', RestInv', WriteInv', EraseInv'
    PROVE  Safe'
  <1>1. Aged'
    BY AgedSame DEF Safe
  <1>2. Signatures' # {}
    BY DEF FitInv, IsSig
  <1>3. Present'
    BY <1>2, PresentSame DEF Safe
  <1>4. OffInv' /\ DeadInv'
    BY DEF OffInv, DeadInv, Running
  <1> QED
    BY <1>1, <1>3, <1>4 DEF Safe

\* A mapping above the pool is above a smaller one.
LEMMA StillAbove ==
    ASSUME NEW m \in Mapping, NEW top \in Int, NEW t \in Int, t <= top, Above(m, top)
    PROVE  Above(m, t)
  <1> SUFFICES ASSUME NEW lb \in Logical
               PROVE  m[lb] \in Logical \cup {Unmapped} \/ t < m[lb]
    BY DEF Above
  <1>1. m[lb] \in Int
    BY MapNumbers
  <1>2. m[lb] \in Logical \cup {Unmapped} \/ top < m[lb]
    BY DEF Above
  <1> QED
    BY <1>1, <1>2

\* Tables fit as long as the mapping stays and the pool only shrinks.
LEMMA FitStays ==
    ASSUME TypeInv, Safe, Running, Same, \A b \in Tables : b \notin marks',
           IsSig(ni.sig)', ni' \in Instance,
           ni'.map = ni.map, ni'.sig = ni.sig, ni'.top <= ni.top, ni'.count >= ni.count,
           ni.bad \subseteq ni'.bad, \A b \in Tables : b \notin ni'.bad,
           saved' = saved \/ (saved' = {ni.map} /\ Above(ni.map, ni.top)),
           req'.op = req.op, req'.old = req.old, req'.update # "unmap", pc' # "repair"
    PROVE  FitInv'
  <1>0. /\ ni.top \in Int /\ ni'.top \in Int /\ ni.sig \in Int
        /\ ni.map \in Mapping /\ ni.count \in Int /\ ni'.count \in Int
    <2>1. ni \in Instance /\ ni' \in Instance
      BY StepTypes
    <2>2. ni.top \in Blocks /\ ni.sig \in Blocks /\ ni.map \in Mapping /\ ni.count \in Nat
      BY <2>1, InstanceFields
    <2>3. ni'.top \in Blocks /\ ni'.count \in Nat
      BY <2>1 DEF Instance
    <2>4. ni.count \in Int /\ ni'.count \in Int
      BY <2>2, <2>3
    <2>5. ni.top \in Int /\ ni'.top \in Int /\ ni.sig \in Int
      BY <2>2, <2>3, BlockNumbers
    <2> QED
      BY <2>2, <2>4, <2>5
  <1>1. FitInv
    BY DEF Safe
  <1>2. ASSUME NEW b \in Tables
        PROVE  Fit(flash[b], ni')
    <2> DEFINE t == flash[b]
    <2>1. t \in Table /\ t.count \in Int /\ t.map \in Mapping
      BY <1>2 DEF Tables, Table
    <2>2. Fit(t, ni)
      BY <1>1, <1>2 DEF FitInv
    <2> HIDE DEF t
    <2>3. Above(t.map, ni'.top)
      BY <1>0, <2>1, <2>2, StillAbove DEF Fit
    <2>4. t.count <= ni'.count
      BY <1>0, <2>1, <2>2 DEF Fit
    <2>5. Fit(t, ni')
      BY <2>2, <2>3, <2>4 DEF Fit
    <2> QED
      BY <2>5 DEF t
  <1>3. ASSUME NEW m \in saved' PROVE Above(m, ni'.top)
    <2>1. m \in Mapping /\ Above(m, ni.top)
      BY <1>0, <1>1, <1>3 DEF FitInv, TypeInv, MemoryType
    <2> QED
      BY <1>0, <2>1, StillAbove
  <1>4. req.op # "none" => req.old \in Logical \/ (ni'.top < req.old /\ req.old < ni.sig)
    <2>1. req.old \in Int
      BY StepTypes, CallFields, BlockNumbers
    <2> QED
      BY <1>0, <1>1, <2>1 DEF FitInv
  <1>5. IsSig(ni.sig)' /\ \A lb \in Logical : ni'.map[lb] < ni'.sig
    BY <1>1 DEF FitInv
  <1>6. \A b \in Tables' : b \notin marks' /\ b \notin ni'.bad /\ Fit(flash'[b], ni')
    BY <1>2 DEF Same
  <1> QED
    BY <1>3, <1>4, <1>5, <1>6 DEF FitInv

\* The same with nothing but fields set that the layout depends on.
LEMMA SignatureSame ==
    ASSUME UNCHANGED <<flash, marks>>, NEW s, IsSig(s)
    PROVE  s \in Signatures' /\ \A y \in Signatures' : y <= s
  BY DEF IsSig, Signatures

\* The driver comes to rest, or is about to update the tables.
LEMMA RestingSafe ==
    ASSUME TypeInv, Safe, Running, UNCHANGED <<flash, marks, faults>>, ni' \in Instance,
           ni'.map = ni.map, ni'.sig = ni.sig, ni'.top <= ni.top, ni'.count >= ni.count,
           ni.bad \subseteq ni'.bad, \A b \in Tables : b \notin ni'.bad,
           saved' = saved \/ (saved' = {ni.map} /\ Above(ni.map, ni.top) /\ Tables # {}),
           req'.op = req.op, req'.old = req.old, req'.update # "unmap",
           pc' \in {"idle", "request", "map", "mark", "update", "fill"},
           ni'.main # 0, Tables = {ni'.main, ni'.backup} \ {0}, KnownInv', RestInv'
    PROVE  Safe'
  <1>1. Running' /\ ~Writing' /\ pc' # "erase" /\ pc' # "written" /\ pc' # "repair"
    BY DEF Running, Writing
  <1>2. Same
    BY NoBlock
  <1>3. IsSig(ni.sig)
    BY DEF Safe, FitInv
  <1>4. IsSig(ni.sig)'
    BY <1>3, SignatureSame DEF IsSig
  <1>5. FitInv'
    <2>1. \A b \in Tables : b \notin marks'
      BY DEF Safe, FitInv
    <2> QED
      BY <1>1, <1>2, <1>4, <2>1, FitStays
  <1>6. UseInv'
    BY <1>1, <1>2 DEF UseInv, InUse, Same
  <1>7. WriteInv' /\ EraseInv'
    BY <1>1 DEF WriteInv, EraseInv
  <1> QED
    BY <1>1, <1>2, <1>5, <1>6, <1>7, RunningSafe

\* The tables while none is written.
LEMMA AtRest ==
    ASSUME Safe, pc \in Resting
    PROVE  /\ Running /\ pc \notin {"write", "written", "full", "erase"}
           /\ Tables = {ni.main, ni.backup} \ {0} /\ ni.main # 0 /\ Tables # {}
  <1>1. Running /\ ~Writing /\ pc # "written" /\ pc # "erase"
    BY DEF Resting, Running, Writing
  <1> QED
    BY <1>1 DEF Safe, UseInv, InUse, Writing

\* remap_block_nmbm found no block.
LEMMA MapFailedSafe ==
    ASSUME TypeInv, Shape, Safe, pc \in {"fill", "map", "update"}, NEW n \in Instance,
           n.map = ni.map, n.sig = ni.sig, n.top <= ni.top, n.count >= ni.count,
           n.main = ni.main, n.backup = ni.backup, n.protected = ni.protected,
           ni.bad \subseteq n.bad, \A b \in Tables : b \notin n.bad,
           UNCHANGED <<flash, marks, faults>>,
           saved' = saved \/ (saved' = {ni.map} /\ Above(ni.map, ni.top)),
           saved' = {} \/ \A b \in Tables : flash[b].map \in saved',
           MapFailed(n), ni.changed => n.changed,
           ni.protected \/ Current \/ (pc = "fill" /\ ni.changed)
    PROVE  Safe'
  <1>1. /\ Running /\ Tables = {ni.main, ni.backup} \ {0} /\ ni.main # 0 /\ Tables # {}
        /\ req.update # "unmap"
    <2>1. pc \in Resting
      BY DEF Resting
    <2> QED
      BY <2>1, AtRest DEF Safe, FitInv
  <1>2. ni' = n /\ pc' \in {"update", "mark", "idle"}
        /\ (pc' = "update" => req.op = "none")
        /\ (pc' # "update" => req.op # "none" /\ UNCHANGED req)
        /\ (pc' = "update" => req' = [req EXCEPT !.update = "create"])
    BY DEF MapFailed
  <1>3. req'.op = req.op /\ req'.old = req.old /\ req'.update # "unmap"
    <2>1. req \in Call
      BY StepTypes
    <2> QED
      BY <1>1, <1>2, <2>1 DEF Call
  <1>4. pc = "fill" => req.op = "none"
    BY DEF Safe, RestInv
  <1>5. RestInv'
    <2>1. pc' # "update" => ni.protected \/ Current
      BY <1>2, <1>4
    <2>2. Current => Current'
      BY <1>2 DEF Current, Tables
    <2>3. saved' = {} \/ \A b \in Tables' : flash'[b].map \in saved'
      BY DEF Tables
    <2> QED
      BY <1>2, <2>1, <2>2, <2>3 DEF RestInv
  <1>6. KnownInv'
    BY DEF KnownInv, Known, Tables
  <1> QED
    BY <1>1, <1>2, <1>3, <1>5, <1>6, RestingSafe

\* What nmbm_update_info_table returns to.
LEMMA RemapReturnsSafe ==
    ASSUME req \in Call, RemapReturns
    PROVE  /\ pc' \in {"idle", "request", "mark"}
           /\ req'.op = req.op /\ req'.old = req.old /\ req'.update = req.update
  <1>1. req' = req \/ req' = [req EXCEPT !.tries = req.tries + 1]
    BY DEF RemapReturns
  <1>2. req'.op = req.op /\ req'.old = req.old /\ req'.update = req.update
    <2>1. CASE req' = req
      BY <2>1
    <2>2. CASE req' = [req EXCEPT !.tries = req.tries + 1]
      <3> DEFINE t == req.tries + 1
      <3>1. req' = [req EXCEPT !.tries = t]
        BY <2>2
      <3> HIDE DEF t
      <3> QED
        BY <3>1 DEF Call
    <2> QED
      BY <1>1, <2>1, <2>2
  <1> QED
    BY <1>2 DEF RemapReturns

\* The pool is written off.
LEMMA PoolWrittenOff ==
    ASSUME NEW n \in Instance
    PROVE  LET r == [n EXCEPT !.top = n.next]
           IN  /\ r \in Instance /\ r.map = n.map /\ r.sig = n.sig /\ r.top = n.next
               /\ r.count = n.count /\ r.main = n.main /\ r.backup = n.backup
               /\ r.protected = n.protected /\ r.bad = n.bad /\ r.changed = n.changed
  <1> DEFINE t == n.next
  <1>1. t \in Blocks
    BY InstanceFields
  <1> HIDE DEF t
  <1> DEFINE r == [n EXCEPT !.top = t]
  <1>2. /\ r \in Instance /\ r.map = n.map /\ r.sig = n.sig /\ r.top = t
        /\ r.count = n.count /\ r.main = n.main /\ r.backup = n.backup
        /\ r.protected = n.protected /\ r.bad = n.bad /\ r.changed = n.changed
    BY <1>1 DEF Instance
  <1> QED
    BY <1>2 DEF t

\* nmbm_update_info_table has nothing left to write.
LEMMA UpdateEndsSafe ==
    ASSUME TypeInv, Shape, Placement, Safe, UpdateEnds
    PROVE  Safe'
  <1>1. /\ pc = "update" /\ (ni.protected \/ ~ni.changed) /\ UpdateReturn(ni, TRUE)
        /\ UNCHANGED <<flash, marks, faults>>
    BY DEF UpdateEnds, Memory, chip
  <1>2. /\ Running /\ Tables = {ni.main, ni.backup} \ {0} /\ ni.main # 0 /\ Tables # {}
        /\ req.update # "unmap"
    <2>1. pc \in Resting
      BY <1>1 DEF Resting
    <2> QED
      BY <2>1, AtRest DEF Safe, FitInv
  <1>3. ni.protected \/ Current
    BY <1>1 DEF Safe, RestInv
  <1>4. saved' = IF ~ni.protected THEN {ni.map} ELSE saved
    BY <1>1 DEF UpdateReturn
  <1>5. saved' = saved \/ (saved' = {ni.map} /\ Above(ni.map, ni.top))
    BY <1>2, <1>4 DEF Placement, Running
  <1>6. saved' = {} \/ \A b \in Tables : flash[b].map \in saved'
    <2>1. CASE ni.protected
      <3>1. \A b \in Tables : Known(b)
        BY <1>1, <1>2 DEF Safe, KnownInv, Outdated
      <3> QED
        BY <1>4, <2>1, <3>1 DEF Known
    <2>2. CASE ~ni.protected
      BY <1>3, <1>4, <2>2 DEF Current
    <2> QED
      BY <2>1, <2>2
  <1>7. /\ ni \in Instance /\ ni.top \in Int /\ ni.count \in Int /\ ni.next <= ni.top
        /\ \A b \in Tables : b \notin ni.bad
    <2>1. ni \in Instance
      BY StepTypes
    <2>2. ni.top \in Blocks /\ ni.count \in Nat
      BY <2>1, InstanceFields
    <2>3. ni.next <= ni.top
      BY <1>2 DEF Placement, Running, TablesBelowPool
    <2>4. \A b \in Tables : b \notin ni.bad
      BY <1>2 DEF Safe, FitInv
    <2>5. ni.count \in Int
      BY <2>2
    <2>6. ni.top \in Int
      BY <2>2, BlockNumbers
    <2> QED
      BY <2>1, <2>3, <2>4, <2>5, <2>6
  <1>8. CASE req.update # "no spare"
    <2>1. /\ ni' = ni /\ pc' \in {"idle", "request", "mark"}
          /\ req'.op = req.op /\ req'.old = req.old /\ req'.update # "unmap"
      <3>1. req.update = "create" => ni' = ni /\ UNCHANGED req /\ pc' = "idle"
        BY <1>1 DEF UpdateReturn
      <3>2. req.update = "remap" => ni' = ni /\ RemapReturns
        BY <1>1 DEF UpdateReturn
      <3>3. req.update \in {"create", "remap"}
        BY <1>1, <1>2, <1>8 DEF UpdateReturn
      <3> QED
        BY <1>2, <3>1, <3>2, <3>3, StepTypes, RemapReturnsSafe
    <2>2. RestInv'
      <3>1. Current => Current'
        BY <1>1, <2>1 DEF Current, Tables
      <3>2. saved' = {} \/ \A b \in Tables' : flash'[b].map \in saved'
        BY <1>1, <1>6 DEF Tables
      <3> QED
        BY <1>3, <2>1, <3>1, <3>2 DEF RestInv
    <2>3. KnownInv'
      BY <1>1, <1>6 DEF KnownInv, Known, Tables
    <2>4. ni'.top <= ni.top /\ ni'.count >= ni.count
      BY <1>7, <2>1
    <2> QED
      BY <1>1, <1>2, <1>5, <1>7, <2>1, <2>2, <2>3, <2>4, RestingSafe
  <1>9. CASE req.update = "no spare"
    <2> DEFINE r == [ni EXCEPT !.top = ni.next]
    <2>1. MapFailed(r)
      BY <1>1, <1>9 DEF UpdateReturn
    <2>2. /\ r \in Instance /\ r.map = ni.map /\ r.sig = ni.sig /\ r.top = ni.next
          /\ r.count = ni.count /\ r.main = ni.main /\ r.backup = ni.backup
          /\ r.protected = ni.protected /\ r.bad = ni.bad /\ r.changed = ni.changed
      BY <1>7, PoolWrittenOff
    <2> HIDE DEF r
    <2>3. r.top <= ni.top /\ r.count >= ni.count
      BY <1>7, <2>2
    <2> QED
      BY <1>1, <1>3, <1>5, <1>6, <1>7, <2>1, <2>2, <2>3, MapFailedSafe
  <1> QED
    BY <1>8, <1>9

\* nmbm_map_block finds no block.
LEMMA MapFailsSafe ==
    ASSUME TypeInv, Shape, Safe, pc \in {"fill", "map"}, NEW n \in Instance,
           n.map = ni.map, n.sig = ni.sig, n.top = ni.top, n.count = ni.count,
           n.main = ni.main, n.backup = ni.backup, n.protected = ni.protected,
           ni.changed => n.changed, ni.bad \subseteq n.bad, \A b \in Tables : b \notin n.bad,
           UNCHANGED <<flash, marks, saved>>, MapFails(n)
    PROVE  Safe'
  <1>1. /\ Running /\ Tables = {ni.main, ni.backup} \ {0} /\ ni.main # 0
        /\ req.update # "unmap"
    <2>1. pc \in Resting
      BY DEF Resting
    <2> QED
      BY <2>1, AtRest DEF Safe, FitInv
  <1>2. /\ saved = {} \/ \A b \in Tables : flash[b].map \in saved
        /\ ni.protected \/ Current \/ (pc = "fill" /\ ni.changed)
        /\ faults' = faults
    BY DEF Safe, RestInv, MapFails
  <1>3. n.top <= ni.top /\ n.count >= ni.count
    <2>1. ni.top \in Blocks /\ ni.count \in Nat
      BY StepTypes, InstanceFields
    <2>2. ni.count \in Int
      BY <2>1
    <2>3. ni.top \in Int
      BY <2>1, BlockNumbers
    <2> QED
      BY <2>2, <2>3
  <1>4. CASE MapFailed(n)
    BY <1>2, <1>3, <1>4, MapFailedSafe
  <1>5. CASE ni' = n /\ pc' = "update" /\ req' = [req EXCEPT !.update = "no spare"]
    <2>1. req'.op = req.op /\ req'.old = req.old /\ req'.update # "unmap"
      BY <1>5, StepTypes DEF Call
    <2>2. RestInv'
      <3>1. Current => Current'
        BY <1>5 DEF Current, Tables
      <3> QED
        BY <1>2, <1>5, <3>1 DEF RestInv
    <2>3. KnownInv'
      BY <1>2 DEF KnownInv, Known, Tables
    <2> QED
      BY <1>1, <1>2, <1>3, <1>5, <2>1, <2>2, <2>3, RestingSafe
  <1> QED
    BY <1>4, <1>5 DEF MapFails

\* What MapTo sets.
LEMMA MapToSets ==
    ASSUME NEW n \in Instance, NEW lb \in Logical, NEW pb \in Found(n)
    PROVE  LET r == MapTo(n, lb, pb)
           IN  /\ r.map = [n.map EXCEPT ![lb] = pb] /\ r.top = n.top - 1 /\ r.changed = TRUE
               /\ r.sig = n.sig /\ r.count = n.count /\ r.main = n.main /\ r.bad = n.bad
               /\ r.backup = n.backup /\ r.protected = n.protected
  <1> DEFINE m == [n.map EXCEPT ![lb] = pb]
             t == n.top - 1
  <1>1. MapTo(n, lb, pb) = [n EXCEPT !.map = m, !.top = t, !.changed = TRUE]
    BY DEF MapTo
  <1> HIDE DEF m, t
  <1> DEFINE r == [n EXCEPT !.map = m, !.top = t, !.changed = TRUE]
  <1>2. /\ r.map = m /\ r.top = t /\ r.changed = TRUE
        /\ r.sig = n.sig /\ r.count = n.count /\ r.main = n.main /\ r.bad = n.bad
        /\ r.backup = n.backup /\ r.protected = n.protected
    BY DEF Instance
  <1> QED
    BY <1>1, <1>2 DEF m, t

\* A table fits the instance with one more replacement, at the top of the pool.
LEMMA FitMapped ==
    ASSUME NEW t \in Table, NEW n \in Instance, NEW lb \in Logical, Fit(t, n), NEW r \in Instance,
           MgmtStart <= n.top, r.map = [n.map EXCEPT ![lb] = n.top], r.top = n.top - 1,
           r.sig = n.sig, r.count = n.count, n.bad \subseteq r.bad
    PROVE  Fit(t, r)
  <1>0. t.map \in Mapping /\ n.map \in Mapping /\ n.top \in Int /\ r.top \in Int
    BY InstanceFields, BlockNumbers DEF Table
  <1>1. Above(t.map, r.top)
    <2>1. r.top <= n.top
      BY <1>0
    <2> QED
      BY <1>0, <2>1, StillAbove DEF Fit
  <1>2. Lower(r.map, t.map)
    <2> SUFFICES ASSUME NEW k \in Logical, t.map[k] \notin Logical \cup {Unmapped}
                 PROVE  MgmtStart <= r.map[k] /\ r.map[k] <= t.map[k]
      BY DEF Lower
    <2>1. CASE k = lb
      <3>1. r.map[k] = n.top
        BY <1>0, <2>1 DEF Mapping
      <3>2. n.top < t.map[k] /\ t.map[k] \in Int
        BY <1>0, MapNumbers DEF Fit, Above
      <3>3. n.top <= t.map[k]
        BY <1>0, <3>2
      <3> QED
        BY <3>1, <3>3
    <2>2. CASE k # lb
      <3>1. r.map[k] = n.map[k]
        BY <1>0, <2>2 DEF Mapping
      <3> QED
        BY <3>1 DEF Fit, Lower
    <2> QED
      BY <2>1, <2>2
  <1> QED
    BY <1>1, <1>2 DEF Fit

\* nmbm_map_block takes the block at the top of the pool.
LEMMA MapSucceedsSafe ==
    ASSUME TypeInv, Shape, Placement, Safe, pc \in {"fill", "map"}, NEW n \in Instance,
           n.map = ni.map, n.sig = ni.sig, n.top = ni.top, n.count = ni.count,
           n.main = ni.main, n.backup = ni.backup, n.protected = ni.protected,
           ni.bad \subseteq n.bad, \A b \in Tables : b \notin n.bad,
           UNCHANGED <<flash, marks, saved>>, NEW lb \in Logical, NEW pb,
           MapSucceeds(n, lb, pb), "hole" \notin faults',
           pc' \in {"fill", "copy"}, pc' = "fill" => req.op = "none"
    PROVE  Safe'
  <1>1. /\ Running /\ Tables = {ni.main, ni.backup} \ {0} /\ ni.main # 0
        /\ req.update # "unmap" /\ FitInv
    <2>1. pc \in Resting
      BY DEF Resting
    <2> QED
      BY <2>1, AtRest DEF Safe, FitInv
  <1>2. saved = {} \/ \A b \in Tables : flash[b].map \in saved
    BY DEF Safe, RestInv
  <1>3. pb \in Found(n) /\ ni' = MapTo(n, lb, pb) /\ pb = n.top /\ faults' = faults /\ req' = req
    BY DEF MapSucceeds
  <1>4. ni' \in Instance
    BY <1>3, MapToType
  <1>5. /\ ni'.map = [n.map EXCEPT ![lb] = n.top] /\ ni'.top = n.top - 1 /\ ni'.changed = TRUE
        /\ ni'.sig = n.sig /\ ni'.count = n.count /\ ni'.main = n.main /\ ni'.bad = n.bad
        /\ ni'.backup = n.backup /\ ni'.protected = n.protected
    <2> DEFINE r == MapTo(n, lb, pb)
    <2>1. /\ r.map = [n.map EXCEPT ![lb] = pb] /\ r.top = n.top - 1 /\ r.changed = TRUE
          /\ r.sig = n.sig /\ r.count = n.count /\ r.main = n.main /\ r.bad = n.bad
          /\ r.backup = n.backup /\ r.protected = n.protected
      <3>1. pb \in Found(n)
        BY <1>3
      <3> QED
        BY <3>1, MapToSets, Zenon
    <2>2. ni' = r
      BY <1>3
    <2> HIDE DEF r
    <2> QED
      BY <1>3, <2>1, <2>2
  <1>6. Running' /\ ~Writing' /\ pc' # "erase" /\ pc' # "written" /\ pc' # "repair"
    BY DEF Running, Writing
  <1>7. Same
    BY NoBlock
  <1>8. IsSig(ni.sig)'
    BY <1>1, <1>5, SignatureSame DEF FitInv, IsSig
  <1>9. /\ ni.top \in Int /\ ni.sig \in Int /\ MgmtStart <= ni.top /\ ni.top < ni.sig
        /\ ni'.top < ni.top /\ ni'.top \in Int /\ ni.map \in Mapping
    <2>1. ni.top \in Int /\ ni.sig \in Int /\ ni.next \in Int /\ MgmtStart \in Int
      BY ShapeFields
    <2>2. MgmtStart <= ni.next /\ ni.next <= ni.top /\ ni.top < ni.sig
      BY <1>1 DEF Placement, Running, TablesBelowPool
    <2>3. ni.map \in Mapping
      BY StepTypes, InstanceFields
    <2> QED
      BY <1>5, <2>1, <2>2, <2>3
  <1>10. FitInv'
    <2>1. ASSUME NEW b \in Tables'
          PROVE  b \notin marks' /\ b \notin ni'.bad /\ Fit(flash'[b], ni')
      <3>1. b \in Tables /\ flash'[b] = flash[b] /\ flash[b] \in Table
        BY <2>1 DEF Tables
      <3>2. Fit(flash[b], ni) /\ b \notin marks
        BY <1>1, <3>1 DEF FitInv
      <3>3. Fit(flash[b], n)
        BY <3>2 DEF Fit
      <3> DEFINE r == ni'
      <3>4. /\ r \in Instance /\ r.map = [n.map EXCEPT ![lb] = n.top] /\ r.top = n.top - 1
            /\ r.sig = n.sig /\ r.count = n.count /\ n.bad \subseteq r.bad
        BY <1>4, <1>5
      <3> HIDE DEF r
      <3>5. Fit(flash[b], r)
        BY <1>9, <3>1, <3>3, <3>4, FitMapped
      <3> QED
        BY <1>5, <3>1, <3>2, <3>5 DEF r
    <2>2. \A k \in Logical : ni'.map[k] < ni'.sig
      <3> TAKE k \in Logical
      <3>1. ni'.map[k] = n.top \/ ni'.map[k] = ni.map[k]
        BY <1>5, <1>9 DEF Mapping
      <3>2. ni.map[k] < ni.sig
        BY <1>1 DEF FitInv
      <3> QED
        BY <1>5, <1>9, <3>1, <3>2
    <2>3. \A m \in saved' : Above(m, ni'.top)
      <3> TAKE m \in saved'
      <3>1. m \in Mapping /\ Above(m, ni.top)
        BY <1>1 DEF FitInv, TypeInv, MemoryType
      <3>2. ni'.top <= ni.top
        BY <1>9
      <3> QED
        BY <1>9, <3>1, <3>2, StillAbove
    <2>4. req.op # "none" => req.old \in Logical \/ (ni'.top < req.old /\ req.old < ni.sig)
      <3>1. req.old \in Int
        BY StepTypes, CallFields, BlockNumbers
      <3>2. req.op # "none" => req.old \in Logical \/ (ni.top < req.old /\ req.old < ni.sig)
        BY <1>1 DEF FitInv
      <3>3. ni.top < req.old => ni'.top < req.old
        BY <1>9, <3>1
      <3> QED
        BY <3>2, <3>3
    <2> QED
      BY <1>1, <1>3, <1>5, <1>6, <1>8, <2>1, <2>2, <2>3, <2>4 DEF FitInv
  <1>11. UseInv'
    BY <1>1, <1>5, <1>6, <1>7 DEF UseInv, InUse, Same
  <1>12. KnownInv'
    BY <1>2 DEF KnownInv, Known, Tables
  <1>13. RestInv'
    <2>1. saved' = {} \/ \A b \in Tables' : flash'[b].map \in saved'
      BY <1>2 DEF Tables
    <2> QED
      BY <1>3, <1>5, <2>1 DEF RestInv
  <1>14. WriteInv' /\ EraseInv'
    BY <1>6 DEF WriteInv, EraseInv
  <1> QED
    BY <1>1, <1>3, <1>6, <1>7, <1>10, <1>11, <1>12, <1>13, <1>14, RunningSafe

\* A field of the instance that the tables do not depend on.
LEMMA SizeSets ==
    ASSUME NEW n \in Instance, NEW z \in 0 .. MgmtStart
    PROVE  LET r == [n EXCEPT !.size = z]
           IN  /\ r \in Instance /\ r.map = n.map /\ r.sig = n.sig /\ r.top = n.top
               /\ r.count = n.count /\ r.main = n.main /\ r.backup = n.backup
               /\ r.protected = n.protected /\ r.bad = n.bad /\ r.changed = n.changed
  BY DEF Instance

\* A block found to be bad.
LEMMA BadSets ==
    ASSUME NEW n \in Instance, NEW b \in Blocks
    PROVE  LET r == nmbm_set_bad(n, b)
           IN  /\ r \in Instance /\ r.map = n.map /\ r.sig = n.sig /\ r.top = n.top
               /\ r.count = n.count /\ r.main = n.main /\ r.backup = n.backup
               /\ r.protected = n.protected /\ r.bad = n.bad \cup {b}
               /\ r.cache = n.cache /\ (n.changed => r.changed)
  <1> DEFINE bad == n.bad \cup {b}
             c == n.changed \/ Good(n, b)
  <1>1. bad \in SUBSET Blocks /\ c \in BOOLEAN /\ (n.changed => c)
    BY InstanceFields
  <1>2. nmbm_set_bad(n, b) = [n EXCEPT !.bad = bad, !.changed = c]
    BY DEF nmbm_set_bad
  <1> HIDE DEF bad, c
  <1> DEFINE r == [n EXCEPT !.bad = bad, !.changed = c]
  <1>3. /\ r \in Instance /\ r.map = n.map /\ r.sig = n.sig /\ r.top = n.top
        /\ r.count = n.count /\ r.main = n.main /\ r.backup = n.backup
        /\ r.protected = n.protected /\ r.bad = bad /\ r.cache = n.cache
    BY <1>1 DEF Instance
  <1>4. r.changed = c
    BY DEF Instance
  <1>5. n.changed => r.changed
    BY <1>1, <1>4
  <1> QED
    BY <1>2, <1>3, <1>5 DEF bad

\* nmbm_create_info_table replaces the data blocks that were bad from the start.
LEMMA FillSafe ==
    ASSUME TypeInv, Shape, Placement, Safe, Fill, "hole" \notin faults'
    PROVE  Safe'
  <1>1. pc = "fill" /\ UNCHANGED <<flash, marks, saved>> /\ req.op = "none"
    BY DEF Fill, chip, Safe, RestInv
  <1>2. Running
    BY <1>1 DEF Running
  <1>3. ni \in Instance /\ \A b \in Tables : b \notin ni.bad
    BY <1>2, StepTypes DEF Safe, FitInv
  <1>4. ni.size \in 0 .. MgmtStart /\ MgmtStart \in Int
    BY <1>3, InstanceFields, BlockNumbers
  <1>5. CASE MapFails(ni)
    BY <1>1, <1>3, <1>5, MapFailsSafe
  <1>6. ASSUME NEW pb, ni.size < MgmtStart,
               MapSucceeds([ni EXCEPT !.size = ni.size + 1], ni.size, pb), pc' = "fill"
        PROVE  Safe'
    <2> DEFINE z == ni.size + 1
               n == [ni EXCEPT !.size = z]
               lb == ni.size
    <2>1. z \in 0 .. MgmtStart /\ lb \in Logical
      BY <1>4, <1>6 DEF Logical
    <2>2. MapSucceeds(n, lb, pb)
      BY <1>6
    <2> HIDE DEF z, lb
    <2>3. /\ n \in Instance /\ n.map = ni.map /\ n.sig = ni.sig /\ n.top = ni.top
          /\ n.count = ni.count /\ n.main = ni.main /\ n.backup = ni.backup
          /\ n.protected = ni.protected /\ n.bad = ni.bad
      BY <1>3, <2>1, SizeSets
    <2> HIDE DEF n
    <2> QED
      BY <1>1, <1>3, <1>6, <2>1, <2>2, <2>3, MapSucceedsSafe
  <1>7. CASE /\ pc' = "update" /\ req' = [req EXCEPT !.update = "create"]
             /\ UNCHANGED <<ni, faults>>
    <2>1. req'.op = req.op /\ req'.old = req.old /\ req'.update # "unmap"
      BY <1>7, StepTypes DEF Call
    <2>2. pc \in Resting
      BY <1>1 DEF Resting
    <2>3. Tables = {ni'.main, ni'.backup} \ {0} /\ ni'.main # 0
      BY <1>7, <2>2, AtRest
    <2>4. RestInv'
      <3>1. ni.protected \/ ni.changed \/ Current
        BY <1>1 DEF Safe, RestInv
      <3>2. Current => Current'
        BY <1>1, <1>7 DEF Current, Tables
      <3> QED
        BY <1>7, <3>1, <3>2 DEF RestInv
    <2>5. KnownInv'
      <3>1. saved = {} \/ \A b \in Tables : flash[b].map \in saved
        BY <1>1 DEF Safe, RestInv
      <3> QED
        BY <1>1, <3>1 DEF KnownInv, Known, Tables
    <2>6. ni'.top <= ni.top /\ ni'.count >= ni.count
      <3>1. ni.top \in Int
        BY ShapeFields
      <3>2. ni.count \in Nat
        BY <1>3, InstanceFields
      <3>3. ni.count \in Int
        BY <3>2
      <3> QED
        BY <1>7, <3>1, <3>3
    <2> QED
      BY <1>1, <1>2, <1>3, <1>7, <2>1, <2>3, <2>4, <2>5, <2>6, RestingSafe
  <1> QED
    BY <1>5, <1>6, <1>7 DEF Fill

\* remap_block_nmbm up to the copy.
LEMMA MapSafe ==
    ASSUME TypeInv, Shape, Placement, Safe, Map, "hole" \notin faults'
    PROVE  Safe'
  <1> DEFINE n == nmbm_set_bad(ni, req.old)
  <1>1. pc = "map" /\ UNCHANGED <<flash, marks, saved>>
    BY DEF Map, chip
  <1>2. Running /\ req.op # "none"
    BY <1>1 DEF Running, TypeInv, StepType
  <1>3. ni \in Instance /\ \A b \in Tables : b \notin ni.bad
    BY <1>2, StepTypes DEF Safe, FitInv
  <1>4. req.old \in Blocks /\ req.old \notin Tables /\ req.lb \in Logical
    BY <1>2, OldPlaces, MappedBlock
  <1>5. /\ n \in Instance /\ n.map = ni.map /\ n.sig = ni.sig /\ n.top = ni.top
        /\ n.count = ni.count /\ n.main = ni.main /\ n.backup = ni.backup
        /\ n.protected = ni.protected /\ n.bad = ni.bad \cup {req.old}
        /\ ni.changed => n.changed
    BY <1>3, <1>4, BadSets
  <1>6. ni.bad \subseteq n.bad /\ \A b \in Tables : b \notin n.bad
    BY <1>3, <1>4, <1>5
  <1>7. MapFails(n) \/ \E pb \in Found(n) : MapSucceeds(n, req.lb, pb) /\ pc' = "copy"
    BY DEF Map
  <1> HIDE DEF n
  <1>8. CASE MapFails(n)
    BY <1>1, <1>5, <1>6, <1>8, MapFailsSafe
  <1>9. ASSUME NEW pb, MapSucceeds(n, req.lb, pb), pc' = "copy"
        PROVE  Safe'
    BY <1>1, <1>4, <1>5, <1>6, <1>9, MapSucceedsSafe
  <1> QED
    BY <1>7, <1>8, <1>9

\* The next block of a range.
LEMMA RangeNext ==
    ASSUME TypeInv, wr' = [wr EXCEPT !.ba = wr.ba + 1]
    PROVE  /\ wr'.ba = wr.ba + 1 /\ wr'.lim = wr.lim /\ wr'.from = wr.from
           /\ wr'.tmp = wr.tmp /\ wr'.for = wr.for
  <1> DEFINE b == wr.ba + 1
  <1>1. wr \in Span /\ wr' = [wr EXCEPT !.ba = b]
    BY StepTypes
  <1> HIDE DEF b
  <1>2. /\ wr'.ba = b /\ wr'.lim = wr.lim /\ wr'.from = wr.from
        /\ wr'.tmp = wr.tmp /\ wr'.for = wr.for
    BY <1>1 DEF Span
  <1> QED
    BY <1>2 DEF b

\* A block in the range of a table is a block in front of the pool.
LEMMA RangeBlock ==
    ASSUME TypeInv, Shape, Placement, pc \in {"write", "erase"}, wr.ba < wr.lim
    PROVE  /\ wr.ba \in Blocks /\ wr.ba \in Int /\ MgmtStart <= wr.ba /\ wr.ba < ni.top
           /\ ni.top < ni.sig /\ wr.ba < ni.sig - 1
  <1>1. wr.ba \in Blocks
    BY BehindType
  <1>2. MgmtStart <= wr.ba /\ wr.ba < ni.top /\ ni.top < ni.sig
    BY TableInRange
  <1>3. wr.ba \in Int /\ ni.top \in Int /\ ni.sig \in Int
    BY ShapeFields
  <1> QED
    BY <1>1, <1>2, <1>3

\* What FitStays needs of an instance with one more bad block.
LEMMA BadFits ==
    ASSUME TypeInv, Safe, Running, Same, IsSig(ni.sig)', NEW x \in Blocks, x \notin Tables,
           ni' = ni \/ ni' = nmbm_set_bad(ni, x), marks' \subseteq marks \cup {x},
           saved' = saved, req' = req, pc' # "repair"
    PROVE  /\ FitInv'
           /\ ni'.map = ni.map /\ ni'.main = ni.main /\ ni'.backup = ni.backup
           /\ ni'.protected = ni.protected /\ ni'.cache = ni.cache /\ ni'.count = ni.count
           /\ ni.bad \subseteq ni'.bad /\ ni'.sig = ni.sig /\ ni'.top = ni.top
  <1>0. ni \in Instance
    BY StepTypes
  <1>1. /\ ni' \in Instance /\ ni'.map = ni.map /\ ni'.sig = ni.sig /\ ni'.top = ni.top
        /\ ni'.count = ni.count /\ ni'.main = ni.main /\ ni'.backup = ni.backup
        /\ ni'.protected = ni.protected /\ ni'.cache = ni.cache
        /\ ni.bad \subseteq ni'.bad /\ ni'.bad \subseteq ni.bad \cup {x}
    <2>1. CASE ni' = ni
      BY <1>0, <2>1
    <2>2. CASE ni' = nmbm_set_bad(ni, x)
      <3> DEFINE r == nmbm_set_bad(ni, x)
      <3>1. /\ r \in Instance /\ r.map = ni.map /\ r.sig = ni.sig /\ r.top = ni.top
            /\ r.count = ni.count /\ r.main = ni.main /\ r.backup = ni.backup
            /\ r.protected = ni.protected /\ r.bad = ni.bad \cup {x}
            /\ r.cache = ni.cache
        BY <1>0, BadSets
      <3>2. ni' = r
        BY <2>2
      <3> HIDE DEF r
      <3> QED
        BY <3>1, <3>2
    <2> QED
      BY <2>1, <2>2
  <1>2. \A b \in Tables : b \notin marks' /\ b \notin ni'.bad
    <2>1. \A b \in Tables : b \notin marks /\ b \notin ni.bad
      BY DEF Safe, FitInv
    <2> QED
      BY <1>1, <2>1
  <1>3. ni'.top <= ni.top /\ ni'.count >= ni.count
    <2>1. ni.top \in Blocks /\ ni.count \in Nat
      BY <1>0, InstanceFields
    <2>2. ni.count \in Int
      BY <2>1
    <2>3. ni.top \in Int
      BY <2>1, BlockNumbers
    <2> QED
      BY <1>1, <2>2, <2>3
  <1>4. req'.update # "unmap" /\ req'.op = req.op /\ req'.old = req.old
    BY DEF Safe, FitInv
  <1>5. FitInv'
    BY <1>1, <1>2, <1>3, <1>4, FitStays
  <1> QED
    BY <1>1, <1>5

\* The tables that writes in place work on.
LEMMA InPlace ==
    ASSUME Safe, Running, Writing
    PROVE  /\ wr.for \in {"single main", "once main", "single backup", "once backup"} =>
                 wr.ba \in Tables
           /\ wr.for # "rebuild main" => ni.main # 0 /\ ni.main \in Tables
           /\ ni.backup # 0 => ni.backup \in Tables
  <1>1. Tables = InUse /\ ((ni.main = 0) <=> (wr.for = "rebuild main"))
    BY DEF Safe, UseInv
  <1>2. PlaceInv
    BY DEF Safe, WriteInv
  <1>3. {ni.main, ni.backup} \ {0} \subseteq Tables
    BY <1>1 DEF InUse
  <1> QED
    BY <1>1, <1>2, <1>3 DEF PlaceInv

\* nmbm_write_mgmt_range passes over a block.
LEMMA WriteSkipsSafe ==
    ASSUME TypeInv, Shape, Placement, Safe, WriteSkips
    PROVE  Safe'
  <1>1. /\ pc = "write" /\ pc' = "write" /\ wr.ba < wr.lim /\ (wr.ba \in ni.bad \/ wr.ba \in marks)
        /\ ni' = nmbm_set_bad(ni, wr.ba) /\ wr' = [wr EXCEPT !.ba = wr.ba + 1]
        /\ UNCHANGED <<flash, marks, req, saved, faults>>
    BY DEF WriteSkips, Skip, chip, seen
  <1>2. Running /\ Running' /\ Writing /\ Writing' /\ pc # "written" /\ pc # "erase"
        /\ pc' # "written" /\ pc' # "erase" /\ pc' # "repair" /\ pc' # "full"
    BY <1>1 DEF Running, Writing
  <1>3. wr.ba \in Blocks /\ wr.ba \notin Tables
    BY <1>1, <1>2, RangeBlock DEF Safe, FitInv
  <1>4. Same
    BY <1>1, NoBlock
  <1>5. IsSig(ni.sig)'
    <2> DEFINE s == ni.sig
    <2>1. IsSig(s)
      BY <1>2 DEF Safe, FitInv
    <2>2. ni'.sig = s
      <3>1. nmbm_set_bad(ni, wr.ba).sig = ni.sig
        BY <1>3, StepTypes, BadSets
      <3> QED
        BY <1>1, <3>1
    <2>3. s \in Signatures' /\ \A y \in Signatures' : y <= s
      BY <1>1, <2>1, SignatureSame
    <2> QED
      BY <2>2, <2>3 DEF IsSig
  <1>6. /\ FitInv'
        /\ ni'.map = ni.map /\ ni'.main = ni.main /\ ni'.backup = ni.backup
        /\ ni'.protected = ni.protected /\ ni'.cache = ni.cache /\ ni'.count = ni.count
        /\ ni.bad \subseteq ni'.bad
    BY <1>1, <1>2, <1>3, <1>4, <1>5, BadFits
  <1>7. wr'.for = wr.for
    BY <1>1, RangeNext
  <1>8. wr.for \notin {"single main", "once main", "single backup", "once backup"}
    BY <1>2, <1>3, InPlace
  <1>9. UseInv'
    BY <1>2, <1>4, <1>6, <1>7 DEF Safe, UseInv, InUse, Same
  <1>10. KnownInv'
    BY <1>1, <1>2, <1>4, <1>6, <1>7 DEF Safe, KnownInv, Known, Outdated, Same
  <1>11. RestInv' /\ EraseInv'
    BY <1>1 DEF RestInv, EraseInv
  <1>12. WriteInv'
    <2>0. ~ni.protected /\ CallInv /\ PlaceInv /\ CacheInv
      BY <1>2 DEF Safe, WriteInv
    <2>1. CallInv'
      BY <1>1, <1>6, <1>7, <2>0 DEF CallInv
    <2>2. PlaceInv'
      BY <1>2, <1>6, <1>7, <1>8, <2>0 DEF PlaceInv
    <2>3. CacheInv'
      BY <1>2, <1>4, <1>6, <1>7, <1>8, <2>0 DEF CacheInv, Same
    <2> QED
      BY <1>6, <2>0, <2>1, <2>2, <2>3 DEF WriteInv
  <1> QED
    BY <1>1, <1>2, <1>4, <1>6, <1>9, <1>10, <1>11, <1>12, RunningSafe

\* The tables are in front of the pool, the main table first.
LEMMA TablesInFront ==
    ASSUME NEW n \in Inst, TablesBelowPool(n), n.main # 0
    PROVE  n.main < n.top /\ (n.backup # 0 => n.main < n.backup /\ n.backup < n.top)
  <1>1. /\ n.main \in Int /\ n.backup \in Int /\ n.next \in Int /\ n.top \in Int
        /\ MgmtStart \in Int /\ 0 < MgmtStart
    BY InstFields, BlockNumbers
  <1> QED
    BY <1>1 DEF TablesBelowPool

\* The tables that are rewritten in place are in front of the end of the range.
LEMMA InRange ==
    ASSUME Shape, Placement, Safe, pc = "write",
           wr.for \in {"single main", "once main", "single backup", "once backup"}
    PROVE  wr.ba < wr.lim
  <1>1. Running /\ Writing
    BY DEF Running, Writing
  <1>2. PlaceInv /\ ni.main # 0
    BY <1>1, InPlace DEF Safe, WriteInv
  <1>3. WriteRange(ni, wr) /\ TablesBelowPool(ni)
    BY WhileWriting
  <1>5. ni.main < ni.top /\ (ni.backup # 0 => ni.main < ni.backup /\ ni.backup < ni.top)
    BY <1>2, <1>3, ShapeFields, TablesInFront
  <1>6. CASE wr.for = "single main"
    BY <1>2, <1>3, <1>5, <1>6 DEF PlaceInv, WriteRange
  <1>7. CASE wr.for = "once main"
    BY <1>2, <1>3, <1>5, <1>7 DEF PlaceInv, WriteRange
  <1>8. CASE wr.for \in {"single backup", "once backup"}
    BY <1>2, <1>3, <1>5, <1>8 DEF PlaceInv, WriteRange
  <1> QED
    BY <1>6, <1>7, <1>8

\* There is no block left to write.
LEMMA WriteRunsOutSafe ==
    ASSUME TypeInv, Shape, Placement, Safe, WriteRunsOut
    PROVE  Safe'
  <1>1. /\ pc = "write" /\ pc' = "full" /\ wr.ba >= wr.lim
        /\ UNCHANGED <<flash, marks, ni, wr, req, saved, faults>>
    BY DEF WriteRunsOut, chip, seen
  <1>2. Running /\ Running' /\ Writing /\ Writing' /\ pc # "written" /\ pc # "erase"
        /\ pc' # "written" /\ pc' # "erase" /\ pc' # "repair"
    BY <1>1 DEF Running, Writing
  <1>3. wr.for \notin {"single main", "once main", "single backup", "once backup"}
    <2>1. ~(wr.ba < wr.lim)
      BY <1>1, ShapeFields
    <2> QED
      BY <1>1, <2>1, InRange
  <1>4. Same
    BY <1>1, NoBlock
  <1>5. FitInv'
    BY <1>1, <1>2, <1>4 DEF Safe, FitInv, Same, IsSig, Signatures
  <1>6. UseInv'
    BY <1>1, <1>2, <1>4 DEF Safe, UseInv, InUse, Same
  <1>7. KnownInv'
    BY <1>1, <1>2, <1>3, <1>4 DEF Safe, KnownInv, Known, Outdated, Same
  <1>8. RestInv' /\ EraseInv'
    BY <1>1 DEF RestInv, EraseInv
  <1>9. WriteInv'
    <2>0. ~ni.protected /\ CallInv /\ PlaceInv /\ CacheInv
      BY <1>2 DEF Safe, WriteInv
    <2>1. CallInv'
      BY <1>1, <2>0 DEF CallInv
    <2>2. PlaceInv'
      <3>1. wr.for \in Writes \cup {"none"}
        BY ShapeFields DEF Extent
      <3> QED
        BY <1>1, <1>3, <2>0, <3>1 DEF PlaceInv, Writes
    <2>3. CacheInv'
      BY <1>1, <1>2, <1>4, <2>0 DEF CacheInv, Same
    <2> QED
      BY <1>1, <2>0, <2>1, <2>2, <2>3 DEF WriteInv
  <1> QED
    BY <1>1, <1>2, <1>4, <1>5, <1>6, <1>7, <1>8, <1>9, RunningSafe

\* One table more, or one table replaced, that is newer than the others.
LEMMA NewerTable ==
    ASSUME Aged, NEW x, NEW t \in Table, Tables' = Tables \cup {x}, flash'[x] = t,
           \A b \in Tables : b # x => flash'[b] = flash[b],
           \A b \in Tables :
              /\ flash[b] \in Table /\ flash[b].count <= t.count
              /\ flash[b].count = t.count => flash[b] = t
              /\ flash[b].bad \subseteq t.bad /\ Lower(t.map, flash[b].map)
    PROVE  Aged'
  <1> SUFFICES ASSUME NEW a \in Tables', NEW b \in Tables'
               PROVE  /\ flash'[a].count = flash'[b].count => flash'[a] = flash'[b]
                      /\ flash'[a].count < flash'[b].count =>
                            /\ flash'[a].bad \subseteq flash'[b].bad
                            /\ Lower(flash'[b].map, flash'[a].map)
    BY DEF Aged, Lower
  <1>0. t.count \in Int
    BY DEF Table
  <1>1. CASE a = x /\ b = x
    BY <1>0, <1>1
  <1>2. CASE a = x /\ b # x
    <2>1. b \in Tables /\ flash'[b] = flash[b] /\ flash[b] \in Table
      BY <1>2
    <2>2. flash[b].count \in Int
      BY <2>1 DEF Table
    <2>3. ~(t.count < flash[b].count)
      BY <1>0, <2>1, <2>2
    <2> QED
      BY <1>2, <2>1, <2>3
  <1>3. CASE a # x /\ b = x
    BY <1>3
  <1>4. CASE a # x /\ b # x
    <2>1. a \in Tables /\ b \in Tables /\ flash'[a] = flash[a] /\ flash'[b] = flash[b]
      BY <1>4
    <2> QED
      BY <2>1 DEF Aged
  <1> QED
    BY <1>1, <1>2, <1>3, <1>4

\* The mapping in memory is not newer than itself.
LEMMA LowerItself ==
    ASSUME NEW m \in Mapping
    PROVE  Lower(m, m)
  <1> SUFFICES ASSUME NEW lb \in Logical, m[lb] \notin Logical \cup {Unmapped}
               PROVE  MgmtStart <= m[lb] /\ m[lb] <= m[lb]
    BY DEF Lower
  <1>1. m[lb] \in Int /\ 0 <= m[lb] /\ MgmtStart \in Int
    BY MapNumbers, BlockNumbers
  <1> QED
    BY <1>1 DEF Logical

\* The table that is being written.
LEMMA CacheAdded ==
    ASSUME TypeInv, Shape, Placement, Safe, pc = "write", Usable,
           flash' = [flash EXCEPT ![wr.ba] = ni.cache]
    PROVE  /\ Tables' = Tables \cup {wr.ba} /\ flash'[wr.ba] = ni.cache /\ Aged'
           /\ \A b \in Tables : b # wr.ba => flash'[b] = flash[b]
           /\ Fit(ni.cache, ni) /\ ni.cache \in Table /\ ni.cache.map = ni.map
  <1>1. Running /\ Writing
    BY DEF Running, Writing
  <1>2. wr.ba < wr.lim
    BY DEF Usable
  <1>3. wr.ba \in Blocks
    BY <1>2, RangeBlock
  <1>4. flash \in [Blocks -> Content] /\ ni \in Instance
    BY StepTypes DEF TypeInv, ChipType
  <1>5. ni.cache \in Table /\ ni.map \in Mapping /\ ni.count \in Nat
    BY <1>4, InstanceFields
  <1>6. flash'[wr.ba] = ni.cache /\ \A b \in Blocks : b # wr.ba => flash'[b] = flash[b]
    BY <1>3, <1>4
  <1>7. Tables' = Tables \cup {wr.ba}
    BY <1>3, <1>5, <1>6 DEF Tables
  <1>8. CacheInv /\ FitInv
    BY <1>1 DEF Safe, WriteInv
  <1>9. ASSUME NEW b \in Tables
        PROVE  /\ flash[b] \in Table /\ flash[b].count <= ni.cache.count
               /\ flash[b].count = ni.cache.count => flash[b] = ni.cache
               /\ flash[b].bad \subseteq ni.cache.bad /\ Lower(ni.cache.map, flash[b].map)
    <2>1. Fit(flash[b], ni)
      BY <1>1, <1>8 DEF FitInv
    <2> QED
      BY <1>8, <2>1 DEF CacheInv, Fit, Tables
  <1>10. \A b \in Tables : b # wr.ba => flash'[b] = flash[b]
    BY <1>6 DEF Tables
  <1>11. Aged'
    BY <1>5, <1>6, <1>7, <1>9, <1>10, NewerTable DEF Safe
  <1>12. Fit(ni.cache, ni)
    <2>1. Distinct(ni.map) /\ Above(ni.map, ni.top)
      BY <1>1 DEF Placement, NoSharing, Distinct, Running
    <2>2. \A lb \in Logical : ni.map[lb] < ni.sig
      BY <1>1, <1>8 DEF FitInv
    <2>3. Lower(ni.map, ni.map)
      BY <1>5, LowerItself
    <2>4. ni.count <= ni.count
      BY <1>5
    <2> QED
      BY <1>8, <2>1, <2>2, <2>3, <2>4 DEF Fit, CacheInv
  <1> QED
    BY <1>5, <1>6, <1>7, <1>8, <1>10, <1>11, <1>12 DEF CacheInv

\* A table is written.
LEMMA WriteSucceedsSafe ==
    ASSUME TypeInv, Shape, Placement, Safe, WriteSucceeds
    PROVE  Safe'
  <1>1. /\ pc = "write" /\ pc' = "written" /\ Usable /\ wr.ba < wr.lim
        /\ flash' = [flash EXCEPT ![wr.ba] = ni.cache]
        /\ UNCHANGED <<marks, ni, wr, req, saved, faults>>
    BY DEF WriteSucceeds, Usable, seen
  <1>2. Running /\ Running' /\ Writing /\ Writing' /\ pc # "written" /\ pc # "erase"
        /\ pc' # "erase" /\ pc' # "repair" /\ pc' # "full"
    BY <1>1 DEF Running, Writing
  <1>3. /\ Tables' = Tables \cup {wr.ba} /\ flash'[wr.ba] = ni.cache /\ Aged'
        /\ \A b \in Tables : b # wr.ba => flash'[b] = flash[b]
        /\ Fit(ni.cache, ni) /\ ni.cache.map = ni.map
    BY <1>1, CacheAdded
  <1>4. wr.ba \in Blocks /\ wr.ba < ni.sig /\ wr.ba \notin marks /\ wr.ba \notin ni.bad
    <2>1. wr.ba \in Blocks /\ wr.ba \in Int /\ wr.ba < ni.top /\ ni.top < ni.sig
      BY <1>1, RangeBlock
    <2>2. wr.ba < ni.sig
      BY <2>1, ShapeFields
    <2> QED
      BY <1>1, <2>1, <2>2 DEF Usable
  <1>5. FitInv
    BY DEF Safe
  <1>6. IsSig(ni.sig)'
    <2>1. IsSig(ni.sig) /\ ni.sig \in Blocks /\ ni.sig \notin marks
      BY <1>2, <1>5 DEF FitInv, IsSig, Signatures
    <2>2. ni.sig \in Signatures' /\ \A y \in Signatures' : y <= ni.sig
      BY <1>1, <1>4, <2>1, SignatureStays
    <2> QED
      BY <1>1, <2>2 DEF IsSig
  <1>7. FitInv'
    <2>1. ASSUME NEW b \in Tables'
          PROVE  b \notin marks /\ b \notin ni.bad /\ Fit(flash'[b], ni)
      <3>1. CASE b = wr.ba
        BY <1>3, <1>4, <3>1
      <3>2. CASE b # wr.ba
        BY <1>2, <1>3, <1>5, <2>1, <3>2 DEF FitInv
      <3> QED
        BY <3>1, <3>2
    <2> QED
      BY <1>1, <1>2, <1>5, <1>6, <2>1 DEF FitInv
  <1>8. UseInv'
    BY <1>1, <1>2, <1>3 DEF Safe, UseInv, InUse
  <1>9. ~ni.protected /\ CallInv /\ PlaceInv /\ CacheInv
    BY <1>2 DEF Safe, WriteInv
  <1>10. KnownInv'
    <2>1. ASSUME NEW b \in Tables' PROVE Known(b)'
      <3>1. CASE b = wr.ba
        BY <1>1, <1>3, <1>9, <3>1 DEF Known
      <3>2. CASE b # wr.ba
        <4>1. b \in Tables /\ flash'[b] = flash[b]
          BY <1>3, <2>1, <3>2
        <4>2. ~Outdated(b)
          <5>1. Outdated(b) => \/ wr.for = "single main" /\ b = ni.main
                               \/ wr.for = "single backup" /\ b = ni.backup
            BY DEF Outdated
          <5>2. /\ wr.for = "single main" => wr.ba = ni.main
                /\ wr.for = "single backup" => wr.ba = ni.backup
            BY <1>9 DEF PlaceInv
          <5> QED
            BY <3>2, <5>1, <5>2
        <4>3. Known(b)
          BY <1>2, <4>1, <4>2 DEF Safe, KnownInv
        <4> QED
          BY <1>1, <4>1, <4>3 DEF Known
      <3> QED
        BY <3>1, <3>2
    <2> QED
      BY <2>1 DEF KnownInv
  <1>11. RestInv' /\ EraseInv'
    BY <1>1 DEF RestInv, EraseInv
  <1>12. WriteInv'
    <2>1. CallInv'
      BY <1>1, <1>9 DEF CallInv
    <2>2. PlaceInv'
      BY <1>1, <1>9 DEF PlaceInv
    <2>3. CacheInv'
      <3>1. \A b \in Tables' : b = wr.ba \/ (b \in Tables /\ flash'[b] = flash[b])
        BY <1>3
      <3>2. \A b \in Tables' : /\ flash'[b].bad \subseteq ni.cache.bad
                               /\ flash'[b].count = ni.cache.count => flash'[b] = ni.cache
        BY <1>3, <1>9, <3>1 DEF CacheInv
      <3>3. \A b \in Tables' : \/ flash'[b].map = ni.map
                               \/ wr.for \in {"single main", "single backup"} /\ b = wr.ba
                               \/ wr.for = "once main" /\ b = ni.main
                               \/ wr.for = "once backup"
        BY <1>3, <1>9, <3>1 DEF CacheInv
      <3> QED
        BY <1>1, <1>3, <1>9, <3>2, <3>3 DEF CacheInv
    <2> QED
      BY <1>1, <1>9, <2>1, <2>2, <2>3 DEF WriteInv
  <1>13. Present'
    <2>1. Tables' # {} /\ Signatures' # {}
      BY <1>3, <1>6 DEF IsSig
    <2> QED
      BY <2>1 DEF Present
  <1>14. OffInv' /\ DeadInv'
    BY <1>1 DEF OffInv, DeadInv
  <1> QED
    BY <1>3, <1>7, <1>8, <1>10, <1>11, <1>12, <1>13, <1>14 DEF Safe

\* The next block is erased, or passed over.
LEMMA EraseNextSafe ==
    ASSUME TypeInv, Shape, Placement, Safe, pc = "erase", pc' = "erase", wr.ba < wr.lim,
           wr' = [wr EXCEPT !.ba = wr.ba + 1], Same,
           \A s : s = ni.sig /\ IsSig(s) => s \in Signatures' /\ \A y \in Signatures' : y <= s,
           ni' = ni \/ ni' = nmbm_set_bad(ni, wr.ba), marks' \subseteq marks \cup {wr.ba},
           saved' = saved, req' = req, "bare" \in faults => "bare" \in faults'
    PROVE  Safe'
  <1>1. Running /\ Running' /\ ~Writing' /\ pc' # "written" /\ pc # "written" /\ ~Writing
        /\ pc' # "write" /\ pc # "write"
    BY DEF Running, Writing
  <1>2. EraseInv /\ FitInv
    BY DEF Safe
  <1>3. wr.ba \in Blocks /\ wr.ba \in Int /\ wr.lim \in Int /\ wr.ba \notin Tables
    <2>1. wr.ba \in Blocks /\ wr.ba \in Int /\ wr.lim \in Int
      BY RangeBlock, ShapeFields
    <2>2. wr.ba \in Tables => wr.ba < wr.ba \/ wr.lim <= wr.ba
      BY <1>2 DEF EraseInv
    <2>3. ~(wr.ba < wr.ba) /\ ~(wr.lim <= wr.ba)
      BY <2>1
    <2> QED
      BY <2>1, <2>2, <2>3
  <1>4. IsSig(ni.sig)'
    <2>1. IsSig(ni.sig)
      BY <1>1, <1>2 DEF FitInv
    <2>2. ni'.sig = ni.sig
      <3>1. nmbm_set_bad(ni, wr.ba).sig = ni.sig
        BY <1>3, StepTypes, BadSets
      <3> QED
        BY <3>1
    <2> QED
      BY <2>1, <2>2 DEF IsSig
  <1>5. /\ FitInv'
        /\ ni'.map = ni.map /\ ni'.main = ni.main /\ ni'.backup = ni.backup
        /\ ni'.protected = ni.protected
    BY <1>1, <1>3, <1>4, BadFits
  <1>6. /\ wr'.ba = wr.ba + 1 /\ wr'.lim = wr.lim /\ wr'.tmp = wr.tmp /\ wr'.for = wr.for
    BY RangeNext
  <1>7. UseInv'
    BY <1>1, <1>5, <1>6 DEF Safe, UseInv, InUse, Same
  <1>8. KnownInv'
    BY <1>1, <1>5, <1>6 DEF Safe, KnownInv, Known, Outdated, Same
  <1>9. RestInv' /\ WriteInv'
    BY <1>1 DEF RestInv, WriteInv
  <1>10. EraseInv'
    <2>1. \A b \in Tables : b < wr'.ba \/ wr'.lim <= b
      <3> TAKE b \in Tables
      <3>1. b \in Int
        BY BlockNumbers DEF Tables
      <3>2. b < wr.ba \/ wr.lim <= b
        BY <1>2 DEF EraseInv
      <3> QED
        BY <1>3, <1>6, <3>1, <3>2
    <2>2. CallInv' /\ Current'
      BY <1>2, <1>5, <1>6 DEF EraseInv, CallInv, Current, Same
    <2> QED
      BY <1>2, <1>5, <1>6, <2>1, <2>2 DEF EraseInv, Same
  <1> QED
    BY <1>1, <1>5, <1>7, <1>8, <1>9, <1>10, RunningSafe

\* nmbm_erase_range.
LEMMA EraseSafe ==
    ASSUME TypeInv, Shape, Placement, Safe, EraseSkips \/ EraseSucceeds \/ EraseFails
    PROVE  Safe'
  <1>1. /\ pc = "erase" /\ pc' = "erase" /\ wr.ba < wr.lim
        /\ wr' = [wr EXCEPT !.ba = wr.ba + 1] /\ saved' = saved /\ req' = req
        /\ ni' = ni \/ ni' = nmbm_set_bad(ni, wr.ba)
        /\ "bare" \in faults => "bare" \in faults'
    BY DEF EraseSkips, EraseSucceeds, EraseFails, Skip, Usable, BlockFails, seen
  <1>2. Running
    BY <1>1 DEF Running
  <1>3. FitInv /\ EraseInv
    BY DEF Safe
  <1>4. wr.ba \in Blocks /\ wr.ba < ni.sig /\ wr.ba \notin Tables
    <2>1. wr.ba \in Blocks /\ wr.ba \in Int /\ wr.ba < ni.top /\ ni.top < ni.sig
      BY <1>1, RangeBlock
    <2>2. wr.lim \in Int /\ ni.top \in Int /\ ni.sig \in Int
      BY ShapeFields
    <2>3. wr.ba \in Tables => wr.ba < wr.ba \/ wr.lim <= wr.ba
      BY <1>1, <1>3 DEF EraseInv
    <2>4. ~(wr.ba < wr.ba) /\ ~(wr.lim <= wr.ba) /\ wr.ba < ni.sig
      BY <1>1, <2>1, <2>2
    <2> QED
      BY <2>1, <2>3, <2>4
  <1>5. marks \subseteq marks' /\ marks' \subseteq marks \cup {wr.ba}
    BY DEF EraseSkips, EraseSucceeds, EraseFails, Skip, BlockFails, chip
  <1>6. flash' = flash \/ \E c : c \notin Table /\ flash' = [flash EXCEPT ![wr.ba] = c]
    <2>1. CASE EraseSkips
      BY <2>1 DEF EraseSkips, Skip, chip
    <2>2. CASE EraseSucceeds
      BY <2>2, NotTables DEF EraseSucceeds
    <2>3. CASE EraseFails
      <3>1. PICK c \in {Torn, flash[wr.ba]} : flash' = [flash EXCEPT ![wr.ba] = c]
        BY <2>3 DEF EraseFails, BlockFails
      <3>2. flash[wr.ba] \notin Table
        BY <1>4 DEF Tables
      <3> QED
        BY <3>1, <3>2, NotTables
    <2> QED
      BY <2>1, <2>2, <2>3
  <1>7. Same
    BY <1>4, <1>6, NoBlock, OtherBlock
  <1>8. ASSUME NEW s, s = ni.sig, IsSig(s)
        PROVE  s \in Signatures' /\ \A y \in Signatures' : y <= s
    <2>1. s \in Blocks /\ s \notin marks /\ s # wr.ba /\ wr.ba < s
      <3>1. s \in Blocks /\ s \notin marks /\ s \in Int /\ wr.ba \in Int
        BY <1>4, <1>8, BlockNumbers DEF IsSig, Signatures
      <3> QED
        BY <1>4, <1>8, <3>1
    <2>2. s \notin marks'
      BY <1>5, <2>1
    <2>3. CASE flash' = flash
      BY <1>5, <1>8, <2>2, <2>3 DEF IsSig, Signatures
    <2>4. ASSUME NEW c, flash' = [flash EXCEPT ![wr.ba] = c]
          PROVE  s \in Signatures' /\ \A y \in Signatures' : y <= s
      BY <1>4, <1>5, <1>8, <2>1, <2>2, <2>4, SignatureStays
    <2> QED
      BY <1>6, <2>3, <2>4
  <1> QED
    BY <1>1, <1>5, <1>7, <1>8, EraseNextSafe

-----------------------------------------------------------------------------
(* The functions that write tables, while the power may go at any time *)

\* An instance that differs in where its tables are, and in what is not stored.
Carry(r, n, a, b) ==
    /\ r \in Instance /\ r.main = a /\ r.backup = b /\ r.map = n.map /\ r.top = n.top
    /\ r.sig = n.sig /\ r.bad = n.bad /\ r.count = n.count /\ r.cache = n.cache
    /\ r.protected = n.protected

\* The assignments of the table functions.
LEMMA Carries ==
    ASSUME NEW n \in Instance, NEW a \in Blocks, NEW b \in Blocks
    PROVE  /\ Carry(n, n, n.main, n.backup)
           /\ Carry([n EXCEPT !.main = a, !.next = b], n, a, n.backup)
           /\ Carry([n EXCEPT !.backup = a, !.next = b], n, n.main, a)
           /\ Carry([n EXCEPT !.backup = a, !.main = b], n, b, a)
           /\ Carry([n EXCEPT !.main = a], n, a, n.backup)
  <1>1. Carry(n, n, n.main, n.backup) /\ Carry([n EXCEPT !.main = a, !.next = b], n, a, n.backup)
    BY DEF Carry, Instance
  <1>2. /\ Carry([n EXCEPT !.backup = a, !.next = b], n, n.main, a)
        /\ Carry([n EXCEPT !.backup = a, !.main = b], n, b, a)
        /\ Carry([n EXCEPT !.main = a], n, a, n.backup)
    BY DEF Carry, Instance
  <1> QED
    BY <1>1, <1>2

\* nmbm_mark_tables_clean.
LEMMA CarriesClean ==
    ASSUME NEW n, NEW r, NEW a, NEW b, Carry(r, n, a, b)
    PROVE  Carry(Clean(r), n, a, b)
  BY DEF Carry, Clean, Instance

\* nmbm_load_info_table may set the chip to read-only.
LEMMA CarriesProtected ==
    ASSUME NEW r \in Instance, NEW p \in BOOLEAN
    PROVE  LET q == [r EXCEPT !.protected = p]
           IN  /\ q \in Instance /\ q.main = r.main /\ q.backup = r.backup /\ q.map = r.map
               /\ q.top = r.top /\ q.sig = r.sig /\ q.bad = r.bad /\ q.count = r.count
  BY DEF Instance

\* A function that writes tables returns: the tables hold the mapping in memory.
LEMMA ReturnSafe ==
    ASSUME TypeInv, Shape, Placement, Safe, pc \in TablePCs, NEW r, NEW a, NEW b, NEW ok,
           Carry(r, ni, a, b), Return(r, ok), ~ni.protected, Current,
           Tables = {a, b} \ {0}, a # 0, ok \/ req.table = "load",
           req.table = "create" => req.op = "none" /\ saved = {},
           req.table = "load" => saved = {ni.map}
    PROVE  Safe'
  <1>1. Running
    BY DEF TablePCs, Running
  <1>2. TableReturn(r, ok) /\ UNCHANGED <<flash, marks, faults>>
    BY DEF Return, Memory, chip
  <1>3. /\ UNCHANGED <<req, saved>> /\ req.table \in {"create", "load", "update"}
        /\ req.table = "create" => ni' = r /\ pc' = "fill"
        /\ req.table = "load" => /\ ni' = [r EXCEPT !.protected = (r.next = r.top \/ ~ok)]
                                 /\ pc' = "idle"
        /\ req.table = "update" => ni' = r /\ pc' = "update"
    <2>1. CASE req.table = "create"
      BY <1>2, <2>1 DEF TableReturn
    <2>2. CASE req.table = "load"
      BY <1>2, <2>2 DEF TableReturn
    <2>3. CASE req.table = "update"
      BY <1>2, <2>3 DEF TableReturn
    <2> QED
      BY <1>2, <2>1, <2>2, <2>3 DEF TableReturn
  <1>4. /\ r \in Instance /\ r.main = a /\ r.backup = b /\ r.map = ni.map /\ r.top = ni.top
        /\ r.sig = ni.sig /\ r.bad = ni.bad /\ r.count = ni.count /\ r.protected = ni.protected
    BY DEF Carry
  <1>5. /\ ni' \in Instance /\ ni'.main = a /\ ni'.backup = b /\ ni'.map = ni.map
        /\ ni'.top = ni.top /\ ni'.sig = ni.sig /\ ni'.bad = ni.bad /\ ni'.count = ni.count
        /\ (req.table # "load" => ni'.protected = ni.protected)
    <2>1. CASE req.table # "load"
      BY <1>3, <1>4, <2>1
    <2>2. CASE req.table = "load"
      <3> DEFINE p == (r.next = r.top \/ ~ok)
                 q == [r EXCEPT !.protected = p]
      <3>1. p \in BOOLEAN
        OBVIOUS
      <3>2. ni' = q
        BY <1>3, <2>2
      <3> HIDE DEF p
      <3>3. /\ q \in Instance /\ q.main = r.main /\ q.backup = r.backup /\ q.map = r.map
            /\ q.top = r.top /\ q.sig = r.sig /\ q.bad = r.bad /\ q.count = r.count
        BY <1>4, <3>1, CarriesProtected
      <3> HIDE DEF q
      <3> QED
        BY <1>4, <2>2, <3>2, <3>3
    <2> QED
      BY <2>1, <2>2
  <1>6. ni'.top <= ni.top /\ ni'.count >= ni.count
    <2>1. ni.top \in Int
      BY ShapeFields
    <2>2. ni.count \in Nat
      BY StepTypes, InstanceFields
    <2>3. ni.count \in Int
      BY <2>2
    <2> QED
      BY <1>5, <2>1, <2>3
  <1>7. Current'
    BY <1>2, <1>5 DEF Current, Tables
  <1>8. \A c \in Tables' : flash'[c].map = ni.map
    BY <1>5, <1>7 DEF Current
  <1>9. KnownInv'
    <2>1. CASE req.table = "create"
      BY <1>3, <2>1 DEF KnownInv, Known
    <2>2. CASE req.table = "load"
      BY <1>3, <1>8, <2>2 DEF KnownInv, Known
    <2>3. CASE req.table = "update"
      BY <1>5, <1>8, <2>3 DEF KnownInv, Known
    <2> QED
      BY <1>3, <2>1, <2>2, <2>3
  <1>10. RestInv'
    <2>1. CASE req.table = "create"
      BY <1>3, <1>7, <2>1 DEF RestInv
    <2>2. CASE req.table = "load"
      BY <1>3, <1>7, <1>8, <2>2 DEF RestInv
    <2>3. CASE req.table = "update"
      BY <1>3, <1>7, <2>3 DEF RestInv
    <2> QED
      BY <1>3, <2>1, <2>2, <2>3
  <1>11. /\ req'.op = req.op /\ req'.old = req.old /\ req'.update # "unmap"
         /\ pc' \in {"idle", "update", "fill"} /\ \A c \in Tables : c \notin ni'.bad
    BY <1>1, <1>3, <1>5 DEF Safe, FitInv
  <1> QED
    BY <1>1, <1>2, <1>3, <1>5, <1>6, <1>9, <1>10, <1>11, RestingSafe

\* What carries over to the next write or erase.
LEMMA GoingFits ==
    ASSUME TypeInv, Shape, Safe, Running, NEW a, NEW b, Carry(ni', ni, a, b),
           UNCHANGED <<flash, marks, saved>>, req'.op = req.op, req'.old = req.old,
           req'.update # "unmap", pc' # "repair"
    PROVE  FitInv' /\ Same
  <1>1. /\ ni' \in Instance /\ ni'.map = ni.map /\ ni'.top = ni.top
        /\ ni'.sig = ni.sig /\ ni'.bad = ni.bad /\ ni'.count = ni.count
    BY DEF Carry
  <1>2. ni'.top <= ni.top /\ ni'.count >= ni.count
    <2>1. ni.top \in Int
      BY ShapeFields
    <2>2. ni.count \in Nat
      BY StepTypes, InstanceFields
    <2>3. ni.count \in Int
      BY <2>2
    <2> QED
      BY <1>1, <2>1, <2>3
  <1>3. Same
    BY NoBlock
  <1>4. IsSig(ni.sig) /\ \A c \in Tables : c \notin marks' /\ c \notin ni'.bad
    BY <1>1 DEF Safe, FitInv
  <1>5. IsSig(ni.sig)'
    BY <1>1, <1>4, SignatureSame DEF IsSig
  <1> QED
    BY <1>1, <1>2, <1>3, <1>4, <1>5, FitStays

\* The fields of the range that StartWrite sets.
LEMMA WriteStarted ==
    ASSUME TypeInv, NEW n, NEW ba, NEW lim, NEW for, StartWrite(n, ba, lim, for)
    PROVE  /\ ni' = n /\ pc' = "write"
           /\ wr'.ba = ba /\ wr'.lim = lim /\ wr'.from = ba /\ wr'.for = for
  <1>1. wr \in Span
    BY StepTypes
  <1>2. wr'.ba = ba /\ wr'.lim = lim /\ wr'.from = ba /\ wr'.for = for
    BY <1>1 DEF StartWrite, Span
  <1> QED
    BY <1>2 DEF StartWrite

\* The ones that StartErase sets.
LEMMA EraseStarted ==
    ASSUME TypeInv, NEW n, NEW ba, NEW lim, StartErase(n, ba, lim)
    PROVE  /\ ni' = n /\ pc' = "erase"
           /\ wr'.ba = ba /\ wr'.lim = lim /\ wr'.tmp = wr.ba /\ wr'.for = wr.for
  <1> DEFINE t == wr.ba
  <1>1. wr \in Span /\ wr' = [wr EXCEPT !.ba = ba, !.lim = lim, !.tmp = t]
    BY StepTypes DEF StartErase
  <1> HIDE DEF t
  <1>2. wr'.ba = ba /\ wr'.lim = lim /\ wr'.tmp = t /\ wr'.for = wr.for
    BY <1>1 DEF Span
  <1> QED
    BY <1>2 DEF t, StartErase

\* The next table is going to be written.
LEMMA StartWriteSafe ==
    ASSUME TypeInv, Shape, Safe, Running, NEW r, NEW a, NEW b, Carry(r, ni, a, b),
           NEW ba, NEW lim, NEW for, StartWrite(r, ba, lim, for),
           UNCHANGED <<flash, marks, saved, faults>>, req'.op = req.op, req'.old = req.old,
           req'.update # "unmap", a # 0, for # "rebuild main", Tables = {a, b} \ {0},
           KnownInv', CallInv', PlaceInv', CacheInv', ~ni.protected
    PROVE  Safe'
  <1>1. ni' = r /\ pc' = "write" /\ wr'.for = for
    BY WriteStarted
  <1>2. Running' /\ Writing' /\ pc' # "written" /\ pc' # "erase" /\ pc' # "repair"
    BY <1>1 DEF Running, Writing
  <1>3. FitInv' /\ Same
    BY <1>1, <1>2, GoingFits
  <1>4. ni'.main = a /\ ni'.backup = b /\ ni'.protected = ni.protected
    BY <1>1 DEF Carry
  <1>5. UseInv'
    BY <1>1, <1>2, <1>3, <1>4 DEF UseInv, InUse, Same
  <1>6. RestInv' /\ EraseInv' /\ WriteInv'
    BY <1>1, <1>4 DEF RestInv, EraseInv, WriteInv
  <1> QED
    BY <1>2, <1>3, <1>5, <1>6, RunningSafe

\* The blocks between the tables are going to be erased.
LEMMA StartEraseSafe ==
    ASSUME TypeInv, Shape, Safe, Running, NEW r, NEW a, NEW b, Carry(r, ni, a, b),
           NEW ba, NEW lim, StartErase(r, ba, lim), Going, a # 0,
           Tables = IF wr.for = "rescue next" THEN {a, wr.ba} ELSE {a, b},
           b = 0 <=> wr.for = "rescue next",
           wr.for \in {"rebuild backup", "rescue front", "rescue next"},
           CallInv, Current, ~ni.protected, \A c \in Tables : c < ba \/ lim <= c
    PROVE  Safe'
  <1>1. /\ ni' = r /\ pc' = "erase" /\ wr'.ba = ba /\ wr'.lim = lim
        /\ wr'.tmp = wr.ba /\ wr'.for = wr.for
    BY EraseStarted
  <1>2. Running' /\ ~Writing' /\ pc' # "written" /\ pc' # "repair" /\ pc' # "write"
    BY <1>1 DEF Running, Writing
  <1>3. UNCHANGED <<flash, marks, saved, faults, req>> /\ req.update # "unmap"
    BY DEF Going, Memory, chip, Safe, FitInv
  <1>4. FitInv' /\ Same
    BY <1>1, <1>2, <1>3, GoingFits
  <1>5. ni'.main = a /\ ni'.backup = b /\ ni'.protected = ni.protected /\ ni'.map = ni.map
    BY <1>1 DEF Carry
  <1>6. UseInv'
    <2>1. CASE wr.for = "rescue next"
      <3> QED
        BY <1>1, <1>2, <1>4, <1>5, <2>1 DEF UseInv, InUse, Same
    <2>2. CASE wr.for # "rescue next"
      BY <1>1, <1>2, <1>4, <1>5, <2>2 DEF UseInv, InUse, Same
    <2> QED
      BY <2>1, <2>2
  <1>7. Current'
    BY <1>4, <1>5 DEF Current, Same
  <1>8. KnownInv'
    BY <1>3, <1>5, <1>7 DEF KnownInv, Known, Current
  <1>9. RestInv' /\ WriteInv'
    BY <1>1, <1>2 DEF RestInv, WriteInv
  <1>10. EraseInv'
    <2>1. CallInv'
      BY <1>1, <1>3, <1>5 DEF CallInv
    <2> QED
      BY <1>1, <1>4, <1>5, <1>7, <2>1 DEF EraseInv, Same
  <1> QED
    BY <1>2, <1>3, <1>4, <1>6, <1>8, <1>9, <1>10, RunningSafe

\* A table has been written.
LEMMA AfterWrite ==
    ASSUME TypeInv, Shape, Placement, Safe, pc = "written"
    PROVE  /\ Running /\ ~ni.protected /\ CallInv /\ PlaceInv /\ CacheInv
           /\ wr.ba \in Blocks /\ wr.ba + 1 \in Blocks /\ wr.ba # 0
           /\ Tables = ({ni.main, ni.backup} \ {0}) \cup {wr.ba}
           /\ (ni.main = 0) <=> (wr.for = "rebuild main")
           /\ ni.main = 0 => ni.backup = 0
           /\ wr.for # "once backup" => Current
           /\ ni \in Instance /\ ni.main \in Blocks /\ ni.backup \in Blocks
  <1>1. Running /\ Writing /\ pc # "erase"
    BY DEF Running, Writing
  <1>2. ~ni.protected /\ CallInv /\ PlaceInv /\ CacheInv
    BY <1>1 DEF Safe, WriteInv
  <1>3. /\ Tables = ({ni.main, ni.backup} \ {0}) \cup {wr.ba}
        /\ (ni.main = 0) <=> (wr.for = "rebuild main")
        /\ ni.main = 0 => ni.backup = 0
    BY <1>1 DEF Safe, UseInv, InUse
  <1>4. wr.ba \in Blocks /\ wr.ba + 1 \in Blocks /\ ni \in Instance
    BY StepTypes
  <1>5. wr.ba # 0
    <2>1. wr.ba \in Tables
      BY <1>3
    <2>2. MgmtStart <= wr.ba /\ wr.ba \in Int
      BY <1>1, <2>1, TablePlaces
    <2> QED
      BY <2>2, ShapeFields
  <1>6. ASSUME wr.for # "once backup" PROVE Current
    <2>1. flash[wr.ba].map = ni.map
      BY <1>2 DEF CacheInv
    <2>2. wr.for = "once main" => wr.ba = ni.main
      BY <1>2 DEF PlaceInv
    <2> QED
      BY <1>2, <1>6, <2>1, <2>2 DEF Current, CacheInv
  <1> QED
    BY <1>1, <1>2, <1>3, <1>4, <1>5, <1>6, InstanceFields

\* There was no block left.
LEMMA AfterFull ==
    ASSUME TypeInv, Shape, Placement, Safe, pc = "full"
    PROVE  /\ Running /\ ~ni.protected /\ CallInv /\ PlaceInv /\ CacheInv /\ Current
           /\ Tables = {ni.main} \ {0} /\ ni.backup = 0
           /\ wr.for \in {"rebuild main", "rebuild backup", "rescue front", "rescue next"}
           /\ (ni.main = 0) <=> (wr.for = "rebuild main")
           /\ ni \in Instance /\ ni.main \in Blocks
  <1>1. Running /\ Writing /\ pc # "erase" /\ pc # "written"
    BY DEF Running, Writing
  <1>2. ~ni.protected /\ CallInv /\ PlaceInv /\ CacheInv
    BY <1>1 DEF Safe, WriteInv
  <1>3. /\ Tables = {ni.main, ni.backup} \ {0}
        /\ (ni.main = 0) <=> (wr.for = "rebuild main")
        /\ ni.main = 0 => ni.backup = 0
    BY <1>1 DEF Safe, UseInv, InUse
  <1>4. wr.for \in {"rebuild main", "rebuild backup", "rescue front", "rescue next"}
    BY <1>2 DEF PlaceInv
  <1>5. ni.backup = 0
    BY <1>2, <1>3, <1>4 DEF PlaceInv
  <1>6. Current
    BY <1>2, <1>4 DEF Current, CacheInv
  <1> QED
    BY <1>1, <1>2, <1>3, <1>4, <1>5, <1>6, StepTypes, InstanceFields

\* The only table is stored, now the other one is written.
LEMMA OnwardSafe ==
    ASSUME TypeInv, Shape, Safe, Running, NEW r, NEW a, NEW b, Carry(r, ni, a, b),
           NEW ba, NEW lim, NEW for \in {"rebuild backup", "rescue next"},
           StartWrite(r, ba, lim, for), Going, a # 0, b = 0, Tables = {a},
           Current, CacheInv, ~ni.protected,
           for = "rebuild backup" => req.table = "create" /\ req.op = "none" /\ saved = {},
           for = "rescue next" => req.table = "load" /\ saved = {ni.map}
    PROVE  Safe'
  <1>1. ni' = r /\ pc' = "write" /\ wr'.for = for
    BY WriteStarted
  <1>2. UNCHANGED <<flash, marks, saved, faults, req>> /\ req.update # "unmap"
    BY DEF Going, Memory, chip, Safe, FitInv
  <1>3. /\ ni'.main = a /\ ni'.backup = b /\ ni'.protected = ni.protected /\ ni'.map = ni.map
        /\ ni'.cache = ni.cache /\ ni'.count = ni.count /\ ni'.bad = ni.bad
    BY <1>1 DEF Carry
  <1>4. Same /\ \A c \in Tables' : flash'[c].map = ni'.map
    BY <1>2, <1>3, NoBlock DEF Current, Same
  <1>5. KnownInv'
    BY <1>3, <1>4 DEF KnownInv, Known
  <1>6. CallInv' /\ PlaceInv'
    BY <1>1, <1>2, <1>3 DEF CallInv, PlaceInv
  <1>7. CacheInv'
    <2>1. \A c \in Tables' : /\ flash'[c].bad \subseteq ni'.cache.bad
                             /\ flash'[c].count = ni'.cache.count => flash'[c] = ni'.cache
      BY <1>3, <1>4 DEF CacheInv, Same
    <2> QED
      BY <1>1, <1>3, <1>4, <2>1 DEF CacheInv
  <1>8. Tables = {a, b} \ {0} /\ for # "rebuild main" /\ req'.op = req.op
        /\ req'.old = req.old /\ req'.update # "unmap"
    BY <1>2
  <1> QED
    BY <1>2, <1>5, <1>6, <1>7, <1>8, StartWriteSafe

\* nmbm_rebuild_info_table.
LEMMA RebuildMainWrittenSafe ==
    ASSUME TypeInv, Shape, Placement, Safe, RebuildMainWritten
    PROVE  Safe'
  <1> DEFINE n == Clean([ni EXCEPT !.main = wr.ba, !.next = wr.ba + 1])
  <1>1. pc = "written" /\ wr.for = "rebuild main"
    BY DEF RebuildMainWritten, Written
  <1>2. /\ Running /\ ~ni.protected /\ CallInv /\ CacheInv /\ Current /\ ni.backup = 0
        /\ wr.ba # 0 /\ wr.ba \in Blocks /\ wr.ba + 1 \in Blocks /\ ni \in Instance
        /\ Tables = {wr.ba}
    BY <1>1, AfterWrite
  <1>3. Carry(n, ni, wr.ba, ni.backup)
    <2> DEFINE a == wr.ba
               c == wr.ba + 1
    <2>1. a \in Blocks /\ c \in Blocks
      BY <1>2
    <2> HIDE DEF a, c
    <2>2. Carry([ni EXCEPT !.main = a, !.next = c], ni, a, ni.backup)
      BY <1>2, <2>1, Carries
    <2>3. Carry(Clean([ni EXCEPT !.main = a, !.next = c]), ni, a, ni.backup)
      BY <2>2, CarriesClean
    <2> QED
      BY <2>3 DEF a, c
  <1>4. req.table = "create" /\ req.op = "none" /\ saved = {}
    BY <1>1, <1>2 DEF CallInv
  <1>5. \/ Return(n, TRUE)
        \/ \E b : StartWrite(n, b, n.top, "rebuild backup") /\ Going
    BY DEF RebuildMainWritten
  <1> HIDE DEF n
  <1>6. CASE Return(n, TRUE)
    <2>1. pc \in TablePCs /\ Tables = {wr.ba, ni.backup} \ {0}
      BY <1>1, <1>2 DEF TablePCs
    <2> QED
      BY <1>2, <1>3, <1>4, <1>6, <2>1, ReturnSafe
  <1>7. ASSUME NEW b, StartWrite(n, b, n.top, "rebuild backup"), Going
        PROVE  Safe'
    BY <1>2, <1>3, <1>4, <1>7, OnwardSafe
  <1> QED
    BY <1>5, <1>6, <1>7

\* Nothing could be written: the chip cannot be used.
LEMMA RebuildMainFullSafe ==
    ASSUME TypeInv, Shape, Placement, Safe, RebuildMainFull
    PROVE  Safe'
  <1>1. pc = "full" /\ wr.for = "rebuild main" /\ Return([ni EXCEPT !.protected = TRUE], FALSE)
    BY DEF RebuildMainFull, Full
  <1>2. CallInv /\ Tables = {} /\ Running
    BY <1>1, AfterFull
  <1>3. req.table = "create"
    BY <1>1, <1>2 DEF CallInv
  <1>4. pc' = "dead" /\ UNCHANGED <<flash, marks, faults, saved, req>>
    BY <1>1, <1>3 DEF Return, TableReturn, Memory, chip
  <1>5. Same
    BY <1>4, NoBlock
  <1>6. Tables' = {}
    BY <1>2, <1>5 DEF Same
  <1>7. Signatures' # {}
    <2>1. Signatures # {}
      BY <1>2 DEF Safe, FitInv, IsSig
    <2> QED
      BY <1>4, <2>1 DEF Signatures
  <1>8. Aged' /\ Present'
    BY <1>4, <1>5, <1>7, AgedSame, PresentSame DEF Safe
  <1>9. ~Running' /\ ~Writing' /\ pc' # "erase" /\ pc' # "off" /\ pc' # "signature"
    BY <1>4 DEF Running, Writing
  <1> QED
    BY <1>4, <1>6, <1>8, <1>9 DEF Safe, OffInv, DeadInv, FitInv, UseInv, KnownInv, RestInv,
       WriteInv, EraseInv

\* The backup table is written behind the main table.
LEMMA RebuildBackupWrittenSafe ==
    ASSUME TypeInv, Shape, Placement, Safe, RebuildBackupWritten
    PROVE  Safe'
  <1> DEFINE n == [ni EXCEPT !.backup = wr.ba, !.next = wr.ba + 1]
             lo == ni.main + 1
             hi == wr.ba
  <1>1. pc = "written" /\ wr.for = "rebuild backup" /\ StartErase(n, lo, hi) /\ Going
    BY DEF RebuildBackupWritten, Written
  <1>2. /\ Running /\ ~ni.protected /\ CallInv /\ CacheInv /\ Current /\ PlaceInv
        /\ wr.ba # 0 /\ wr.ba \in Blocks /\ wr.ba + 1 \in Blocks /\ ni \in Instance
        /\ ni.main # 0 /\ Tables = ({ni.main, ni.backup} \ {0}) \cup {wr.ba}
    BY <1>1, AfterWrite
  <1>3. Tables = {ni.main, wr.ba}
    <2>1. ni.backup = 0
      BY <1>1, <1>2 DEF PlaceInv
    <2> QED
      BY <1>2, <2>1
  <1>4. Carry(n, ni, ni.main, wr.ba)
    <2> DEFINE a == wr.ba
               c == wr.ba + 1
    <2>1. a \in Blocks /\ c \in Blocks
      BY <1>2
    <2> HIDE DEF a, c
    <2>2. Carry([ni EXCEPT !.backup = a, !.next = c], ni, ni.main, a)
      BY <1>2, <2>1, Carries
    <2> QED
      BY <2>2 DEF a, c
  <1>5. \A c \in Tables : c < lo \/ hi <= c
    <2>1. ni.main \in Int /\ wr.ba \in Int
      BY ShapeFields
    <2>2. ni.main < ni.main + 1 /\ wr.ba <= wr.ba
      BY <2>1
    <2> QED
      BY <1>3, <2>2
  <1> HIDE DEF n, lo, hi
  <1> QED
    BY <1>1, <1>2, <1>3, <1>4, <1>5, StartEraseSafe

\* There is no room for it.
LEMMA RebuildBackupFullSafe ==
    ASSUME TypeInv, Shape, Placement, Safe, RebuildBackupFull
    PROVE  Safe'
  <1>1. pc = "full" /\ wr.for = "rebuild backup" /\ Return(ni, TRUE) /\ pc \in TablePCs
    BY DEF RebuildBackupFull, Full, TablePCs
  <1>2. /\ ~ni.protected /\ CallInv /\ Current /\ ni \in Instance /\ ni.main # 0
        /\ ni.main \in Blocks /\ ni.backup = 0 /\ Tables = {ni.main} \ {0}
    BY <1>1, AfterFull
  <1>3. req.table = "create" /\ req.op = "none" /\ saved = {}
    BY <1>1, <1>2 DEF CallInv
  <1>4. Carry(ni, ni, ni.main, ni.backup)
    BY <1>2, Carries
  <1>5. Tables = {ni.main, ni.backup} \ {0}
    BY <1>2
  <1> QED
    BY <1>1, <1>2, <1>3, <1>4, <1>5, ReturnSafe

\* nmbm_rescue_single_info_table: the table in front of the other one is written.
LEMMA RescueFrontWrittenSafe ==
    ASSUME TypeInv, Shape, Placement, Safe, RescueFrontWritten
    PROVE  Safe'
  <1> DEFINE n == Clean([ni EXCEPT !.backup = ni.main, !.main = wr.ba])
             lo == wr.ba + 1
             hi == ni.main
  <1>1. pc = "written" /\ wr.for = "rescue front" /\ StartErase(n, lo, hi) /\ Going
    BY DEF RescueFrontWritten, Written
  <1>2. /\ Running /\ ~ni.protected /\ CallInv /\ Current /\ PlaceInv
        /\ wr.ba # 0 /\ wr.ba \in Blocks /\ ni \in Instance /\ ni.main \in Blocks
        /\ ni.main # 0 /\ Tables = ({ni.main, ni.backup} \ {0}) \cup {wr.ba}
    BY <1>1, AfterWrite
  <1>3. Tables = {wr.ba, ni.main}
    <2>1. ni.backup = 0
      BY <1>1, <1>2 DEF PlaceInv
    <2> QED
      BY <1>2, <2>1
  <1>4. Carry(n, ni, wr.ba, ni.main)
    <2> DEFINE a == ni.main
               c == wr.ba
    <2>1. a \in Blocks /\ c \in Blocks
      BY <1>2
    <2> HIDE DEF a, c
    <2>2. Carry([ni EXCEPT !.backup = a, !.main = c], ni, c, a)
      BY <1>2, <2>1, Carries
    <2>3. Carry(Clean([ni EXCEPT !.backup = a, !.main = c]), ni, c, a)
      BY <2>2, CarriesClean
    <2> QED
      BY <2>3 DEF a, c
  <1>5. \A c \in Tables : c < lo \/ hi <= c
    <2>1. ni.main \in Int /\ wr.ba \in Int
      BY ShapeFields
    <2>2. wr.ba < wr.ba + 1 /\ ni.main <= ni.main
      BY <2>1
    <2> QED
      BY <1>3, <2>2
  <1> HIDE DEF n, lo, hi
  <1> QED
    BY <1>1, <1>2, <1>3, <1>4, <1>5, StartEraseSafe

\* A write behind the only table, or none: what both have in common.
LEMMA RescueFull ==
    ASSUME TypeInv, Shape, Placement, Safe, pc = "full", wr.for \in {"rescue front", "rescue next"}
    PROVE  /\ Running /\ ~ni.protected /\ Current /\ CacheInv /\ pc \in TablePCs
           /\ req.table = "load" /\ saved = {ni.map} /\ Carry(ni, ni, ni.main, ni.backup)
           /\ ni.main # 0 /\ ni.backup = 0 /\ Tables = {ni.main}
           /\ Tables = {ni.main, ni.backup} \ {0}
  <1>1. /\ Running /\ ~ni.protected /\ CallInv /\ CacheInv /\ Current /\ ni \in Instance
        /\ ni.main # 0 /\ ni.main \in Blocks /\ ni.backup = 0 /\ Tables = {ni.main} \ {0}
    BY AfterFull
  <1>2. req.table = "load" /\ saved = {ni.map}
    BY <1>1 DEF CallInv
  <1>3. Carry(ni, ni, ni.main, ni.backup)
    BY <1>1, Carries
  <1>4. Tables = {ni.main, ni.backup} \ {0} /\ Tables = {ni.main}
    BY <1>1
  <1> QED
    BY <1>1, <1>2, <1>3, <1>4 DEF TablePCs

\* There is no room in front of it.
LEMMA RescueFrontFullSafe ==
    ASSUME TypeInv, Shape, Placement, Safe, RescueFrontFull
    PROVE  Safe'
  <1>1. pc = "full" /\ wr.for = "rescue front"
    BY DEF RescueFrontFull, Full
  <1>2. \/ Return(ni, FALSE)
        \/ \E b : StartWrite(ni, b, ni.top, "rescue next") /\ Going
    BY DEF RescueFrontFull
  <1>3. CASE Return(ni, FALSE)
    BY <1>1, <1>3, RescueFull, ReturnSafe
  <1>4. ASSUME NEW b, StartWrite(ni, b, ni.top, "rescue next"), Going
        PROVE  Safe'
    BY <1>1, <1>4, RescueFull, OnwardSafe
  <1> QED
    BY <1>2, <1>3, <1>4

\* Behind it the write is tried again one block earlier.
LEMMA RescueNextEarlierSafe ==
    ASSUME TypeInv, Shape, Placement, Safe, RescueNextEarlier
    PROVE  Safe'
  <1>1. /\ pc = "full" /\ wr.for = "rescue next"
        /\ StartWrite(ni, wr.from - 1, ni.top, "rescue next") /\ Going
    BY DEF RescueNextEarlier, Earlier, Full
  <1> QED
    BY <1>1, RescueFull, OnwardSafe

\* There is no room behind it either.
LEMMA RescueNextFullSafe ==
    ASSUME TypeInv, Shape, Placement, Safe, RescueNextFull
    PROVE  Safe'
  <1>1. pc = "full" /\ wr.for = "rescue next" /\ Return(ni, FALSE)
    BY DEF RescueNextFull, Full
  <1> QED
    BY <1>1, RescueFull, ReturnSafe

\* The table behind the only one is written.
LEMMA RescueNextWrittenSafe ==
    ASSUME TypeInv, Shape, Placement, Safe, RescueNextWritten
    PROVE  Safe'
  <1>1. pc = "written" /\ wr.for = "rescue next" /\ StartErase(ni, ni.next, wr.ba) /\ Going
    BY DEF RescueNextWritten, Written
  <1>2. /\ Running /\ ~ni.protected /\ CallInv /\ Current /\ PlaceInv /\ ni \in Instance
        /\ ni.main \in Blocks /\ wr.ba # 0
        /\ ni.main # 0 /\ Tables = ({ni.main, ni.backup} \ {0}) \cup {wr.ba}
    BY <1>1, AfterWrite
  <1>3. ni.backup = 0 /\ Tables = {ni.main, wr.ba}
    <2>1. ni.backup = 0
      BY <1>1, <1>2 DEF PlaceInv
    <2> QED
      BY <1>2, <2>1
  <1>4. Carry(ni, ni, ni.main, ni.backup)
    BY <1>2, Carries
  <1>5. \A c \in Tables : c < ni.next \/ wr.ba <= c
    <2>1. TablesBelowPool(ni)
      BY <1>1, WhileWriting
    <2>2. ni.main < ni.next
      BY <1>2, <2>1 DEF TablesBelowPool
    <2>3. wr.ba <= wr.ba
      BY ShapeFields
    <2> QED
      BY <1>3, <2>2, <2>3
  <1> DEFINE hi == wr.ba
             lo == ni.next
  <1>6. StartErase(ni, lo, hi) /\ \A c \in Tables : c < lo \/ hi <= c
    BY <1>1, <1>5
  <1> HIDE DEF hi, lo
  <1> QED
    BY <1>1, <1>2, <1>3, <1>4, <1>6, StartEraseSafe

\* The blocks between the tables are erased.
LEMMA EraseEndsSafe ==
    ASSUME TypeInv, Shape, Placement, Safe, EraseEnds
    PROVE  Safe'
  <1>1. pc = "erase" /\ pc \in TablePCs
    BY DEF EraseEnds, TablePCs
  <1>2. Running /\ ~Writing /\ pc # "written"
    BY <1>1 DEF Running, Writing
  <1>3. /\ ~ni.protected /\ CallInv /\ Current
        /\ wr.for \in {"rebuild backup", "rescue front", "rescue next"}
        /\ wr.for = "rescue next" => ni.backup = 0
    BY <1>1 DEF Safe, EraseInv
  <1>4. /\ req.table = "create" => req.op = "none" /\ saved = {}
        /\ req.table = "load" => saved = {ni.map}
    <2>1. CASE wr.for = "rebuild backup"
      BY <1>3, <2>1 DEF CallInv
    <2>2. CASE wr.for \in {"rescue front", "rescue next"}
      BY <1>3, <2>2 DEF CallInv
    <2> QED
      BY <1>3, <2>1, <2>2
  <1>5. ni \in Instance /\ ni.main \in Blocks /\ wr.tmp \in Blocks /\ ni.main # 0
    BY <1>2, StepTypes, InstanceFields DEF Safe, UseInv
  <1>6. CASE wr.for # "rescue next"
    <2>1. Return(ni, TRUE)
      BY <1>6 DEF EraseEnds
    <2>2. Tables = {ni.main, ni.backup} \ {0}
      BY <1>1, <1>2, <1>6 DEF Safe, UseInv, InUse
    <2>3. Carry(ni, ni, ni.main, ni.backup)
      BY <1>5, Carries
    <2> QED
      BY <1>1, <1>3, <1>4, <1>5, <2>1, <2>2, <2>3, ReturnSafe
  <1>7. CASE wr.for = "rescue next"
    <2> DEFINE n == Clean([ni EXCEPT !.backup = wr.tmp, !.next = wr.tmp + 1])
    <2>1. Return(n, TRUE)
      BY <1>7 DEF EraseEnds
    <2>2. wr.tmp + 1 \in Blocks
      BY <1>1, <1>7 DEF TypeInv, StepType
    <2>3. wr.tmp # 0 /\ Tables = {ni.main, wr.tmp} \ {0}
      <3>1. Tables = ({ni.main, ni.backup} \ {0}) \cup {wr.tmp}
        BY <1>1, <1>2, <1>7 DEF Safe, UseInv, InUse
      <3>2. MgmtStart <= wr.tmp /\ wr.tmp \in Int
        BY <1>2, <3>1, TablePlaces
      <3>3. wr.tmp # 0
        BY <3>2, ShapeFields
      <3> QED
        BY <1>3, <1>7, <3>1, <3>3
    <2>4. Carry(n, ni, ni.main, wr.tmp)
      <3> DEFINE a == wr.tmp
                 c == wr.tmp + 1
      <3>1. a \in Blocks /\ c \in Blocks
        BY <1>5, <2>2
      <3> HIDE DEF a, c
      <3>2. Carry([ni EXCEPT !.backup = a, !.next = c], ni, ni.main, a)
        BY <1>5, <3>1, Carries
      <3>3. Carry(Clean([ni EXCEPT !.backup = a, !.next = c]), ni, ni.main, a)
        BY <3>2, CarriesClean
      <3> QED
        BY <3>3 DEF a, c
    <2> HIDE DEF n
    <2> QED
      BY <1>1, <1>3, <1>4, <1>5, <2>1, <2>3, <2>4, ReturnSafe
  <1> QED
    BY <1>6, <1>7

\* nmbm_update_single_info_table.
LEMMA SingleSafe ==
    ASSUME TypeInv, Shape, Placement, Safe,
           SingleMainWritten \/ SingleMainFull \/ SingleBackupWritten \/ SingleBackupFull
    PROVE  Safe'
  <1>1. CASE SingleMainWritten
    <2> DEFINE n == Clean([ni EXCEPT !.main = wr.ba])
    <2>1. pc = "written" /\ wr.for = "single main" /\ Return(n, TRUE) /\ pc \in TablePCs
      BY <1>1 DEF SingleMainWritten, Written, TablePCs
    <2>2. /\ ~ni.protected /\ CallInv /\ Current /\ PlaceInv /\ ni \in Instance
          /\ wr.ba # 0 /\ wr.ba \in Blocks
          /\ Tables = ({ni.main, ni.backup} \ {0}) \cup {wr.ba}
      BY <2>1, AfterWrite
    <2>3. wr.ba = ni.main /\ req.table = "load" /\ saved = {ni.map}
      BY <2>1, <2>2 DEF PlaceInv, CallInv
    <2>4. Tables = {wr.ba, ni.backup} \ {0}
      BY <2>2, <2>3
    <2>5. Carry(n, ni, wr.ba, ni.backup)
      <3> DEFINE a == wr.ba
      <3>1. a \in Blocks
        BY <2>2
      <3> HIDE DEF a
      <3>2. Carry([ni EXCEPT !.main = a], ni, a, ni.backup)
        BY <2>2, <3>1, Carries
      <3>3. Carry(Clean([ni EXCEPT !.main = a]), ni, a, ni.backup)
        BY <3>2, CarriesClean
      <3> QED
        BY <3>3 DEF a
    <2> HIDE DEF n
    <2> QED
      BY <2>1, <2>2, <2>3, <2>4, <2>5, ReturnSafe
  <1>2. CASE SingleBackupWritten
    <2> DEFINE n == Clean([ni EXCEPT !.backup = wr.ba, !.next = wr.ba + 1])
    <2>1. pc = "written" /\ wr.for = "single backup" /\ Return(n, TRUE) /\ pc \in TablePCs
      BY <1>2 DEF SingleBackupWritten, Written, TablePCs
    <2>2. /\ ~ni.protected /\ CallInv /\ Current /\ PlaceInv /\ ni \in Instance
          /\ wr.ba # 0 /\ wr.ba \in Blocks /\ wr.ba + 1 \in Blocks /\ ni.main # 0
          /\ Tables = ({ni.main, ni.backup} \ {0}) \cup {wr.ba}
      BY <2>1, AfterWrite
    <2>3. wr.ba = ni.backup /\ req.table = "load" /\ saved = {ni.map}
      BY <2>1, <2>2 DEF PlaceInv, CallInv
    <2>4. Tables = {ni.main, wr.ba} \ {0}
      BY <2>2, <2>3
    <2>5. Carry(n, ni, ni.main, wr.ba)
      <3> DEFINE a == wr.ba
                 c == wr.ba + 1
      <3>1. a \in Blocks /\ c \in Blocks
        BY <2>2
      <3> HIDE DEF a, c
      <3>2. Carry([ni EXCEPT !.backup = a, !.next = c], ni, ni.main, a)
        BY <2>2, <3>1, Carries
      <3>3. Carry(Clean([ni EXCEPT !.backup = a, !.next = c]), ni, ni.main, a)
        BY <3>2, CarriesClean
      <3> QED
        BY <3>3 DEF a, c
    <2> HIDE DEF n
    <2> QED
      BY <2>1, <2>2, <2>3, <2>4, <2>5, ReturnSafe
  <1>3. CASE SingleMainFull \/ SingleBackupFull
    <2>1. pc = "full" /\ wr.for \in {"single main", "single backup"}
      BY <1>3 DEF SingleMainFull, SingleBackupFull, Full
    <2> QED
      BY <2>1, AfterFull
  <1> QED
    BY <1>1, <1>2, <1>3

\* nmbm_update_info_table_once: the backup table is written.
LEMMA OnceBackupWrittenSafe ==
    ASSUME TypeInv, Shape, Placement, Safe, OnceBackupWritten
    PROVE  Safe'
  <1> DEFINE n == Clean([ni EXCEPT !.backup = wr.ba, !.next = wr.ba + 1])
             hi == wr.ba
  <1>1. pc = "written" /\ wr.for = "once backup" /\ WriteMain(n, hi) /\ Going
    BY DEF OnceBackupWritten, Written
  <1>2. /\ Running /\ ~ni.protected /\ CallInv /\ CacheInv /\ PlaceInv /\ ni \in Instance
        /\ wr.ba # 0 /\ wr.ba \in Blocks /\ wr.ba + 1 \in Blocks /\ ni.main # 0
        /\ Tables = ({ni.main, ni.backup} \ {0}) \cup {wr.ba}
    BY <1>1, AfterWrite
  <1>3. wr.ba = ni.backup /\ req.table = "update"
    BY <1>1, <1>2 DEF PlaceInv, CallInv
  <1>4. Tables = {ni.main, wr.ba} \ {0} /\ Tables = {ni.main, wr.ba}
    BY <1>2, <1>3
  <1>5. Carry(n, ni, ni.main, wr.ba)
    <2> DEFINE a == wr.ba
               c == wr.ba + 1
    <2>1. a \in Blocks /\ c \in Blocks
      BY <1>2
    <2> HIDE DEF a, c
    <2>2. Carry([ni EXCEPT !.backup = a, !.next = c], ni, ni.main, a)
      BY <1>2, <2>1, Carries
    <2>3. Carry(Clean([ni EXCEPT !.backup = a, !.next = c]), ni, ni.main, a)
      BY <2>2, CarriesClean
    <2> QED
      BY <2>3 DEF a, c
  <1> HIDE DEF n, hi
  <1>6. /\ n.main = ni.main /\ n.backup = wr.ba /\ n.protected = ni.protected /\ n.map = ni.map
        /\ n.cache = ni.cache /\ n.count = ni.count /\ n.bad = ni.bad
    BY <1>5 DEF Carry
  <1>7. StartWrite(n, ni.main, hi, "once main")
    BY <1>1, <1>2, <1>6 DEF WriteMain
  <1>8. ni' = n /\ pc' = "write" /\ wr'.for = "once main" /\ wr'.ba = ni.main
    BY <1>7, WriteStarted
  <1>9. UNCHANGED <<flash, marks, saved, faults, req>> /\ req.update # "unmap"
    BY <1>1, <1>2 DEF Going, Memory, chip, Safe, FitInv
  <1>10. Same
    BY <1>9, NoBlock
  <1>11. KnownInv'
    <2>1. \A b \in Tables : Known(b)
      BY <1>1, <1>2 DEF Safe, KnownInv, Outdated
    <2>2. \A b \in Tables' : Known(b)'
      BY <1>6, <1>8, <1>9, <1>10, <2>1 DEF Known, Same
    <2> QED
      BY <2>2 DEF KnownInv
  <1>12. CallInv' /\ PlaceInv'
    BY <1>3, <1>6, <1>8, <1>9 DEF CallInv, PlaceInv
  <1>13. CacheInv'
    <2>1. \A b \in Tables' : /\ flash'[b].bad \subseteq ni'.cache.bad
                             /\ flash'[b].count = ni'.cache.count => flash'[b] = ni'.cache
      BY <1>2, <1>6, <1>8, <1>10 DEF CacheInv, Same
    <2>2. \A b \in Tables' : flash'[b].map = ni'.map \/ b = ni'.main
      <3>1. flash[wr.ba].map = ni.map
        BY <1>1, <1>2 DEF CacheInv
      <3> QED
        BY <1>4, <1>6, <1>8, <1>10, <3>1 DEF Same
    <2> QED
      BY <1>2, <1>6, <1>8, <2>1, <2>2 DEF CacheInv
  <1>14. req'.op = req.op /\ req'.old = req.old /\ req'.update # "unmap"
    BY <1>9
  <1> DEFINE for == "once main"
  <1>15. for # "rebuild main" /\ StartWrite(n, ni.main, hi, for)
    BY <1>7
  <1> HIDE DEF for
  <1> QED
    BY <1>2, <1>4, <1>5, <1>9, <1>11, <1>12, <1>13, <1>14, <1>15, StartWriteSafe

\* The main table is written.
LEMMA OnceMainWrittenSafe ==
    ASSUME TypeInv, Shape, Placement, Safe, OnceMainWritten
    PROVE  Safe'
  <1> DEFINE c == IF ni.backup = 0 THEN wr.ba + 1 ELSE ni.next
             n == Clean([ni EXCEPT !.main = wr.ba, !.next = c])
  <1>1. pc = "written" /\ wr.for = "once main" /\ Return(n, TRUE) /\ pc \in TablePCs
    BY DEF OnceMainWritten, Written, TablePCs
  <1>2. /\ ~ni.protected /\ CallInv /\ Current /\ PlaceInv /\ ni \in Instance
        /\ wr.ba # 0 /\ wr.ba \in Blocks /\ wr.ba + 1 \in Blocks
        /\ Tables = ({ni.main, ni.backup} \ {0}) \cup {wr.ba}
    BY <1>1, AfterWrite
  <1>3. wr.ba = ni.main /\ req.table = "update"
    BY <1>1, <1>2 DEF PlaceInv, CallInv
  <1>4. Tables = {wr.ba, ni.backup} \ {0}
    BY <1>2, <1>3
  <1>5. c \in Blocks
    BY <1>2, InstanceFields
  <1> HIDE DEF c
  <1>6. Carry(n, ni, wr.ba, ni.backup)
    <2> DEFINE a == wr.ba
    <2>1. a \in Blocks
      BY <1>2
    <2> HIDE DEF a
    <2>2. Carry([ni EXCEPT !.main = a, !.next = c], ni, a, ni.backup)
      BY <1>2, <1>5, <2>1, Carries
    <2>3. Carry(Clean([ni EXCEPT !.main = a, !.next = c]), ni, a, ni.backup)
      BY <2>2, CarriesClean
    <2> QED
      BY <2>3 DEF a
  <1> HIDE DEF n
  <1> QED
    BY <1>1, <1>2, <1>3, <1>4, <1>6, ReturnSafe

\* As long as no write of a table fails, no block has to be looked for.
LEMMA NoOtherSteps ==
    ASSUME TypeInv, Shape, Placement, Safe,
           \/ OnceBackupFull \/ OnceMainFull \/ TemporaryEarlier \/ TemporaryFull
           \/ TemporaryWritten \/ MainAgainWritten \/ MainAgainFull
    PROVE  FALSE
  <1>1. CASE \/ OnceBackupFull \/ OnceMainFull \/ TemporaryEarlier \/ TemporaryFull
             \/ MainAgainFull
    <2>1. pc = "full" /\ wr.for \in {"once backup", "once main", "temporary", "main again"}
      BY <1>1 DEF OnceBackupFull, OnceMainFull, TemporaryEarlier, Earlier, TemporaryFull,
         MainAgainFull, Full
    <2> QED
      BY <2>1, AfterFull
  <1>2. CASE TemporaryWritten \/ MainAgainWritten
    <2>1. pc = "written" /\ wr.for \in {"temporary", "main again"}
      BY <1>2 DEF TemporaryWritten, MainAgainWritten, Written
    <2>2. PlaceInv
      BY <2>1, AfterWrite
    <2> QED
      BY <2>1, <2>2 DEF PlaceInv
  <1> QED
    BY <1>1, <1>2

\* nmbm_generate_info_table_cache of a changed instance.
LEMMA NextCache ==
    ASSUME NEW n \in Instance, n.changed
    PROVE  LET r == nmbm_generate_info_table_cache(n)
           IN  /\ r \in Instance /\ r.map = n.map /\ r.top = n.top /\ r.sig = n.sig
               /\ r.bad = n.bad /\ r.main = n.main /\ r.backup = n.backup
               /\ r.protected = n.protected /\ r.count = n.count + 1
               /\ r.cache.map = n.map /\ r.cache.bad = n.bad /\ r.cache.count = r.count
  <1> DEFINE count == n.count + 1
             t == [kind |-> "table", count |-> count, bad |-> n.bad, map |-> n.map]
             r == [n EXCEPT !.count = count, !.cache = t]
  <1>0. n.count \in Nat
    BY InstanceFields
  <1>1. count \in Nat
    BY <1>0
  <1> HIDE DEF count
  <1>2. /\ t \in Table /\ t.map = n.map /\ t.bad = n.bad /\ t.count = count
    BY <1>1, InstanceFields DEF Table
  <1>3. nmbm_generate_info_table_cache(n) = r
    BY DEF nmbm_generate_info_table_cache, count
  <1> HIDE DEF t
  <1>4. /\ r \in Instance /\ r.map = n.map /\ r.top = n.top /\ r.sig = n.sig
        /\ r.bad = n.bad /\ r.main = n.main /\ r.backup = n.backup
        /\ r.protected = n.protected /\ r.count = count /\ r.cache = t
    BY <1>1, <1>2 DEF Instance
  <1> HIDE DEF r
  <1> QED
    BY <1>2, <1>3, <1>4 DEF count

\* nmbm_update_info_table writes the tables once more.
LEMMA UpdateOnceSafe ==
    ASSUME TypeInv, Shape, Placement, Safe, UpdateOnce
    PROVE  Safe'
  <1> DEFINE n == nmbm_generate_info_table_cache(ni)
  <1>1. /\ pc = "update" /\ ~ni.protected /\ ni.changed /\ nmbm_update_info_table_once(n)
        /\ req' = [req EXCEPT !.table = "update"] /\ UNCHANGED <<flash, marks, saved, faults>>
    BY DEF UpdateOnce, Memory, chip
  <1>2. ni \in Instance /\ req \in Call
    BY StepTypes
  <1>3. /\ n \in Instance /\ n.map = ni.map /\ n.top = ni.top /\ n.sig = ni.sig
        /\ n.bad = ni.bad /\ n.main = ni.main /\ n.backup = ni.backup
        /\ n.protected = ni.protected /\ n.count = ni.count + 1
        /\ n.cache.map = ni.map /\ n.cache.bad = ni.bad /\ n.cache.count = n.count
    BY <1>1, <1>2, NextCache
  <1> HIDE DEF n
  <1>4. /\ Running /\ Tables = {ni.main, ni.backup} \ {0} /\ ni.main # 0 /\ Tables # {}
    <2>1. pc \in Resting
      BY <1>1 DEF Resting
    <2> QED
      BY <2>1, AtRest
  <1>5. /\ ni' = n /\ pc' = "write"
        /\ \/ wr'.for = "once main" /\ wr'.ba = ni.main /\ ni.backup = 0
           \/ wr'.for = "once backup" /\ wr'.ba = ni.backup /\ ni.backup # 0
    <2>1. \/ ni.backup = 0 /\ StartWrite(n, ni.main, n.top, "once main")
          \/ ni.backup # 0 /\ StartWrite(n, ni.backup, n.top, "once backup")
      BY <1>1, <1>3, <1>4 DEF nmbm_update_info_table_once, WriteMain
    <2>2. CASE ni.backup = 0 /\ StartWrite(n, ni.main, n.top, "once main")
      BY <2>2, WriteStarted
    <2>3. CASE ni.backup # 0 /\ StartWrite(n, ni.backup, n.top, "once backup")
      BY <2>3, WriteStarted
    <2> QED
      BY <2>1, <2>2, <2>3
  <1>6. req'.op = req.op /\ req'.old = req.old /\ req'.update = req.update
        /\ req'.table = "update"
    BY <1>1, <1>2 DEF Call
  <1>7. Same
    BY <1>1, NoBlock
  <1>8. Running' /\ Writing' /\ pc' # "written" /\ pc' # "erase" /\ pc' # "repair" /\ pc' # "full"
    BY <1>5 DEF Running, Writing
  <1>9. ni.count \in Int /\ ni'.top <= ni.top /\ ni'.count >= ni.count /\ ni'.count = ni.count + 1
    <2>1. ni.top \in Int
      BY ShapeFields
    <2>2. ni.count \in Nat
      BY <1>2, InstanceFields
    <2>3. ni.count \in Int
      BY <2>2
    <2>4. ni'.top = ni.top /\ ni'.count = ni.count + 1
      BY <1>3, <1>5
    <2> QED
      BY <2>1, <2>3, <2>4
  <1>10. IsSig(ni.sig) /\ req.update # "unmap"
         /\ \A b \in Tables : b \notin marks /\ b \notin ni.bad /\ Fit(flash[b], ni)
    BY <1>4 DEF Safe, FitInv
  <1>11. IsSig(ni.sig)'
    BY <1>1, <1>3, <1>5, <1>10, SignatureSame DEF IsSig
  <1>12. FitInv'
    <2>1. /\ ni' \in Instance /\ ni'.map = ni.map /\ ni'.sig = ni.sig /\ ni.bad \subseteq ni'.bad
          /\ \A b \in Tables : b \notin ni'.bad /\ b \notin marks'
          /\ req'.update # "unmap" /\ req'.op = req.op /\ req'.old = req.old
      BY <1>1, <1>3, <1>5, <1>6, <1>10
    <2> QED
      BY <1>1, <1>4, <1>7, <1>8, <1>9, <1>11, <2>1, FitStays
  <1>13. UseInv'
    BY <1>3, <1>4, <1>5, <1>7, <1>8 DEF UseInv, InUse, Same
  <1>14. KnownInv'
    <2>1. \A b \in Tables : Known(b)
      BY <1>1, <1>4 DEF Safe, KnownInv, Outdated
    <2>2. \A b \in Tables' : Known(b)'
      BY <1>1, <1>3, <1>5, <1>7, <2>1 DEF Known, Same
    <2> QED
      BY <2>2 DEF KnownInv
  <1>15. RestInv' /\ EraseInv'
    BY <1>5 DEF RestInv, EraseInv
  <1>16. CallInv' /\ PlaceInv'
    BY <1>3, <1>5, <1>6, <1>8 DEF CallInv, PlaceInv
  <1>17. CacheInv'
    <2>1. ASSUME NEW b \in Tables
          PROVE  /\ flash[b].bad \subseteq ni'.cache.bad
                 /\ flash[b].count # ni'.cache.count
      <3>1. flash[b].count \in Nat
        BY DEF Tables, Table
      <3>2. flash[b].count \in Int
        BY <3>1
      <3>3. flash[b].count <= ni.count /\ flash[b].bad \subseteq ni.bad
        BY <1>10 DEF Fit
      <3>4. flash[b].count # ni.count + 1
        BY <1>9, <3>2, <3>3
      <3> QED
        BY <1>3, <1>5, <3>3, <3>4
    <2>2. \A b \in Tables' : wr'.for = "once backup" \/ (wr'.for = "once main" /\ b = ni'.main)
      BY <1>3, <1>4, <1>5, <1>7 DEF Same
    <2>3. /\ ni'.cache.map = ni'.map /\ ni'.cache.count = ni'.count
          /\ ni'.cache.bad \subseteq ni'.bad
      BY <1>3, <1>5
    <2> QED
      BY <1>7, <1>8, <2>1, <2>2, <2>3 DEF CacheInv, Same
  <1>18. WriteInv'
    BY <1>1, <1>3, <1>5, <1>16, <1>17 DEF WriteInv
  <1> QED
    BY <1>1, <1>4, <1>7, <1>8, <1>12, <1>13, <1>14, <1>15, <1>18, RunningSafe

\* All the steps of the table functions.
LEMMA TableStepsSafe ==
    ASSUME TypeInv, Shape, Placement, Safe, TableSteps
    PROVE  Safe'
  BY RebuildMainWrittenSafe, RebuildMainFullSafe, RebuildBackupWrittenSafe,
     RebuildBackupFullSafe, RescueFrontWrittenSafe, RescueFrontFullSafe,
     RescueNextWrittenSafe, RescueNextEarlierSafe, RescueNextFullSafe, SingleSafe,
     OnceBackupWrittenSafe, OnceMainWrittenSafe, NoOtherSteps, EraseEndsSafe,
     UpdateEndsSafe, UpdateOnceSafe DEF TableSteps

-----------------------------------------------------------------------------
(* Creating the tables, with no table on the chip *)

\* The instance that nmbm_create_info_table begins with.
LEMMA RebuiltSets ==
    ASSUME NEW n \in Instance, NEW t \in Blocks
    PROVE  LET g == nmbm_generate_info_table_cache([n EXCEPT !.top = t])
               r == [g EXCEPT !.main = 0, !.backup = 0, !.next = g.top]
           IN  /\ r.map = n.map /\ r.sig = n.sig /\ r.main = 0 /\ r.backup = 0
               /\ r.protected = n.protected /\ r.cache.map = r.map
               /\ r.cache.count = r.count /\ r.cache.bad = r.bad
  <1> DEFINE m == [n EXCEPT !.top = t]
             count == IF m.changed THEN m.count + 1 ELSE m.count
             c == [kind |-> "table", count |-> count, bad |-> m.bad, map |-> m.map]
             g == [m EXCEPT !.count = count, !.cache = c]
             u == g.top
             r == [g EXCEPT !.main = 0, !.backup = 0, !.next = u]
  <1>1. m \in Instance /\ m.map = n.map /\ m.sig = n.sig /\ m.protected = n.protected
    BY DEF Instance
  <1> HIDE DEF m
  <1>2. m.count \in Nat /\ m.changed \in BOOLEAN /\ m.bad \subseteq Blocks /\ m.map \in Mapping
    BY <1>1, InstanceFields
  <1>3. count \in Nat
    BY <1>2
  <1>4. nmbm_generate_info_table_cache(m) = g
    BY DEF nmbm_generate_info_table_cache
  <1> HIDE DEF count
  <1>5. c \in Table /\ c.map = m.map /\ c.count = count /\ c.bad = m.bad
    BY <1>2, <1>3 DEF Table
  <1> HIDE DEF c
  <1>6. /\ g \in Instance /\ g.map = m.map /\ g.sig = m.sig /\ g.protected = m.protected
        /\ g.count = count /\ g.cache = c /\ g.bad = m.bad
    BY <1>1, <1>3, <1>5 DEF Instance
  <1> HIDE DEF g
  <1>7. u \in Blocks
    BY <1>6, InstanceFields
  <1> HIDE DEF u
  <1>8. /\ r.map = g.map /\ r.sig = g.sig /\ r.protected = g.protected /\ r.main = 0
        /\ r.backup = 0 /\ r.count = g.count /\ r.cache = g.cache /\ r.bad = g.bad
    BY <1>6, <1>7 DEF Instance
  <1>9. [nmbm_generate_info_table_cache(m) EXCEPT !.main = 0, !.backup = 0,
                                                  !.next = nmbm_generate_info_table_cache(m).top] = r
    BY <1>4 DEF u
  <1> HIDE DEF r
  <1> QED
    BY <1>1, <1>4, <1>5, <1>6, <1>8, <1>9 DEF m

\* nmbm_create_info_table.
LEMMA CreateSafe ==
    ASSUME TypeInv, Shape, NEW n \in Instance, n \in Inst, nmbm_create_info_table(n),
           Tables' = {}, saved' = {}, Aged', OwnPlace(n.map), ~n.protected,
           n.sig \in Signatures' /\ \A y \in Signatures' : y <= n.sig
    PROVE  Safe'
  <1>1. req' = [NoReq EXCEPT !.table = "create"]
    BY DEF nmbm_create_info_table
  <1>2. req'.op = "none" /\ req'.table = "create" /\ req'.update = "none"
    BY <1>1 DEF NoReq
  <1>3. Present'
    BY DEF Present
  <1>4. CASE pc' = "dead"
    <2>1. ~Running' /\ ~Writing' /\ pc' # "erase" /\ pc' # "off" /\ pc' # "signature"
      BY <1>4 DEF Running, Writing
    <2> QED
      BY <1>3, <1>4, <2>1 DEF Safe, OffInv, DeadInv, FitInv, UseInv, KnownInv, RestInv,
         WriteInv, EraseInv
  <1>5. ASSUME NEW t \in SkipDown(Descending(n, n.sig, MgmtStart), 1),
               nmbm_rebuild_info_table(nmbm_generate_info_table_cache([n EXCEPT !.top = t]))
        PROVE  Safe'
    <2> DEFINE g == nmbm_generate_info_table_cache([n EXCEPT !.top = t])
               r == [g EXCEPT !.main = 0, !.backup = 0, !.next = g.top]
    <2>1. t \in Blocks /\ t \in Int /\ MgmtStart < t /\ t < n.sig
      BY <1>5, FirstTop DEF SkipDown, Descending
    <2>2. /\ r.map = n.map /\ r.sig = n.sig /\ r.main = 0 /\ r.backup = 0
          /\ r.protected = n.protected /\ r.cache.map = r.map
          /\ r.cache.count = r.count /\ r.cache.bad = r.bad
      BY <2>1, RebuiltSets
    <2>3. StartWrite(r, MgmtStart, g.top, "rebuild main")
      BY <1>5 DEF nmbm_rebuild_info_table
    <2> HIDE DEF r, g
    <2>4. ni' = r /\ pc' = "write" /\ wr'.for = "rebuild main"
      BY <2>3, WriteStarted
    <2>5. Running' /\ Writing' /\ pc' # "written" /\ pc' # "erase" /\ pc' # "repair"
          /\ pc' # "full" /\ pc' # "off" /\ pc' # "dead" /\ pc' # "signature"
      BY <2>4 DEF Running, Writing
    <2>6. \A lb \in Logical : n.map[lb] < n.sig
      <3> TAKE lb \in Logical
      <3>1. n.sig \in Int /\ MgmtStart \in Int /\ 0 < MgmtStart
        BY InstFields, BlockNumbers
      <3>2. n.map[lb] \in Logical \cup {Unmapped}
        BY DEF OwnPlace
      <3> QED
        BY <2>1, <3>1, <3>2 DEF Logical, Unmapped
    <2>7. FitInv'
      BY <1>2, <2>2, <2>4, <2>5, <2>6 DEF FitInv, IsSig
    <2>8. UseInv'
      BY <2>2, <2>4, <2>5 DEF UseInv, InUse
    <2>9. KnownInv' /\ RestInv' /\ EraseInv' /\ OffInv' /\ DeadInv'
      BY <2>4, <2>5 DEF KnownInv, RestInv, EraseInv, OffInv, DeadInv
    <2>10. CallInv' /\ PlaceInv' /\ CacheInv'
      BY <1>2, <2>2, <2>4, <2>5 DEF CallInv, PlaceInv, CacheInv
    <2>11. WriteInv'
      BY <2>2, <2>4, <2>10 DEF WriteInv
    <2> QED
      BY <1>3, <2>7, <2>8, <2>9, <2>11 DEF Safe
  <1> QED
    BY <1>4, <1>5 DEF nmbm_create_info_table

\* With no table there is no older one.
LEMMA AgedEmpty ==
    ASSUME Tables' = {}
    PROVE  Aged'
  BY DEF Aged

\* nmbm_write_signature writes the signature.
LEMMA SignatureSucceedsSafe ==
    ASSUME TypeInv, Shape, Placement, Safe, SignatureSucceeds
    PROVE  Safe'
  <1> DEFINE b == wr.ba
             n == [ni EXCEPT !.sig = b]
  <1>1. /\ pc = "signature" /\ b > MgmtStart /\ b \notin ni.bad
        /\ flash' = [flash EXCEPT ![b] = Signature] /\ nmbm_create_info_table(n)
        /\ UNCHANGED <<marks, saved, faults>>
    BY DEF SignatureSucceeds, seen
  <1>2. Tables = {} /\ Signatures = {} /\ saved = {} /\ marks \subseteq ni.bad
    BY <1>1 DEF Safe, DeadInv
  <1>3. b \in Blocks /\ flash \in [Blocks -> Content] /\ ni \in Instance /\ ni \in Inst
    BY <1>1, StepTypes, ShapeFields DEF TypeInv, StepType, ChipType
  <1>4. b \in Int /\ b \in Places
    BY <1>3, BlockNumbers DEF Blocks, Places
  <1> HIDE DEF b
  <1>5. /\ n \in Instance /\ n.map = ni.map /\ n.sig = b /\ n.protected = ni.protected
    BY <1>3 DEF Instance
  <1>6. n \in Inst
    BY <1>3, <1>4, SignatureSet
  <1>7. \A x \in Blocks : x # b => flash'[x] = flash[x]
    BY <1>1, <1>3
  <1>8. flash'[b] = Signature
    BY <1>1, <1>3
  <1>9. Tables' = {}
    BY <1>2, <1>7, <1>8, NotTables DEF Tables
  <1>10. b \in Signatures' /\ \A y \in Signatures' : y <= b
    <2>1. b \in Signatures'
      BY <1>1, <1>2, <1>3, <1>8 DEF Signatures
    <2>2. \A y \in Signatures' : y = b
      BY <1>1, <1>2, <1>7 DEF Signatures
    <2> QED
      BY <1>4, <2>1, <2>2
  <1>11. OwnPlace(n.map)
    BY <1>1, <1>5 DEF Placement
  <1>12. ~n.protected
    BY <1>1, <1>5 DEF Safe, DeadInv
  <1>13. Aged'
    BY <1>9, AgedEmpty
  <1> HIDE DEF n
  <1> QED
    BY <1>1, <1>2, <1>5, <1>6, <1>9, <1>10, <1>11, <1>12, <1>13, CreateSafe

\* The step leaves a new chip without tables and signature.
LEMMA StillNew ==
    ASSUME Tables' = {}, saved' = {},
           \/ pc' = "dead"
           \/ pc' = "signature" /\ Signatures' = {} /\ marks' \subseteq ni'.bad /\ ~ni'.protected
    PROVE  Safe'
  <1>1. ~Running' /\ ~Writing' /\ pc' # "erase" /\ pc' # "off"
        /\ pc' \notin {"idle", "request", "map", "mark", "update", "fill", "copy"}
    BY DEF Running, Writing
  <1>2. Aged'
    BY AgedEmpty
  <1> QED
    BY <1>1, <1>2 DEF Safe, Present, OffInv, DeadInv, FitInv, UseInv, KnownInv, RestInv,
       WriteInv, EraseInv

\* It fails, or runs out of blocks.
LEMMA SignatureFailsSafe ==
    ASSUME TypeInv, Shape, Safe, SignatureFails \/ SignatureRunsOut
    PROVE  Safe'
  <1>1. pc = "signature"
    BY DEF SignatureFails, SignatureRunsOut
  <1>2. Tables = {} /\ Signatures = {} /\ saved = {} /\ marks \subseteq ni.bad /\ ~ni.protected
    BY <1>1 DEF Safe, DeadInv
  <1>3. CASE SignatureRunsOut
    <2>1. pc' = "dead" /\ UNCHANGED <<flash, saved>>
      BY <1>3 DEF SignatureRunsOut, chip, seen
    <2>2. Tables' = {} /\ saved' = {}
      BY <1>2, <2>1 DEF Tables
    <2> QED
      BY <2>1, <2>2, StillNew
  <1>4. CASE SignatureFails /\ UNCHANGED <<flash, marks, ni, saved>>
    <2>1. pc' = "signature"
      BY <1>1, <1>4 DEF SignatureFails
    <2>2. Tables' = {} /\ saved' = {} /\ Signatures' = {} /\ marks' \subseteq ni'.bad
          /\ ~ni'.protected
      BY <1>2, <1>4 DEF Tables, Signatures
    <2> QED
      BY <2>1, <2>2, StillNew
  <1>5. CASE SignatureFails /\ BlockFails
    <2> DEFINE b == wr.ba
    <2>1. pc' = "signature"
      BY <1>1, <1>5 DEF SignatureFails
    <2>2. PICK c \in {Torn, flash[b]} :
             flash' = [flash EXCEPT ![b] = c]
      BY <1>5 DEF BlockFails
    <2>3. marks \subseteq marks' /\ marks' \subseteq marks \cup {b} /\ saved' = saved
          /\ ni' = nmbm_set_bad(ni, b)
      BY <1>5 DEF BlockFails
    <2>4. b \in Blocks /\ flash \in [Blocks -> Content] /\ ni \in Instance
      BY <1>1, StepTypes DEF TypeInv, StepType, ChipType
    <2> HIDE DEF b
    <2>5. ni'.bad = ni.bad \cup {b} /\ ni'.protected = ni.protected
      BY <2>3, <2>4 DEF nmbm_set_bad, Instance
    <2>6. \A x \in Blocks : flash'[x] = flash[x] \/ flash'[x] = Torn
      BY <2>2, <2>4
    <2>7. Tables' = {}
      BY <1>2, <2>6, NotTables DEF Tables
    <2>8. Torn # Signature
      BY DEF Torn, Signature
    <2>9. Signatures' = {}
      BY <1>2, <2>3, <2>6, <2>8 DEF Signatures
    <2> QED
      BY <1>2, <2>1, <2>3, <2>5, <2>7, <2>9, StillNew
  <1> QED
    BY <1>3, <1>4, <1>5 DEF SignatureFails, SignatureRunsOut, chip, seen

\* All the operations on the chip, as long as no table write fails.
LEMMA ChipStepsSafe ==
    ASSUME TypeInv, Shape, Placement, Safe, ChipSteps, ~WriteFails
    PROVE  Safe'
  <1>1. ~Repair /\ ~RepairFails
    <2>1. pc = "repair" => Running
      BY DEF Running
    <2> QED
      BY <2>1 DEF Safe, FitInv, Repair, RepairFails
  <1> QED
    BY <1>1, WriteSkipsSafe, WriteSucceedsSafe, WriteRunsOutSafe, EraseSafe,
       SignatureSucceedsSafe, SignatureFailsSafe, CopySafe, MarkSafe, RequestsSafe
       DEF ChipSteps

\* The driver.
LEMMA DriverSafe ==
    ASSUME TypeInv, Shape, Placement, Safe, Driver, ~WriteFails, "hole" \notin faults'
    PROVE  Safe'
  BY TableStepsSafe, ChipStepsSafe, FillSafe, MapSafe DEF Driver

-----------------------------------------------------------------------------
(* Attaching *)

\* nmbm_find_signature.
LEMMA SignatureIsLast ==
    ASSUME Signatures # {}
    PROVE  IsSig(Maximum(Signatures)) /\ Maximum(Signatures) \in Blocks
  <1>1. \A b \in Signatures : b \in Int /\ b <= BlockCount
    BY GeometryAssumption DEF Signatures, Blocks
  <1>2. Maximum(Signatures) \in Signatures
        /\ \A y \in Signatures : y <= Maximum(Signatures)
    BY <1>1, MaximumIsGreatest, GeometryAssumption
  <1> QED
    BY <1>2 DEF IsSig, Signatures

\* Every table can be loaded.
LEMMA AllLoadable ==
    ASSUME Safe, pc = "off", NEW sig \in Blocks, IsSig(sig)
    PROVE  Loadable(MgmtStart, {}, sig) = Tables
  <1>1. ASSUME NEW b \in Tables PROVE b \in Loadable(MgmtStart, {}, sig)
    <2>1. Sound(b)
      BY DEF Safe, OffInv
    <2>2. MgmtStart <= b /\ b \notin marks /\ b < sig - 1 /\ b \notin flash[b].bad
      BY <2>1 DEF Sound
    <2>3. flash[b] \in Table /\ b \in Blocks /\ b \in Int /\ sig \in Int /\ MgmtStart \in Int
      BY BlockNumbers DEF Tables
    <2>4. ASSUME NEW lb \in Logical
          PROVE  ~(MgmtStart <= flash[b].map[lb] /\ flash[b].map[lb] <= b)
                 /\ flash[b].map[lb] # sig
      <3>1. flash[b].map \in Mapping
        BY <2>3 DEF Table
      <3>2. flash[b].map[lb] \in Int
        BY <3>1, MapNumbers
      <3>3. flash[b].map[lb] \in Logical \cup {Unmapped} \/ b + 1 < flash[b].map[lb]
        BY <2>1 DEF Sound
      <3>4. flash[b].map[lb] < sig
        BY <2>1 DEF Sound
      <3>5. flash[b].map[lb] \in Logical \cup {Unmapped} => ~(MgmtStart <= flash[b].map[lb])
        BY <2>3, BlockNumbers DEF Logical, Unmapped
      <3> QED
        BY <2>3, <3>2, <3>3, <3>4, <3>5
    <2>5. nmbm_check_info_table(flash[b], b, sig)
      BY <2>2, <2>4 DEF nmbm_check_info_table
    <2> QED
      BY <2>2, <2>3, <2>5 DEF Loadable
  <1>2. Loadable(MgmtStart, {}, sig) \subseteq Tables
    BY DEF Loadable, Tables
  <1> QED
    BY <1>1, <1>2

\* The search for the backup table meets every other table.
LEMMA OthersLoadable ==
    ASSUME Safe, pc = "off", NEW sig \in Blocks, IsSig(sig), NEW m \in Tables,
           \A b \in Tables : m <= b, NEW ecc, ecc \subseteq TornBlocks
    PROVE  Loadable(m + 1, flash[m].bad \cup ecc, sig) = Tables \ {m}
  <1>1. ASSUME NEW b \in Tables, b # m
        PROVE  b \in Loadable(m + 1, flash[m].bad \cup ecc, sig)
    <2>1. b \in Loadable(MgmtStart, {}, sig)
      BY AllLoadable
    <2>2. b \notin flash[m].bad
      BY DEF Safe, OffInv, Sound
    <2>3. b \notin ecc
      <3>1. flash[b] # Torn
        BY NotTables DEF Tables
      <3> QED
        BY <3>1 DEF TornBlocks
    <2>4. m + 1 <= b
      <3>1. m \in Int /\ b \in Int /\ m <= b
        BY BlockNumbers DEF Tables
      <3> QED
        BY <1>1, <3>1
    <2> QED
      BY <2>1, <2>2, <2>3, <2>4 DEF Loadable
  <1>2. ASSUME NEW b \in Loadable(m + 1, flash[m].bad \cup ecc, sig)
        PROVE  b \in Tables \ {m}
    <2>1. b \in Blocks /\ flash[b] \in Table /\ m + 1 <= b /\ m \in Int
      BY <1>2, BlockNumbers DEF Loadable, Tables
    <2>2. b # m
      BY <2>1
    <2> QED
      BY <2>1, <2>2 DEF Tables
  <1> QED
    BY <1>1, <1>2

\* The first table.
LEMMA FirstFound ==
    ASSUME Tables # {}
    PROVE  Minimum(Tables) \in Tables /\ \A b \in Tables : Minimum(Tables) <= b
  <1>1. \A b \in Tables : b \in Int /\ -1 <= b
    BY BlockNumbers DEF Tables, Blocks
  <1> QED
    BY <1>1, MinimumIsLeast

\* The tables are the first one and the other one, if there is one.
LEMMA BothFound ==
    ASSUME Safe, pc = "off", NEW m \in Tables, NEW s,
           s = IF Tables \ {m} = {} THEN 0 ELSE Minimum(Tables \ {m})
    PROVE  Tables = {m, s} \ {0} /\ m # 0 /\ (s # 0 => s \in Tables /\ s # m)
  <1>1. ASSUME NEW b \in Tables PROVE b # 0
    <2>1. MgmtStart <= b
      BY DEF Safe, OffInv, Sound
    <2>2. b \in Int
      BY BlockNumbers DEF Tables
    <2> QED
      BY <2>1, <2>2, BlockNumbers
  <1>2. CASE Tables \ {m} = {}
    BY <1>1, <1>2
  <1>3. CASE Tables \ {m} # {}
    <2>1. s \in Tables \ {m}
      <3>1. Tables \ {m} \subseteq Blocks
        BY DEF Tables
      <3> QED
        BY <1>3, <3>1, FirstBlock
    <2>2. \A b \in Tables : b = m \/ b = s
      BY <2>1 DEF Safe, OffInv
    <2> QED
      BY <1>1, <2>1, <2>2
  <1> QED
    BY <1>2, <1>3

\* What nmbm_generate_info_table_cache sets.
LEMMA CacheSets ==
    ASSUME NEW n \in Inst
    PROVE  LET r == nmbm_generate_info_table_cache(n)
           IN  /\ r.map = n.map /\ r.bad = n.bad /\ r.protected = n.protected
               /\ r.count = IF n.changed THEN n.count + 1 ELSE n.count
               /\ r.cache = [kind |-> "table", count |-> r.count, bad |-> n.bad, map |-> n.map]
  <1> DEFINE count == IF n.changed THEN n.count + 1 ELSE n.count
             t == [kind |-> "table", count |-> count, bad |-> n.bad, map |-> n.map]
             r == [n EXCEPT !.count = count, !.cache = t]
  <1>1. nmbm_generate_info_table_cache(n) = r
    BY DEF nmbm_generate_info_table_cache
  <1> HIDE DEF count
  <1> HIDE DEF t
  <1>2. r.map = n.map /\ r.bad = n.bad /\ r.protected = n.protected /\ r.count = count /\ r.cache = t
    BY DEF Inst
  <1> HIDE DEF r
  <1> QED
    BY <1>1, <1>2 DEF count, t

\* What is loaded is the newer table, with the bad blocks that were found.
LEMMA LoadedSets ==
    ASSUME NEW m \in Blocks, flash[m] \in Table, NEW s \in Blocks,
           s # 0 => flash[s] \in Table, NEW ecc, NEW sig \in Blocks, NEW t,
           t = IF s # 0 /\ flash[s].count > flash[m].count THEN flash[s] ELSE flash[m],
           NEW n, n = Loaded(m, s, ecc, sig)
    PROVE  /\ ~n.protected /\ t.bad \subseteq n.bad /\ n.bad \subseteq t.bad \cup marks \cup ecc
           /\ n.cache.map = n.map /\ n.cache.count = n.count /\ n.cache.bad = n.bad
           /\ n.count = t.count + 1 \/ (n.count = t.count /\ n.cache = t)
  <1> DEFINE newer == s # 0 /\ flash[s].count > flash[m].count
             before == FoundBad(MgmtStart, m, ecc)
             between == FoundBad(m + 1, IF s = 0 THEN sig - 1 ELSE s, ecc) \ flash[m].bad
             bad == IF newer THEN t.bad ELSE t.bad \cup between
             top == TopOf(t, IF newer THEN s ELSE m, sig)
             next == (IF s = 0 THEN m ELSE s) + 1
             size == IF LastMapped(t.map) = {} THEN MgmtStart
                     ELSE Maximum(LastMapped(t.map)) + 1
             changed == before \cup between # {}
             f == [Fresh EXCEPT !.bad = bad, !.map = t.map, !.count = t.count,
                     !.changed = changed, !.main = m, !.backup = s, !.sig = sig,
                     !.top = top, !.next = next, !.size = size]
  <1>1. t \in Table
    OBVIOUS
  <1>2. top \in Int
    BY <1>1, TopOfTable
  <1>3. next \in Int /\ m \in Int /\ s \in Int /\ sig \in Places
    BY GeometryAssumption DEF Blocks, Places
  <1>4. size \in Int
    <2> DEFINE S == LastMapped(t.map)
    <2>1. \A x \in S : x \in Int /\ x <= MgmtStart
      BY GeometryAssumption DEF LastMapped, Logical
    <2> HIDE DEF S
    <2>2. S # {} => Maximum(S) \in Int
      BY <2>1, MaximumIsGreatest, GeometryAssumption
    <2> QED
      BY <2>2, GeometryAssumption DEF S
  <1>5. bad \in SUBSET Int /\ changed \in BOOLEAN
    <2>1. between \subseteq Int
      BY GeometryAssumption DEF FoundBad, Blocks
    <2>2. t.bad \subseteq Int
      BY <1>1, GeometryAssumption DEF Table, Blocks
    <2> QED
      BY <2>1, <2>2
  <1>6. t.map \in IntMap /\ t.count \in Int
    BY <1>1, GeometryAssumption DEF Table, Mapping, IntMap, Places, Blocks, Unmapped
  <1>7. /\ t.bad \subseteq bad /\ bad \subseteq t.bad \cup marks \cup ecc
        /\ ~changed => bad = t.bad
    BY DEF FoundBad
  <1>8. n = nmbm_generate_info_table_cache(f)
    BY DEF Loaded
  <1> HIDE DEF bad, changed, top, next, size
  <1>9. f \in Inst
    BY <1>2, <1>3, <1>4, <1>5, <1>6, FreshShape DEF Inst
  <1>10. f.bad = bad /\ f.map = t.map /\ f.count = t.count /\ f.changed = changed
         /\ f.protected = FALSE
    BY DEF Fresh
  <1> HIDE DEF f
  <1>11. /\ n.map = f.map /\ n.bad = f.bad /\ n.protected = f.protected
         /\ n.count = IF f.changed THEN f.count + 1 ELSE f.count
         /\ n.cache = [kind |-> "table", count |-> n.count, bad |-> f.bad, map |-> f.map]
    BY <1>8, <1>9, CacheSets
  <1>12. n.cache.map = n.map /\ n.cache.count = n.count /\ n.cache.bad = n.bad
    BY <1>11
  <1>13. ASSUME ~changed PROVE n.count = t.count /\ n.cache = t
    <2>1. n.count = t.count
      BY <1>10, <1>11, <1>13
    <2>2. n.cache = [kind |-> "table", count |-> t.count, bad |-> t.bad, map |-> t.map]
      BY <1>7, <1>10, <1>11, <1>13, <2>1
    <2>3. t = [kind |-> "table", count |-> t.count, bad |-> t.bad, map |-> t.map]
      BY <1>1 DEF Table
    <2> QED
      BY <2>1, <2>2, <2>3
  <1>14. ASSUME changed PROVE n.count = t.count + 1
    BY <1>10, <1>11, <1>14
  <1> QED
    BY <1>7, <1>10, <1>11, <1>12, <1>13, <1>14

\* An older mapping uses no block further down than a newer one.
LEMMA LowerAbove ==
    ASSUME NEW new \in Mapping, NEW old \in Mapping, NEW top \in Int, Above(new, top),
           Lower(new, old)
    PROVE  Above(old, top)
  <1> SUFFICES ASSUME NEW lb \in Logical, old[lb] \notin Logical \cup {Unmapped}
               PROVE  top < old[lb]
    BY DEF Above
  <1>1. new[lb] \in Int /\ old[lb] \in Int /\ MgmtStart \in Int /\ 0 < MgmtStart
    BY MapNumbers, BlockNumbers
  <1>2. MgmtStart <= new[lb] /\ new[lb] <= old[lb]
    BY DEF Lower
  <1>3. new[lb] \notin Logical \cup {Unmapped}
    BY <1>1, <1>2 DEF Logical, Unmapped
  <1>4. top < new[lb]
    BY <1>3 DEF Above
  <1> QED
    BY <1>1, <1>2, <1>4

\* The tables that are found, next to the instance that is loaded.
LEMMA LoadedFits ==
    ASSUME TypeInv, Safe, pc = "off", NEW sig \in Blocks, IsSig(sig), NEW x \in Tables, Newest(x),
           NEW n \in Instance, n.sig = sig, n.map = flash[x].map, Above(n.map, n.top),
           flash[x].bad \subseteq n.bad, n.bad \subseteq flash[x].bad \cup marks \cup TornBlocks,
           n.count = flash[x].count + 1 \/ (n.count = flash[x].count /\ n.cache = flash[x]),
           n.cache.count = n.count, n.cache.bad = n.bad,
           NEW b \in Tables
    PROVE  /\ b \notin marks /\ b \notin n.bad /\ Fit(flash[b], n)
           /\ flash[b].bad \subseteq n.cache.bad
           /\ flash[b].count = n.cache.count => flash[b] = n.cache
  <1> DEFINE t == flash[x]
             u == flash[b]
  <1>1. t \in Table /\ u \in Table
    BY DEF Tables
  <1>2. t.count \in Nat /\ u.count \in Nat /\ t.map \in Mapping /\ u.map \in Mapping
    BY <1>1 DEF Table
  <1>3. t.count \in Int /\ u.count \in Int
    BY <1>2
  <1>4. Sound(b) /\ Sound(x)
    BY DEF Safe, OffInv
  <1>5. u.count <= t.count
    BY DEF Newest
  <1>6. u.count = t.count => u = t
    BY DEF Safe, Aged
  <1>7. u.count < t.count => u.bad \subseteq t.bad /\ Lower(t.map, u.map)
    BY DEF Safe, Aged
  <1>8. u.bad \subseteq t.bad /\ Lower(t.map, u.map)
    <2>1. CASE u.count < t.count
      BY <1>7, <2>1
    <2>2. CASE u.count = t.count
      <3>1. u = t
        BY <1>6, <2>2
      <3>2. Lower(t.map, t.map)
        BY <1>2, LowerItself
      <3> QED
        BY <3>1, <3>2, Zenon
    <2> QED
      BY <1>3, <1>5, <2>1, <2>2
  <1>9. b \notin marks /\ b \notin t.bad
    BY <1>4 DEF Sound
  <1>10. b \notin n.bad
    <2>1. flash[b] # Torn
      BY <1>1, NotTables
    <2>2. b \notin TornBlocks
      BY <2>1 DEF TornBlocks
    <2> QED
      BY <1>9, <2>2
  <1>11. u.count <= n.count
    BY <1>3, <1>5
  <1>12. Above(u.map, n.top)
    <2>1. n.top \in Int
      BY InstanceFields, BlockNumbers
    <2> QED
      BY <1>2, <1>8, <2>1, LowerAbove
  <1>13. Distinct(u.map) /\ \A lb \in Logical : u.map[lb] < n.sig
    BY <1>4 DEF Sound
  <1>14. Fit(u, n)
    BY <1>8, <1>11, <1>12, <1>13 DEF Fit
  <1>15. u.count = n.cache.count => u = n.cache
    <2>1. CASE n.count = t.count + 1
      BY <1>3, <1>5, <2>1
    <2>2. CASE n.count = t.count /\ n.cache = t
      BY <1>6, <2>2
    <2> QED
      BY <2>1, <2>2
  <1> QED
    BY <1>8, <1>9, <1>10, <1>14, <1>15

\* What holds of a chip whose tables have been loaded.
LEMMA LoadedSafe ==
    ASSUME TypeInv, Safe, pc = "off", NEW sig \in Blocks, IsSig(sig), NEW x \in Tables,
           Newest(x), NEW n \in Instance, n.sig = sig, n.map = flash[x].map,
           Above(n.map, n.top),
           flash[x].bad \subseteq n.bad, n.bad \subseteq flash[x].bad \cup marks \cup TornBlocks,
           n.count = flash[x].count + 1 \/ (n.count = flash[x].count /\ n.cache = flash[x]),
           n.cache.count = n.count, n.cache.bad = n.bad,
           ni'.map = n.map, ni'.bad = n.bad, ni'.count = n.count, ni'.cache = n.cache,
           ni'.top = n.top, ni'.sig = n.sig, ni'.main # 0,
           Tables = {ni'.main, ni'.backup} \ {0},
           saved' = {n.map}, req'.op = "none", req'.update = "none", pc' \in {"idle", "write"},
           pc' = "write" => wr'.for # "rebuild main",
           UNCHANGED <<flash, marks, faults>>,
           KnownInv', RestInv', WriteInv'
    PROVE  Safe'
  <1>1. ASSUME NEW b \in Tables
        PROVE  b \notin marks /\ b \notin n.bad /\ Fit(flash[b], n)
    BY <1>1, LoadedFits
  <1>2. ASSUME NEW b \in Tables
        PROVE  Fit(flash[b], ni')
    BY <1>1, <1>2 DEF Fit
  <1>3. Same
    BY NoBlock
  <1>4. Running' /\ pc' # "written" /\ pc' # "erase" /\ pc' # "full" /\ pc' # "repair"
        /\ pc' # "off" /\ pc' # "dead" /\ pc' # "signature"
    BY DEF Running
  <1>5. \A lb \in Logical : n.map[lb] < n.sig
    <2>1. Sound(x)
      BY DEF Safe, OffInv
    <2> QED
      BY <2>1 DEF Sound
  <1>6. IsSig(ni.sig)'
    BY SignatureSame DEF IsSig
  <1>7. FitInv'
    <2>1. \A b \in Tables' : b \notin marks' /\ b \notin ni'.bad /\ Fit(flash'[b], ni')
      BY <1>1, <1>2, <1>3 DEF Same
    <2>2. \A m \in saved' : Above(m, ni'.top)
      OBVIOUS
    <2> QED
      BY <1>4, <1>5, <1>6, <2>1, <2>2 DEF FitInv
  <1>8. UseInv'
    BY <1>3, <1>4 DEF UseInv, InUse, Writing, Same
  <1>9. Aged'
    BY <1>3, AgedSame DEF Safe
  <1>10. Present'
    <2>1. Tables' # {} /\ Signatures' # {}
      BY <1>3, <1>6 DEF Same, IsSig
    <2> QED
      BY <2>1 DEF Present
  <1>11. OffInv' /\ DeadInv' /\ EraseInv'
    BY <1>4 DEF OffInv, DeadInv, EraseInv
  <1> QED
    BY <1>7, <1>8, <1>9, <1>10, <1>11 DEF Safe

\* Where the two tables found differ in age, and which of them is loaded.
LEMMA LoadedNewest ==
    ASSUME NEW m \in Tables, NEW s, s # 0 => s \in Tables, Tables = {m, s} \ {0},
           NEW x, x = IF s # 0 /\ flash[s].count > flash[m].count THEN s ELSE m
    PROVE  /\ x \in Tables /\ Newest(x)
           /\ flash[x] = IF s # 0 /\ flash[s].count > flash[m].count THEN flash[s] ELSE flash[m]
  <1>1. flash[m].count \in Nat /\ (s # 0 => flash[s].count \in Nat)
    BY DEF Tables, Table
  <1>2. flash[m].count \in Int /\ (s # 0 => flash[s].count \in Int)
    BY <1>1
  <1>3. x \in Tables
    OBVIOUS
  <1>4. ASSUME NEW c \in Tables PROVE flash[c].count <= flash[x].count
    <2>1. CASE s # 0 /\ flash[s].count > flash[m].count
      <3>1. x = s
        BY <2>1
      <3>2. c = m \/ c = s
        OBVIOUS
      <3> QED
        BY <1>2, <2>1, <3>1, <3>2
    <2>2. CASE ~(s # 0 /\ flash[s].count > flash[m].count)
      <3>1. x = m
        BY <2>2
      <3>2. c = m \/ (c = s /\ s # 0)
        OBVIOUS
      <3> QED
        BY <1>2, <2>2, <3>1, <3>2
    <2> QED
      BY <2>1, <2>2
  <1> QED
    BY <1>3, <1>4 DEF Newest

\* The chip is as it was found, and what was loaded has been looked at.
LEMMA LoadTablesSafe ==
    ASSUME TypeInv, Shape, Placement', Safe, pc = "off", NEW ecc, ecc \subseteq TornBlocks,
           NEW sig \in Blocks, IsSig(sig), LoadTables(ecc, sig),
           UNCHANGED <<flash, marks, faults>>
    PROVE  Safe' /\ pc' \in {"idle", "write"} /\ (saved = {} \/ ni'.map \in saved)
  <1> DEFINE mains == Loadable(MgmtStart, {}, sig)
             m == Minimum(mains)
             backups == Loadable(m + 1, flash[m].bad \cup ecc, sig)
             s == IF backups = {} THEN 0 ELSE Minimum(backups)
             n == Loaded(m, s, ecc, sig)
             older == s # 0 /\ flash[m].count < flash[s].count
             same == s # 0 /\ flash[m].count = flash[s].count
             c == [n EXCEPT !.changed = TRUE]
             p == (n.next = n.top)
             x == IF s # 0 /\ flash[s].count > flash[m].count THEN s ELSE m
             t == IF s # 0 /\ flash[s].count > flash[m].count THEN flash[s] ELSE flash[m]
             i == [n EXCEPT !.protected = p]
  <1>1. mains # {} /\ req' = [NoReq EXCEPT !.table = "load"] /\ saved' = {n.map}
    BY DEF LoadTables
  <1>2. \/ s = 0 /\ StartWrite(n, MgmtStart, n.main, "rescue front")
        \/ s # 0 /\ ~same /\ older /\ StartWrite(c, c.main, c.backup, "single main")
        \/ s # 0 /\ ~same /\ ~older /\ StartWrite(c, c.backup, c.top, "single backup")
        \/ same /\ ni' = i /\ pc' = "idle" /\ UNCHANGED wr
    BY DEF LoadTables, nmbm_rescue_single_info_table, nmbm_update_single_info_table
  <1>3. Tables = {m, s} \ {0} /\ m \in Tables /\ (s # 0 => s \in Tables /\ s # m) /\ m # 0
    <2>1. mains = Tables
      BY AllLoadable
    <2>2. m \in Tables /\ \A b \in Tables : m <= b
      <3>1. m = Minimum(Tables) /\ Tables # {}
        BY <1>1, <2>1
      <3> HIDE DEF m
      <3> QED
        BY <3>1, FirstFound
    <2>3. backups = Tables \ {m}
      <3> HIDE DEF m
      <3> QED
        BY <2>2, OthersLoadable
    <2>4. s = IF Tables \ {m} = {} THEN 0 ELSE Minimum(Tables \ {m})
      <3> HIDE DEF m, backups
      <3> QED
        BY <2>3
    <2> HIDE DEF m, s
    <2> QED
      BY <2>2, <2>4, BothFound
  <1>4. /\ m \in Blocks /\ flash[m] \in Table /\ m < sig - 1
        /\ s \in Blocks /\ (s # 0 => flash[s] \in Table /\ s < sig - 1)
    <2> HIDE DEF m, s, backups
    <2> QED
      BY <1>1, TablesFound DEF m, s, backups
  <1> HIDE DEF m, s
  <1>5. n \in Instance
    BY <1>4, LoadedType
  <1>6. x \in Tables /\ Newest(x) /\ flash[x] = t
    BY <1>3, LoadedNewest
  <1>7. n.main = m /\ n.backup = s /\ n.sig = sig /\ n.map = t.map
    BY <1>4, LoadedInstance
  <1>8. /\ ~n.protected /\ t.bad \subseteq n.bad /\ n.bad \subseteq t.bad \cup marks \cup ecc
        /\ n.cache.map = n.map /\ n.cache.count = n.count /\ n.cache.bad = n.bad
        /\ n.count = t.count + 1 \/ (n.count = t.count /\ n.cache = t)
    <2> HIDE DEF n, t
    <2> QED
      BY <1>4, LoadedSets DEF n, t
  <1>9. req'.op = "none" /\ req'.update = "none" /\ req'.table = "load"
    BY <1>1 DEF NoReq
  <1> HIDE DEF n, t, x
  <1>10. /\ c \in Instance /\ c.map = n.map /\ c.bad = n.bad /\ c.count = n.count
         /\ c.cache = n.cache /\ c.top = n.top /\ c.sig = n.sig /\ c.main = n.main
         /\ c.backup = n.backup /\ c.protected = n.protected
    BY <1>5 DEF Instance
  <1>11. /\ i.map = n.map /\ i.bad = n.bad /\ i.count = n.count
         /\ i.cache = n.cache /\ i.top = n.top /\ i.sig = n.sig /\ i.main = n.main
         /\ i.backup = n.backup
    <2>1. p \in BOOLEAN
      OBVIOUS
    <2> HIDE DEF p
    <2> QED
      BY <1>5, <2>1 DEF Instance
  <1> HIDE DEF c, i
  <1>12. /\ ni'.map = n.map /\ ni'.bad = n.bad /\ ni'.count = n.count /\ ni'.cache = n.cache
         /\ ni'.top = n.top /\ ni'.sig = n.sig /\ ni'.main = m /\ ni'.backup = s
         /\ pc' \in {"idle", "write"}
         /\ pc' = "write" => ~ni'.protected
         /\ pc' = "idle" => same
         /\ pc' = "write" => \/ s = 0 /\ wr'.for = "rescue front"
                             \/ s # 0 /\ ~same /\ older /\ wr'.for = "single main" /\ wr'.ba = m
                             \/ s # 0 /\ ~same /\ ~older /\ wr'.for = "single backup" /\ wr'.ba = s
    <2> HIDE DEF same, older
    <2>1. CASE s = 0 /\ StartWrite(n, MgmtStart, n.main, "rescue front")
      <3>1. ni' = n /\ pc' = "write" /\ wr'.for = "rescue front"
        BY <2>1, WriteStarted
      <3> QED
        BY <1>7, <1>8, <2>1, <3>1
    <2>2. CASE s # 0 /\ ~same /\ older /\ StartWrite(c, c.main, c.backup, "single main")
      <3>1. ni' = c /\ pc' = "write" /\ wr'.for = "single main" /\ wr'.ba = c.main
        BY <2>2, WriteStarted
      <3> QED
        BY <1>7, <1>8, <1>10, <2>2, <3>1
    <2>3. CASE s # 0 /\ ~same /\ ~older /\ StartWrite(c, c.backup, c.top, "single backup")
      <3>1. ni' = c /\ pc' = "write" /\ wr'.for = "single backup" /\ wr'.ba = c.backup
        BY <2>3, WriteStarted
      <3> QED
        BY <1>7, <1>8, <1>10, <2>3, <3>1
    <2>4. CASE same /\ ni' = i /\ pc' = "idle" /\ UNCHANGED wr
      BY <1>7, <1>11, <2>4
    <2> QED
      BY <1>2, <2>1, <2>2, <2>3, <2>4
  <1>13. Above(n.map, n.top)
    <2>1. Above(ni'.map, ni'.top)
      BY <1>12 DEF Placement
    <2> QED
      BY <1>12, <2>1
  <1>14. n.bad \subseteq flash[x].bad \cup marks \cup TornBlocks
    BY <1>6, <1>8
  <1>15. ASSUME NEW b \in Tables
         PROVE  /\ flash[b].bad \subseteq n.cache.bad
                /\ flash[b].count = n.cache.count => flash[b] = n.cache
    BY <1>5, <1>6, <1>7, <1>8, <1>13, <1>14, <1>15, LoadedFits
  <1>16. Same
    BY NoBlock
  \* Which tables hold the mapping.
  <1>17. ASSUME NEW b \in Tables
         PROVE  \/ flash[b].map = n.map
                \/ older /\ b = m
                \/ s # 0 /\ ~same /\ ~older /\ b = s
    <2>1. CASE b = x
      BY <1>6, <1>7, <2>1
    <2>3. CASE same
      <3>1. flash[m] = flash[s]
        BY <1>3, <2>3 DEF Safe, Aged
      <3>2. flash[b] = t
        BY <1>3, <3>1 DEF t
      <3> QED
        BY <1>7, <3>2
    <2>4. CASE ~same /\ b # x
      <3>1. flash[m].count \in Nat /\ (s # 0 => flash[s].count \in Nat)
        BY <1>4 DEF Table
      <3>2. CASE x = m
        BY <1>3, <2>4, <3>2, <3>1 DEF x
      <3>3. CASE x = s /\ s # 0 /\ flash[s].count > flash[m].count
        BY <1>3, <2>4, <3>3, <3>1
      <3> QED
        BY <3>2, <3>3 DEF x
    <2> QED
      BY <2>1, <2>3, <2>4
  <1>18. KnownInv'
    <2>1. ASSUME NEW b \in Tables' PROVE Known(b)' \/ Outdated(b)'
      <3>1. b \in Tables /\ flash' = flash
        BY <1>16, <2>1 DEF Same
      <3>2. CASE flash[b].map = n.map
        BY <1>1, <3>1, <3>2 DEF Known
      <3>3. CASE older /\ b = m
        <4>1. pc' = "write" /\ wr'.for = "single main"
          <5>1. flash[m].count \in Int /\ (s # 0 => flash[s].count \in Int)
            BY <1>4 DEF Table
          <5>2. ~same
            BY <3>3, <5>1
          <5> QED
            BY <1>12, <3>3, <5>2
        <4> QED
          BY <1>12, <3>1, <3>3, <4>1 DEF Outdated
      <3>4. CASE s # 0 /\ ~same /\ ~older /\ b = s
        <4>1. pc' = "write" /\ wr'.for = "single backup"
          BY <1>12, <3>4
        <4>2. flash[s].count < flash[m].count
          <5>1. flash[m].count \in Nat /\ flash[s].count \in Nat
            BY <1>4, <3>4 DEF Table
          <5> QED
            BY <3>4, <5>1
        <4> QED
          BY <1>12, <3>1, <3>4, <4>1, <4>2 DEF Outdated
      <3> QED
        BY <1>17, <3>1, <3>2, <3>3, <3>4
    <2> QED
      BY <2>1 DEF KnownInv
  <1>19. RestInv'
    <2>1. ASSUME pc' = "idle" PROVE \A b \in Tables' : flash'[b].map = ni'.map
      <3>1. same
        BY <1>12, <2>1
      <3>2. flash[m] = flash[s] /\ ~older
        <4>1. flash[m].count \in Int
          BY <1>4 DEF Table
        <4> QED
          BY <1>3, <3>1, <4>1 DEF Safe, Aged
      <3> QED
        BY <1>12, <1>16, <1>17, <3>1, <3>2 DEF Same
    <2> QED
      BY <1>1, <1>12, <2>1 DEF RestInv, Current
  <1>20. WriteInv'
    <2>1. ASSUME pc' = "write" PROVE CallInv' /\ PlaceInv' /\ CacheInv'
      <3>1. CallInv'
        BY <1>1, <1>9, <1>12, <2>1 DEF CallInv
      <3>2. PlaceInv'
        BY <1>12, <2>1 DEF PlaceInv
      <3>3. \A b \in Tables' : /\ flash'[b].bad \subseteq ni'.cache.bad
                               /\ flash'[b].count = ni'.cache.count => flash'[b] = ni'.cache
        BY <1>12, <1>15, <1>16 DEF Same
      <3>4. \A b \in Tables' : \/ flash'[b].map = ni'.map
                               \/ wr'.for \in {"single main", "single backup"} /\ b = wr'.ba
        <4> TAKE b \in Tables'
        <4>1. b \in Tables /\ flash'[b] = flash[b]
          BY <1>16 DEF Same
        <4>2. older => ~same
          <5>1. flash[m].count \in Int /\ (s # 0 => flash[s].count \in Int)
            BY <1>4 DEF Table
          <5> QED
            BY <5>1
        <4>3. older => s # 0
          OBVIOUS
        <4> HIDE DEF older, same
        <4> QED
          BY <1>12, <1>17, <2>1, <4>1, <4>2, <4>3
      <3>5. /\ ni'.cache.map = ni'.map /\ ni'.cache.count = ni'.count
            /\ ni'.cache.bad \subseteq ni'.bad
        BY <1>8, <1>12
      <3>6. CacheInv'
        BY <2>1, <3>3, <3>4, <3>5 DEF CacheInv
      <3> QED
        BY <3>1, <3>2, <3>6
    <2> QED
      BY <1>12, <2>1 DEF WriteInv, Writing
  <1>21. Safe'
    <2>1. Tables = {ni'.main, ni'.backup} \ {0} /\ ni'.main # 0
          /\ (pc' = "write" => wr'.for # "rebuild main")
      BY <1>3, <1>12
    <2>2. /\ n.map = flash[x].map /\ flash[x].bad \subseteq n.bad
          /\ n.count = flash[x].count + 1 \/ (n.count = flash[x].count /\ n.cache = flash[x])
      BY <1>6, <1>7, <1>8
    <2> QED
      BY <1>1, <1>5, <1>6, <1>7, <1>8, <1>9, <1>12, <1>13, <1>14, <1>18, <1>19, <1>20,
         <2>1, <2>2, LoadedSafe
  <1>22. saved = {} \/ ni'.map \in saved
    BY <1>6, <1>7, <1>12 DEF Safe, OffInv
  <1> QED
    BY <1>12, <1>21, <1>22

\* A chip that cannot be used, or not yet.
LEMMA DeadSafe ==
    ASSUME pc' = "dead", Tables' = {}, Present'
    PROVE  Safe'
  <1>1. ~Running' /\ ~Writing' /\ pc' # "erase" /\ pc' # "off" /\ pc' # "signature"
    BY DEF Running, Writing
  <1>2. Aged'
    BY AgedEmpty
  <1> QED
    BY <1>1, <1>2 DEF Safe, OffInv, DeadInv, FitInv, UseInv, KnownInv, RestInv,
       WriteInv, EraseInv

\* What nmbm_scan_badblocks and nmbm_build_mapping_table set.
LEMMA InitialSets ==
    ASSUME NEW n \in Instance, NEW map
    PROVE  LET w == WithInitialMapping(n, map)
           IN  w.bad = n.bad \cup marks /\ w.protected = n.protected /\ w.sig = n.sig
  <1> DEFINE bad == n.bad \cup marks
             changed == n.changed \/ bad # n.bad
             size == Cardinality({b \in Logical : b \notin bad})
             w == [n EXCEPT !.bad = bad, !.changed = changed, !.map = map, !.size = size]
  <1>1. WithInitialMapping(n, map) = w
    BY DEF WithInitialMapping
  <1> HIDE DEF bad, changed, size
  <1>2. w.bad = bad /\ w.protected = n.protected /\ w.sig = n.sig
    BY DEF Instance
  <1> QED
    BY <1>1, <1>2 DEF bad

\* nmbm_create_new.
LEMMA CreateNewSafe ==
    ASSUME TypeInv, Safe, pc = "off", Signatures = {}, NEW map \in Mapping, CreateNew(map),
           UNCHANGED <<flash, marks, saved>>
    PROVE  Safe' /\ saved = {}
  <1>1. Tables = {} /\ saved = {}
    BY DEF Safe, Present
  <1>2. ni' = WithInitialMapping(Fresh, map) /\ pc' = "signature"
    BY DEF CreateNew
  <1>3. ni'.bad = Fresh.bad \cup marks /\ ni'.protected = Fresh.protected
    BY <1>2, FreshType, InitialSets
  <1>4. marks' \subseteq ni'.bad /\ ~ni'.protected
    BY <1>3 DEF Fresh
  <1>5. Tables' = {} /\ Signatures' = {} /\ saved' = {}
    BY <1>1 DEF Tables, Signatures
  <1> QED
    BY <1>1, <1>2, <1>4, <1>5, StillNew

\* nmbm_load_existing without a table.
LEMMA CreateTablesSafe ==
    ASSUME TypeInv, Shape, Safe, pc = "off", NEW ecc, NEW sig \in Blocks, IsSig(sig),
           NEW map \in Mapping, CreateTables(ecc, sig, map), UNCHANGED <<flash, marks>>
    PROVE  Safe' /\ Tables = {}
  <1> DEFINE bad == FoundBad(MgmtStart, sig - 1, ecc)
             changed == bad # {}
             f == [Fresh EXCEPT !.bad = bad, !.sig = sig, !.changed = changed]
             n == WithInitialMapping(f, map)
  <1>1. /\ Loadable(MgmtStart, {}, sig) = {} /\ nmbm_create_info_table(n) /\ saved' = {}
        /\ InitialMapping({b \in Logical : b \notin n.bad}, map)
    BY DEF CreateTables
  <1>2. Tables = {}
    BY <1>1, AllLoadable
  <1>3. bad \subseteq Blocks /\ changed \in BOOLEAN
    BY DEF FoundBad
  <1> HIDE DEF bad, changed
  <1>4. f \in Instance /\ f.sig = sig /\ f.protected = FALSE
    BY <1>3, FreshType DEF Instance, Fresh
  <1>5. f \in Inst
    <2>1. bad \subseteq Int /\ sig \in Places
      BY <1>3, BlockNumbers DEF Blocks, Places
    <2> QED
      BY <1>3, <2>1, FreshShape DEF Inst
  <1> HIDE DEF f
  <1>6. marks \subseteq Blocks /\ marks \subseteq Int
    BY DEF TypeInv, ChipType, Shape
  <1>7. n \in Instance
    BY <1>4, <1>6, InitialType
  <1>8. n \in Inst /\ n.map = map /\ n.sig = f.sig /\ OwnPlace(n.map)
    BY <1>1, <1>5, <1>6, InitialInstance
  <1>9. ~n.protected
    BY <1>4, InitialSets
  <1> HIDE DEF n
  <1>10. n.sig \in Signatures' /\ \A y \in Signatures' : y <= n.sig
    BY <1>4, <1>8, SignatureSame
  <1>11. Tables' = {}
    BY <1>2 DEF Tables
  <1>12. Aged'
    BY <1>11, AgedEmpty
  <1> QED
    BY <1>1, <1>2, <1>7, <1>8, <1>9, <1>10, <1>11, <1>12, CreateSafe

\* Attaching finds what was stored.
LEMMA AttachSafe ==
    ASSUME TypeInv, Shape, Placement, Safe, Attach
    PROVE  /\ Placement' /\ Safe'
           /\ saved # {} /\ "bare" \notin faults => pc' # "dead" /\ ni'.map \in saved
  <1>1. pc = "off" /\ UNCHANGED <<flash, marks, faults>>
    BY DEF Attach, chip
  <1>2. Roomy
    <2>1. \A b \in Tables : Sound(b)
      BY <1>1 DEF Safe, OffInv
    <2> QED
      BY <2>1 DEF Roomy, Sound, Tables
  <1>3. Placement'
    BY <1>2, AttachKeeps
  <1>4. CASE Unusable
    <2>1. Tables = {}
      <3>1. CASE Signatures = {}
        BY <3>1 DEF Safe, Present
      <3>2. CASE Signatures # {}
        <4>1. Loadable(MgmtStart, {}, Maximum(Signatures)) = {}
          BY <1>4, <3>2 DEF Unusable
        <4>2. IsSig(Maximum(Signatures)) /\ Maximum(Signatures) \in Blocks
          BY <3>2, SignatureIsLast
        <4> QED
          BY <1>1, <4>1, <4>2, AllLoadable
      <3> QED
        BY <3>1, <3>2
    <2>2. pc' = "dead" /\ saved' = saved
      BY <1>4 DEF Unusable
    <2>3. Tables' = {} /\ Signatures' = Signatures
      BY <1>1, <2>1 DEF Tables, Signatures
    <2>4. Present'
      BY <1>1, <2>1, <2>2, <2>3 DEF Safe, Present
    <2>5. saved = {} \/ "bare" \in faults
      BY <2>1 DEF Safe, Present
    <2> QED
      BY <1>3, <2>2, <2>3, <2>4, <2>5, DeadSafe
  <1>5. ASSUME Signatures = {}, NEW map \in Mapping, CreateNew(map), UNCHANGED saved
        PROVE  Safe' /\ saved = {}
    BY <1>1, <1>5, CreateNewSafe
  <1>6. ASSUME Signatures # {}, NEW ecc, ecc \subseteq TornBlocks,
               LoadTables(ecc, Maximum(Signatures))
        PROVE  Safe' /\ pc' \in {"idle", "write"} /\ (saved = {} \/ ni'.map \in saved)
    <2>1. IsSig(Maximum(Signatures)) /\ Maximum(Signatures) \in Blocks
      BY <1>6, SignatureIsLast
    <2> DEFINE sig == Maximum(Signatures)
    <2>2. IsSig(sig) /\ sig \in Blocks /\ LoadTables(ecc, sig)
      BY <1>6, <2>1
    <2> HIDE DEF sig
    <2> QED
      BY <1>1, <1>3, <1>6, <2>2, LoadTablesSafe
  <1>7. ASSUME Signatures # {}, NEW ecc, NEW map \in Mapping,
               CreateTables(ecc, Maximum(Signatures), map)
        PROVE  Safe' /\ Tables = {}
    <2> DEFINE sig == Maximum(Signatures)
    <2>1. IsSig(sig) /\ sig \in Blocks
      BY <1>7, SignatureIsLast
    <2>2. CreateTables(ecc, sig, map)
      BY <1>7
    <2> HIDE DEF sig
    <2> QED
      BY <1>1, <1>7, <2>1, <2>2, CreateTablesSafe
  <1>8. Tables = {} => saved = {} \/ "bare" \in faults
    BY DEF Safe, Present
  <1> QED
    BY <1>3, <1>4, <1>5, <1>6, <1>7, <1>8 DEF Attach

-----------------------------------------------------------------------------
(* Power cuts *)

\* The mapping in block b is one that attaching may find.
KnownMap(m) == saved = {} \/ m \in saved \/ (~ni.protected /\ m = ni.map)

\* The tables that a power cut leaves behind.
LEMMA CutSafe ==
    ASSUME TypeInv, Shape, Placement, Running, pc' = "off", marks' = marks,
           saved' = IF ni.protected \/ saved = {} THEN saved ELSE saved \cup {ni.map},
           ni.sig \in Signatures' /\ \A y \in Signatures' : y <= ni.sig,
           Aged', Present',
           \A b \in Tables' : /\ MgmtStart <= b /\ b < ni.top /\ b \notin marks /\ b \notin ni.bad
                              /\ Fit(flash'[b], ni),
           \A a, b, c \in Tables' : a = b \/ b = c \/ a = c,
           \A b \in Tables' :
              (\A c \in Tables' : flash'[c].count <= flash'[b].count) => KnownMap(flash'[b].map)
    PROVE  Safe'
  <1>1. ni.sig \in Int /\ ni.top \in Int /\ ni.top < ni.sig
    BY ShapeFields DEF Running, Placement, TablesBelowPool
  <1>2. ASSUME NEW x, IsSig(x)' PROVE x = ni.sig
    <2>1. x \in Signatures' /\ \A y \in Signatures' : y <= x
      BY <1>2 DEF IsSig
    <2>2. x \in Int /\ x <= ni.sig /\ ni.sig <= x
      BY <2>1, BlockNumbers DEF Signatures
    <2> QED
      BY <1>1, <2>2
  <1>3. ASSUME NEW b \in Tables' PROVE Sound(b)'
    <2>1. b \in Int /\ b < ni.top /\ MgmtStart <= b
      BY BlockNumbers DEF Tables
    <2>2. ASSUME NEW x, IsSig(x)'
          PROVE  b < x - 1 /\ \A lb \in Logical : flash'[b].map[lb] < x
      <3>1. x = ni.sig
        BY <1>2, <2>2
      <3>2. b < ni.sig - 1
        BY <1>1, <2>1
      <3> QED
        BY <3>1, <3>2 DEF Fit
    <2>3. ASSUME NEW c \in Tables'
          PROVE  /\ b \notin flash'[c].bad
                 /\ \A lb \in Logical : \/ flash'[c].map[lb] \in Logical \cup {Unmapped}
                                        \/ b + 1 < flash'[c].map[lb]
      <3>1. b \notin flash'[c].bad
        BY DEF Fit
      <3>2. ASSUME NEW lb \in Logical, flash'[c].map[lb] \notin Logical \cup {Unmapped}
            PROVE  b + 1 < flash'[c].map[lb]
        <4>1. flash'[c].map \in Mapping
          BY DEF Tables, Table
        <4>2. flash'[c].map[lb] \in Int
          BY <4>1, MapNumbers
        <4>3. ni.top < flash'[c].map[lb]
          BY <3>2 DEF Fit, Above
        <4> QED
          BY <1>1, <2>1, <4>2, <4>3
      <3> QED
        BY <3>1, <3>2
    <2>4. Distinct(flash'[b].map)
      BY DEF Fit
    <2>5. Distinct(flash[b].map)'
      BY <2>4 DEF Distinct
    <2> QED
      BY <2>1, <2>2, <2>3, <2>5 DEF Sound
  <1>4. ASSUME NEW b, Newest(b)' PROVE saved' = {} \/ flash'[b].map \in saved'
    <2>1. b \in Tables' /\ \A c \in Tables' : flash'[c].count <= flash'[b].count
      BY <1>4 DEF Newest
    <2>2. KnownMap(flash'[b].map)
      BY <2>1
    <2> QED
      BY <2>2 DEF KnownMap
  <1>5. OffInv'
    BY <1>3, <1>4 DEF OffInv
  <1>6. ~Running' /\ ~Writing' /\ pc' # "erase" /\ pc' \notin {"dead", "signature"}
        /\ pc' \notin {"idle", "request", "map", "mark", "update", "fill", "copy"}
    BY DEF Running, Writing
  <1> QED
    BY <1>5, <1>6 DEF Safe, DeadInv, FitInv, UseInv, KnownInv, RestInv, WriteInv, EraseInv

\* What the power cut leaves when there was no table.
LEMMA CutEmpty ==
    ASSUME pc' = "off", Tables' = {}, Present'
    PROVE  Safe'
  <1>1. ~Running' /\ ~Writing' /\ pc' # "erase" /\ pc' \notin {"dead", "signature"}
        /\ pc' \notin {"idle", "request", "map", "mark", "update", "fill", "copy"}
    BY DEF Running, Writing
  <1>2. Aged'
    BY AgedEmpty
  <1>3. OffInv'
    BY DEF OffInv, Newest
  <1> QED
    BY <1>1, <1>2, <1>3 DEF Safe, DeadInv, FitInv, UseInv, KnownInv, RestInv, WriteInv, EraseInv

\* There are at most two tables, the one being written included.
LEMMA TwoTables ==
    ASSUME TypeInv, Safe, Running, NEW S, S = Tables \/ (pc = "write" /\ S = Tables \cup {wr.ba})
    PROVE  \A a, b, c \in S : a = b \/ b = c \/ a = c
  <1>1. UseInv
    BY DEF Safe
  <1>2. CASE pc \in {"write", "written"}
    <2>1. Writing
      BY <1>2 DEF Writing
    <2>2. PlaceInv
      BY <2>1 DEF Safe, WriteInv
    <2>4. S \subseteq {ni.main, ni.backup, wr.ba}
      BY <1>1, <1>2 DEF UseInv, InUse
    <2>5. \/ wr.ba = ni.main \/ wr.ba = ni.backup
          \/ S \subseteq {ni.main, wr.ba}
      <3>1. CASE wr.for \in {"single main", "once main", "single backup", "once backup"}
        BY <2>2, <3>1 DEF PlaceInv
      <3>2. CASE ni.backup = 0
        <4>1. Tables \subseteq {ni.main, wr.ba}
          BY <1>1, <1>2, <3>2 DEF UseInv, InUse
        <4> QED
          BY <4>1
      <3>3. wr.for \in {"rebuild backup", "rescue front", "rescue next"} => ni.backup = 0
        BY <2>2 DEF PlaceInv
      <3>4. wr.for = "rebuild main" => ni.backup = 0
        BY <1>1, <2>1 DEF UseInv
      <3>5. wr.for \in {"single main", "once main", "single backup", "once backup",
                        "rebuild backup", "rescue front", "rescue next", "rebuild main"}
        <4>1. wr.for \in Writes \cup {"none"}
          BY StepTypes DEF Span
        <4> QED
          BY <2>2, <4>1 DEF PlaceInv, Writes
      <3> QED
        BY <3>1, <3>2, <3>3, <3>4, <3>5
    <2> QED
      BY <2>4, <2>5
  <1>3. CASE pc = "erase"
    <2>1. EraseInv
      BY DEF Safe
    <2>2. CASE wr.for = "rescue next"
      <3>1. ni.backup = 0
        BY <1>3, <2>1, <2>2 DEF EraseInv
      <3>2. S \subseteq {ni.main, wr.tmp}
        BY <1>1, <1>3, <2>2, <3>1 DEF UseInv, InUse
      <3> QED
        BY <3>2
    <2>3. CASE wr.for # "rescue next"
      <3>1. S \subseteq {ni.main, ni.backup}
        BY <1>1, <1>3, <2>3 DEF UseInv, InUse
      <3> QED
        BY <3>1
    <2> QED
      BY <2>2, <2>3
  <1>4. CASE pc \notin {"write", "written", "erase"}
    <2>1. S \subseteq {ni.main, ni.backup}
      BY <1>1, <1>4 DEF UseInv, InUse
    <2> QED
      BY <2>1
  <1> QED
    BY <1>2, <1>3, <1>4

\* Another table is left, if the one being written is not the only one.
LEMMA OneLeft ==
    ASSUME TypeInv, Shape, Placement, Safe, pc = "write", wr.ba < wr.lim,
           ~OneTableRewritten, saved # {}
    PROVE  \E x \in Tables : x # wr.ba
  <1>1. Running /\ Writing /\ pc # "written" /\ pc # "erase"
    BY DEF Running, Writing
  <1>2. CallInv /\ PlaceInv /\ UseInv
    BY <1>1 DEF Safe, WriteInv
  <1>3. Tables = {ni.main, ni.backup} \ {0} /\ ((ni.main = 0) <=> (wr.for = "rebuild main"))
    BY <1>1, <1>2 DEF UseInv, InUse
  <1>4. wr.for # "rebuild main" /\ wr.for # "rebuild backup"
        /\ (wr.for = "once main" => ni.backup # 0)
    BY <1>2 DEF OneTableRewritten, CallInv
  <1>5. wr.for \in {"single main", "once main", "single backup", "once backup",
                    "rescue front", "rescue next"}
    <2>1. wr.for \in Writes \cup {"none"}
      BY StepTypes DEF Span
    <2> QED
      BY <1>2, <1>4, <2>1 DEF PlaceInv, Writes
  <1>6. WriteRange(ni, wr) /\ TablesBelowPool(ni)
    BY WhileWriting
  <1>7. /\ ni.main \in Int /\ ni.backup \in Int /\ ni.next \in Int /\ wr.ba \in Int /\ ni.main # 0
    BY <1>3, <1>4, ShapeFields
  <1>8. ni.main < ni.next /\ (ni.backup # 0 => ni.main < ni.backup)
    BY <1>6, <1>7 DEF TablesBelowPool
  <1>9. ni.backup # 0 => ni.main # ni.backup
    BY <1>7, <1>8
  <1>10. CASE wr.for \in {"single backup", "once backup"}
    <2>1. wr.ba = ni.backup /\ ni.backup # 0
      BY <1>2, <1>10 DEF PlaceInv
    <2> QED
      BY <1>3, <1>7, <1>9, <2>1
  <1>11. CASE wr.for \in {"single main", "once main"}
    <2>1. wr.ba = ni.main /\ ni.backup # 0
      BY <1>2, <1>4, <1>6, <1>11 DEF PlaceInv, WriteRange
    <2> QED
      BY <1>3, <1>9, <2>1
  <1>12. CASE wr.for = "rescue next"
    <2>1. ni.next <= wr.ba
      BY <1>6, <1>12 DEF WriteRange
    <2>2. ni.main # wr.ba
      BY <1>7, <1>8, <2>1
    <2> QED
      BY <1>3, <1>7, <2>2
  <1>13. CASE wr.for = "rescue front"
    <2>1. wr.lim = ni.main
      BY <1>6, <1>13 DEF WriteRange
    <2>2. ni.main # wr.ba
      BY <1>7, <2>1
    <2> QED
      BY <1>3, <1>7, <2>2
  <1> QED
    BY <1>5, <1>10, <1>11, <1>12, <1>13

\* The block a table is being written to may have lost its contents.
LEMMA TableTorn ==
    ASSUME TypeInv, Shape, Placement, Safe, pc = "write", Usable, NEW c, c \notin Table,
           flash' = [flash EXCEPT ![wr.ba] = c]
    PROVE  /\ Tables' = Tables \ {wr.ba} /\ Aged'
           /\ \A b \in Tables' : flash'[b] = flash[b]
  <1>1. wr.ba \in Blocks
    BY RangeBlock DEF Usable
  <1>2. flash \in [Blocks -> Content]
    BY DEF TypeInv, ChipType
  <1>3. flash'[wr.ba] = c /\ \A b \in Blocks : b # wr.ba => flash'[b] = flash[b]
    BY <1>1, <1>2
  <1>4. Tables' = Tables \ {wr.ba}
    BY <1>1, <1>3 DEF Tables
  <1>5. \A b \in Tables' : flash'[b] = flash[b]
    BY <1>3, <1>4 DEF Tables
  <1>6. Aged'
    BY <1>4, <1>5 DEF Safe, Aged
  <1> QED
    BY <1>4, <1>5, <1>6

\* The newest table is known, unless it is being replaced.
LEMMA NewestKnown ==
    ASSUME TypeInv, Shape, Placement, Safe, Running, NEW b \in Tables,
           \A c \in Tables : flash[c].count <= flash[b].count
    PROVE  KnownMap(flash[b].map)
  <1>1. Known(b) => KnownMap(flash[b].map)
    BY DEF Known, KnownMap
  <1>2. Known(b) \/ Outdated(b)
    BY DEF Safe, KnownInv
  <1>3. ASSUME Outdated(b) PROVE FALSE
    <2>1. pc = "write" /\ wr.for \in {"single main", "single backup"}
      BY <1>3 DEF Outdated
    <2>2. Writing
      BY <2>1 DEF Writing
    <2>3. WriteRange(ni, wr)
      BY <2>1, WhileWriting
    <2>4. ni.main # 0 /\ ni.backup # 0
      BY <2>1, <2>2, <2>3 DEF Safe, UseInv, WriteRange
    <2>5. ni.main \in Tables /\ ni.backup \in Tables
      BY <2>4 DEF Safe, UseInv, InUse
    <2>6. flash[b].count \in Nat /\ flash[ni.main].count \in Nat /\ flash[ni.backup].count \in Nat
      BY <2>5 DEF Tables, Table
    <2>7. \/ flash[b].count < flash[ni.backup].count
          \/ flash[b].count < flash[ni.main].count
      BY <1>3 DEF Outdated
    <2>8. flash[ni.main].count <= flash[b].count /\ flash[ni.backup].count <= flash[b].count
      BY <2>5
    <2> QED
      BY <2>6, <2>7, <2>8
  <1> QED
    BY <1>1, <1>2, <1>3

\* The tables that are not written are known.
LEMMA OthersKnown ==
    ASSUME TypeInv, Shape, Placement, Safe, pc = "write", NEW b \in Tables, b # wr.ba
    PROVE  KnownMap(flash[b].map)
  <1>1. Running /\ Writing
    BY DEF Running, Writing
  <1>2. PlaceInv
    BY <1>1 DEF Safe, WriteInv
  <1>3. ASSUME Outdated(b) PROVE FALSE
    <2>1. \/ wr.for = "single main" /\ b = ni.main
          \/ wr.for = "single backup" /\ b = ni.backup
      BY <1>3 DEF Outdated
    <2>2. CASE wr.for = "single main" /\ b = ni.main
      BY <1>2, <2>2 DEF PlaceInv
    <2>3. CASE wr.for = "single backup" /\ b = ni.backup
      BY <1>2, <2>3 DEF PlaceInv
    <2> QED
      BY <2>1, <2>2, <2>3
  <1>4. Known(b)
    BY <1>1, <1>3 DEF Safe, KnownInv
  <1> QED
    BY <1>4 DEF Known, KnownMap

\* The tables are as they were when the power is cut.
LEMMA CutSame ==
    ASSUME TypeInv, Shape, Placement, Safe, Running, PowerCut, Same,
           ni.sig \in Signatures' /\ \A y \in Signatures' : y <= ni.sig
    PROVE  Safe'
  <1>1. /\ pc' = "off" /\ marks' = marks
        /\ saved' = IF ni.protected \/ saved = {} THEN saved ELSE saved \cup {ni.map}
        /\ "bare" \in faults => "bare" \in faults'
    BY DEF PowerCut
  <1>2. saved' # {} => saved # {}
    BY <1>1
  <1>3. Aged' /\ Present'
    BY <1>1, <1>2, AgedSame, PresentSame DEF Safe
  <1>4. Tables' = Tables /\ \A b \in Tables : flash'[b] = flash[b]
    BY DEF Same
  <1>5. ASSUME NEW b \in Tables'
        PROVE  /\ MgmtStart <= b /\ b < ni.top /\ b \notin marks /\ b \notin ni.bad
               /\ Fit(flash'[b], ni)
    <2>1. b \in Tables /\ flash'[b] = flash[b]
      BY <1>4
    <2>2. MgmtStart <= b /\ b < ni.top
      BY <2>1, TablePlaces
    <2>3. b \notin marks /\ b \notin ni.bad /\ Fit(flash[b], ni)
      BY <2>1 DEF Safe, FitInv
    <2> QED
      BY <2>1, <2>2, <2>3
  <1>6. \A a, b, c \in Tables' : a = b \/ b = c \/ a = c
    BY <1>4, TwoTables
  <1>7. ASSUME NEW b \in Tables', \A c \in Tables' : flash'[c].count <= flash'[b].count
        PROVE  KnownMap(flash'[b].map)
    <2>1. b \in Tables /\ flash'[b] = flash[b]
      BY <1>4
    <2>2. \A c \in Tables : flash[c].count <= flash[b].count
      BY <1>4, <1>7, <2>1
    <2>3. KnownMap(flash[b].map)
      BY <2>1, <2>2, NewestKnown
    <2> QED
      BY <2>1, <2>3
  <1> QED
    BY <1>1, <1>3, <1>5, <1>6, <1>7, CutSafe

\* The power is cut while a block without table is worked on.
LEMMA CutElsewhere ==
    ASSUME TypeInv, Shape, Placement, Safe, Running, PowerCut, NEW b \in Blocks, b \notin Tables,
           b < ni.sig, NEW c, c \notin Table, flash' = [flash EXCEPT ![b] = c]
    PROVE  Safe'
  <1>1. Same
    BY OtherBlock
  <1>2. IsSig(ni.sig) /\ marks' = marks
    BY DEF Safe, FitInv, PowerCut
  <1>3. ni.sig \in Blocks /\ ni.sig \notin marks'
    BY <1>2 DEF IsSig, Signatures
  <1>4. ni.sig \in Signatures' /\ \A y \in Signatures' : y <= ni.sig
    BY <1>2, <1>3, SignatureStays
  <1> QED
    BY <1>1, <1>4, CutSame

\* It is cut between two operations.
LEMMA CutBetween ==
    ASSUME TypeInv, Shape, Placement, Safe, Running, PowerCut, flash' = flash
    PROVE  Safe'
  <1>1. Same
    BY NoBlock
  <1>2. IsSig(ni.sig) /\ marks' = marks
    BY DEF Safe, FitInv, PowerCut
  <1>3. ni.sig \in Signatures' /\ \A y \in Signatures' : y <= ni.sig
    BY <1>2, SignatureSame
  <1> QED
    BY <1>1, <1>3, CutSame

\* A table is being written: the block it is in may hold the new one,
LEMMA CutWritten ==
    ASSUME TypeInv, Shape, Placement, Safe, PowerCut, pc = "write", Usable,
           flash' = [flash EXCEPT ![wr.ba] = ni.cache]
    PROVE  Safe'
  <1>1. Running /\ Writing
    BY DEF Running, Writing
  <1>2. /\ pc' = "off" /\ marks' = marks
        /\ saved' = IF ni.protected \/ saved = {} THEN saved ELSE saved \cup {ni.map}
        /\ "bare" \in faults => "bare" \in faults'
    BY DEF PowerCut
  <1>3. /\ Tables' = Tables \cup {wr.ba} /\ flash'[wr.ba] = ni.cache /\ Aged'
        /\ \A b \in Tables : b # wr.ba => flash'[b] = flash[b]
        /\ Fit(ni.cache, ni) /\ ni.cache \in Table /\ ni.cache.map = ni.map
    BY CacheAdded
  <1>4. wr.ba < wr.lim
    BY DEF Usable
  <1>5. /\ wr.ba \in Blocks /\ wr.ba \in Int /\ MgmtStart <= wr.ba /\ wr.ba < ni.top
        /\ ni.top < ni.sig /\ wr.ba < ni.sig - 1
    BY <1>4, RangeBlock
  <1>6. IsSig(ni.sig)
    BY <1>1 DEF Safe, FitInv
  <1>7. ni.sig \in Blocks /\ ni.sig \notin marks' /\ ni.sig \in Int
    BY <1>2, <1>6, BlockNumbers DEF IsSig, Signatures
  <1>8. wr.ba < ni.sig
    BY <1>5, <1>7
  <1>9. ni.sig \in Signatures' /\ \A y \in Signatures' : y <= ni.sig
    BY <1>2, <1>5, <1>6, <1>7, <1>8, SignatureStays
  <1>10. Present'
    BY <1>3, <1>9 DEF Present
  <1>11. ASSUME NEW b \in Tables'
         PROVE  /\ MgmtStart <= b /\ b < ni.top /\ b \notin marks /\ b \notin ni.bad
                /\ Fit(flash'[b], ni)
    <2>1. CASE b = wr.ba
      <3>1. wr.ba \notin marks /\ wr.ba \notin ni.bad
        BY DEF Usable
      <3> QED
        BY <1>3, <1>5, <2>1, <3>1
    <2>2. CASE b # wr.ba
      <3>1. b \in Tables /\ flash'[b] = flash[b]
        BY <1>3, <2>2
      <3>2. MgmtStart <= b /\ b < ni.top
        BY <1>1, <3>1, TablePlaces
      <3>3. b \notin marks /\ b \notin ni.bad /\ Fit(flash[b], ni)
        BY <1>1, <3>1 DEF Safe, FitInv
      <3> QED
        BY <3>1, <3>2, <3>3
    <2> QED
      BY <2>1, <2>2
  <1>12. \A a, b, c \in Tables' : a = b \/ b = c \/ a = c
    BY <1>1, <1>3, TwoTables
  <1>13. ASSUME NEW b \in Tables' PROVE KnownMap(flash'[b].map)
    <2>1. CASE b = wr.ba
      <3>1. ~ni.protected
        BY <1>1 DEF Safe, WriteInv
      <3> QED
        BY <1>3, <2>1, <3>1 DEF KnownMap
    <2>2. CASE b # wr.ba
      <3>1. b \in Tables /\ flash'[b] = flash[b]
        BY <1>3, <2>2
      <3>2. KnownMap(flash[b].map)
        BY <2>2, <3>1, OthersKnown
      <3> QED
        BY <3>1, <3>2
    <2> QED
      BY <2>1, <2>2
  <1> QED
    BY <1>1, <1>2, <1>3, <1>9, <1>10, <1>11, <1>12, <1>13, CutSafe

\* or no table at all.
LEMMA CutTorn ==
    ASSUME TypeInv, Shape, Placement, Safe, PowerCut, pc = "write", Usable, NEW x, x \notin Table,
           flash' = [flash EXCEPT ![wr.ba] = x]
    PROVE  Safe'
  <1>1. Running /\ Writing
    BY DEF Running, Writing
  <1>2. /\ pc' = "off" /\ marks' = marks
        /\ saved' = IF ni.protected \/ saved = {} THEN saved ELSE saved \cup {ni.map}
        /\ faults' = IF OneTableRewritten THEN faults \cup {"bare"} ELSE faults
    BY DEF PowerCut
  <1>3. Tables' = Tables \ {wr.ba} /\ Aged' /\ \A b \in Tables' : flash'[b] = flash[b]
    BY TableTorn
  <1>4. wr.ba < wr.lim
    BY DEF Usable
  <1>5. wr.ba \in Blocks /\ wr.ba \in Int /\ wr.ba < ni.sig - 1
    BY <1>4, RangeBlock
  <1>6. IsSig(ni.sig)
    BY <1>1 DEF Safe, FitInv
  <1>7. ni.sig \in Blocks /\ ni.sig \notin marks' /\ ni.sig \in Int
    BY <1>2, <1>6, BlockNumbers DEF IsSig, Signatures
  <1>8. wr.ba < ni.sig
    BY <1>5, <1>7
  <1>9. ni.sig \in Signatures' /\ \A y \in Signatures' : y <= ni.sig
    BY <1>2, <1>5, <1>6, <1>7, <1>8, SignatureStays
  <1>10. Present'
    <2>1. ASSUME saved' # {}, "bare" \notin faults' PROVE Tables' # {}
      <3>1. saved # {} /\ ~OneTableRewritten
        BY <1>2, <2>1
      <3>2. \E y \in Tables : y # wr.ba
        BY <1>4, <3>1, OneLeft
      <3> QED
        BY <1>3, <3>2
    <2> QED
      BY <1>9, <2>1 DEF Present
  <1>11. ASSUME NEW b \in Tables'
         PROVE  /\ MgmtStart <= b /\ b < ni.top /\ b \notin marks /\ b \notin ni.bad
                /\ Fit(flash'[b], ni)
    <2>1. b \in Tables /\ flash'[b] = flash[b]
      BY <1>3
    <2>2. MgmtStart <= b /\ b < ni.top
      BY <1>1, <2>1, TablePlaces
    <2>3. b \notin marks /\ b \notin ni.bad /\ Fit(flash[b], ni)
      BY <1>1, <2>1 DEF Safe, FitInv
    <2> QED
      BY <2>1, <2>2, <2>3
  <1>12. \A a, b, c \in Tables' : a = b \/ b = c \/ a = c
    <2>1. \A a, b, c \in Tables : a = b \/ b = c \/ a = c
      BY <1>1, TwoTables
    <2> QED
      BY <1>3, <2>1
  <1>13. ASSUME NEW b \in Tables' PROVE KnownMap(flash'[b].map)
    <2>1. b \in Tables /\ b # wr.ba /\ flash'[b] = flash[b]
      BY <1>3
    <2>2. KnownMap(flash[b].map)
      BY <2>1, OthersKnown
    <2> QED
      BY <2>1, <2>2
  <1> QED
    BY <1>1, <1>2, <1>3, <1>9, <1>10, <1>11, <1>12, <1>13, CutSafe

\* A block of data is being worked on.
LEMMA CutData ==
    ASSUME TypeInv, Shape, Placement, Safe, PowerCut, pc \in {"copy", "request"},
           NEW c \in Remains(ni.map[req.lb]), flash' = [flash EXCEPT ![ni.map[req.lb]] = c]
    PROVE  Safe'
  <1> DEFINE pb == ni.map[req.lb]
  <1>1. Running /\ req.op # "none"
    BY DEF Running, TypeInv, StepType
  <1>2. pb # Unmapped /\ req.lb \in Logical
    BY <1>1, MappedBlock DEF TypeInv, StepType
  <1>3. pb \in Blocks /\ pb \notin Tables /\ pb < ni.sig
    BY <1>1, <1>2, DataPlaces
  <1>4. flash[pb] \notin Table
    BY <1>3 DEF Tables
  <1>5. flash[req.old] \notin Table
    BY <1>1, OldPlaces DEF Tables
  <1>6. c \notin Table
    <2>1. CASE pc = "copy"
      <3>1. c \in {flash[pb]} \cup {Empty, Torn} \cup Copied(flash[req.old], CopyLen)
        BY <2>1 DEF Remains
      <3>2. CASE c \in Copied(flash[req.old], CopyLen)
        BY <1>5, <3>2, CopiedNoTable
      <3>3. CASE c \in {flash[pb], Empty, Torn}
        BY <1>4, <3>3, NotTables
      <3> QED
        BY <3>1, <3>2, <3>3
    <2>2. CASE pc = "request"
      <3>1. c \in {flash[pb], Empty, Torn, Page(req.lb, acked[req.lb] + 1)}
        BY <2>2 DEF Remains
      <3> QED
        BY <1>4, <3>1, NotTables
    <2> QED
      BY <2>1, <2>2
  <1> HIDE DEF pb
  <1>7. flash' = [flash EXCEPT ![pb] = c]
    BY DEF pb
  <1> QED
    BY <1>1, <1>3, <1>6, <1>7, CutElsewhere

\* The spare blocks are being erased.
LEMMA CutErasing ==
    ASSUME TypeInv, Shape, Placement, Safe, PowerCut, pc = "erase", Usable,
           NEW c \in Remains(wr.ba), flash' = [flash EXCEPT ![wr.ba] = c]
    PROVE  Safe'
  <1>1. Running
    BY DEF Running
  <1>2. wr.ba < wr.lim
    BY DEF Usable
  <1>3. /\ wr.ba \in Blocks /\ wr.ba \in Int /\ ni.top < ni.sig /\ wr.ba < ni.top
    BY <1>2, RangeBlock
  <1>4. wr.ba < ni.sig
    BY <1>3, ShapeFields
  <1>5. wr.lim \in Int
    BY ShapeFields
  <1>6. \A b \in Tables : b < wr.ba \/ wr.lim <= b
    BY DEF Safe, EraseInv
  <1>7. wr.ba \notin Tables
    BY <1>2, <1>3, <1>5, <1>6
  <1>8. c \in {flash[wr.ba], Empty, Torn}
    BY DEF Remains
  <1>9. c \notin Table
    BY <1>3, <1>7, <1>8, NotTables DEF Tables
  <1> QED
    BY <1>1, <1>3, <1>4, <1>7, <1>9, CutElsewhere

\* A table is being written.
LEMMA CutWriting ==
    ASSUME TypeInv, Shape, Placement, Safe, PowerCut, pc = "write", Usable,
           NEW c \in Remains(wr.ba), flash' = [flash EXCEPT ![wr.ba] = c]
    PROVE  Safe'
  <1>1. c \in {flash[wr.ba], Empty, Torn, ni.cache}
    BY DEF Remains
  <1>2. CASE c = flash[wr.ba]
    <2>1. flash' = flash
      <3>1. flash \in [Blocks -> Content]
        BY DEF TypeInv, ChipType
      <3> QED
        BY <1>2, <3>1
    <2>2. Running
      BY DEF Running
    <2> QED
      BY <2>1, <2>2, CutBetween
  <1>3. CASE c = ni.cache
    BY <1>3, CutWritten
  <1>4. CASE c = Empty \/ c = Torn
    BY <1>4, NotTables, CutTorn
  <1> QED
    BY <1>1, <1>2, <1>3, <1>4

\* The signature is being written.
LEMMA CutNew ==
    ASSUME TypeInv, Safe, PowerCut, pc = "signature"
    PROVE  Safe'
  <1>1. Tables = {} /\ saved = {}
    BY DEF Safe, DeadInv
  <1>2. saved' = {} /\ pc' = "off"
    BY <1>1 DEF PowerCut
  <1>3. Same
    <2>1. CASE Target = {} /\ flash' = flash
      BY <2>1, NoBlock
    <2>2. ASSUME NEW b \in Target, NEW c \in Remains(b), flash' = [flash EXCEPT ![b] = c]
          PROVE  Same
      <3>1. b = wr.ba /\ c \in {flash[b], Empty, Torn, Signature}
        BY <2>2 DEF Target, Remains
      <3>2. CASE b \in Blocks
        <4>1. flash[b] \notin Table
          BY <1>1, <3>2 DEF Tables
        <4>2. c \notin Table
          BY <3>1, <4>1, NotTables
        <4> QED
          BY <1>1, <2>2, <4>2, OtherBlock
      <3>3. CASE b \notin Blocks
        <4>1. flash \in [Blocks -> Content]
          BY DEF TypeInv, ChipType
        <4>2. flash' = flash
          BY <2>2, <3>3, <4>1
        <4> QED
          BY <4>2, NoBlock
      <3> QED
        BY <3>2, <3>3
    <2> QED
      BY <2>1, <2>2 DEF PowerCut
  <1>4. Tables' = {}
    BY <1>1, <1>3 DEF Same
  <1>5. Present'
    BY <1>2, <1>4 DEF Present
  <1> QED
    BY <1>2, <1>4, <1>5, CutEmpty

\* The device could not be attached to.
LEMMA CutDead ==
    ASSUME Safe, PowerCut, pc = "dead"
    PROVE  Safe'
  <1>1. Tables = {} /\ flash' = flash /\ pc' = "off" /\ marks' = marks
    BY DEF Safe, DeadInv, PowerCut, Target
  <1>2. (saved' # {} => saved # {}) /\ faults \subseteq faults'
    BY DEF PowerCut
  <1>3. Tables' = {}
    BY <1>1 DEF Tables
  <1>4. Signatures' = Signatures
    BY <1>1 DEF Signatures
  <1>5. Present'
    BY <1>1, <1>2, <1>3, <1>4 DEF Safe, Present
  <1> QED
    BY <1>1, <1>3, <1>5, CutEmpty

\* A power cut leaves tables that attaching can use.
LEMMA PowerCutSafe ==
    ASSUME TypeInv, Shape, Placement, Safe, PowerCut
    PROVE  Safe'
  <1>1. CASE pc = "dead"
    BY <1>1, CutDead
  <1>2. CASE pc = "signature"
    BY <1>2, CutNew
  <1>3. CASE pc \notin {"dead", "signature"}
    <2>1. Running /\ pc # "repair"
      <3>1. Running
        BY <1>3 DEF Running, PowerCut
      <3> QED
        BY <3>1 DEF Safe, FitInv
    <2>2. CASE flash' = flash
      BY <2>1, <2>2, CutBetween
    <2>3. ASSUME NEW b \in Target, NEW c \in Remains(b), flash' = [flash EXCEPT ![b] = c]
          PROVE  Safe'
      <3>1. CASE pc = "write"
        <4>1. b = wr.ba /\ Usable
          BY <3>1 DEF Target
        <4> QED
          BY <2>3, <3>1, <4>1, CutWriting
      <3>2. CASE pc = "erase"
        <4>1. b = wr.ba /\ Usable
          BY <3>2 DEF Target
        <4> QED
          BY <2>3, <3>2, <4>1, CutErasing
      <3>3. CASE pc \notin {"write", "erase"}
        <4>1. b = ni.map[req.lb] /\ pc \in {"copy", "request"}
          BY <1>3, <2>1, <2>3, <3>3 DEF Target
        <4> QED
          BY <2>3, <4>1, CutData
      <3> QED
        BY <3>1, <3>2, <3>3
    <2> QED
      BY <2>2, <2>3 DEF PowerCut
  <1> QED
    BY <1>1, <1>2, <1>3

-----------------------------------------------------------------------------
(* The chip before the first boot *)

\* Where nmbm_create_new puts the top of the pool and the tables of a new chip.
LEMMA FirstBlocks ==
    ASSUME NEW n, NEW s \in Blocks,
           NEW t \in SkipDown(Descending(n, s, MgmtStart), 1),
           NEW m \in SkipUp(Ascending(n, MgmtStart, t), 0),
           NEW r, r.top = t, r.bad = n.bad, NEW k \in nmbm_try_reserve_blocks(r, m + 1)
    PROVE  /\ t \in Int /\ MgmtStart < t /\ t < s
           /\ m \in Blocks /\ MgmtStart <= m /\ m < t /\ m \notin n.bad
           /\ k \in Blocks /\ MgmtStart <= k /\ k < t /\ k \notin n.bad
  <1>1. t \in Blocks /\ MgmtStart < t /\ t <= s
    BY DEF SkipDown, Descending
  <1>2. s \in Int /\ t \in Int /\ MgmtStart \in Int
    BY <1>1, BlockNumbers
  <1>3. t # s
    <2> DEFINE walk == Descending(n, s, MgmtStart)
               above == {c \in walk : c > t}
    <2>1. Cardinality(above) = 1
      BY DEF SkipDown
    <2>2. above # {}
      BY <2>1, FS_EmptySet
    <2>3. PICK c \in walk : c > t
      BY <2>2
    <2>4. c \in Int /\ c <= s
      BY BlockNumbers DEF Descending
    <2> QED
      BY <1>2, <2>3, <2>4
  <1>4. m \in Blocks /\ MgmtStart <= m /\ m < t /\ m \notin n.bad
    BY DEF SkipUp, Ascending, Good
  <1>5. k \in Blocks /\ m + 1 <= k /\ k < t - 1 /\ k \notin n.bad
    BY DEF nmbm_try_reserve_blocks, SkipUp, Ascending, Good
  <1>6. m \in Int /\ k \in Int
    BY <1>4, <1>5, BlockNumbers
  <1>7. MgmtStart <= k /\ k < t
    BY <1>2, <1>4, <1>5, <1>6
  <1>8. t < s
    BY <1>1, <1>2, <1>3
  <1> QED
    BY <1>1, <1>2, <1>4, <1>5, <1>7, <1>8

\* What a chip from production holds, and where.
LEMMA PreparedPlaces ==
    ASSUME NEW bad \in SUBSET Blocks, Prepared(bad)
    PROVE  \E s \in Blocks \ bad : \E t \in Int : \E m, k \in Blocks \ bad :
              /\ MgmtStart < t /\ t < s
              /\ MgmtStart <= m /\ m < t /\ MgmtStart <= k /\ k < t
              /\ flash = [b \in Blocks |-> IF b = s THEN Signature
                                ELSE IF b \in {m, k} THEN FirstTable(bad) ELSE Empty]
  <1> DEFINE n == [Fresh EXCEPT !.bad = bad]
             s == Maximum({b \in Blocks : Good(n, b)})
  <1>1. PICK t \in SkipDown(Descending(n, s, MgmtStart), 1) :
          \E m \in SkipUp(Ascending(n, MgmtStart, t), 0) :
          \E k \in nmbm_try_reserve_blocks([n EXCEPT !.top = t], m + 1) :
                flash = [b \in Blocks |-> IF b = s THEN Signature
                                ELSE IF b \in {m, k} THEN FirstTable(bad) ELSE Empty]
    BY Zenon DEF Prepared, FirstTable, OwnMap
  <1>2. PICK m \in SkipUp(Ascending(n, MgmtStart, t), 0) :
          \E k \in nmbm_try_reserve_blocks([n EXCEPT !.top = t], m + 1) :
                flash = [b \in Blocks |-> IF b = s THEN Signature
                                ELSE IF b \in {m, k} THEN FirstTable(bad) ELSE Empty]
    BY <1>1
  <1>3. PICK k \in nmbm_try_reserve_blocks([n EXCEPT !.top = t], m + 1) :
                flash = [b \in Blocks |-> IF b = s THEN Signature
                                ELSE IF b \in {m, k} THEN FirstTable(bad) ELSE Empty]
    BY <1>2
  <1>4. n.bad = bad
    BY DEF Fresh
  <1>5. LET r == [n EXCEPT !.top = t] IN r.top = t /\ r.bad = bad
    BY DEF Fresh
  <1> HIDE DEF n
  <1>6. {b \in Blocks : Good(n, b)} # {}
    BY <1>1 DEF SkipDown, Descending
  <1>7. \A b \in {c \in Blocks : Good(n, c)} : b \in Int /\ b <= BlockCount
    BY BlockNumbers
  <1>8. s \in {b \in Blocks : Good(n, b)}
    BY <1>6, <1>7, BlockNumbers, MaximumIsGreatest
  <1>9. s \in Blocks \ bad
    BY <1>4, <1>8 DEF Good
  <1> HIDE DEF s
  <1>10. /\ t \in Int /\ MgmtStart < t /\ t < s
        /\ m \in Blocks /\ MgmtStart <= m /\ m < t /\ m \notin n.bad
        /\ k \in Blocks /\ MgmtStart <= k /\ k < t /\ k \notin n.bad
    BY <1>4, <1>5, <1>9, FirstBlocks
  <1> QED
    BY <1>3, <1>4, <1>9, <1>10

\* The tables of a chip from production can be loaded.
LEMMA PreparedSafe ==
    ASSUME NEW bad \in SUBSET Blocks, Prepared(bad), pc = "off", marks = bad, saved = {OwnMap}
    PROVE  Safe
  <1> DEFINE ft == FirstTable(bad)
  <1>1. PICK s \in Blocks \ bad, t \in Int, m \in Blocks \ bad, k \in Blocks \ bad :
              /\ MgmtStart < t /\ t < s
              /\ MgmtStart <= m /\ m < t /\ MgmtStart <= k /\ k < t
              /\ flash = [b \in Blocks |-> IF b = s THEN Signature
                                ELSE IF b \in {m, k} THEN ft ELSE Empty]
    BY PreparedPlaces
  <1>2. s \in Int /\ m \in Int /\ k \in Int /\ MgmtStart \in Int
    BY BlockNumbers
  <1>3. OwnMap \in Mapping /\ \A lb \in Logical : lb \in Int /\ lb < MgmtStart
    BY GeometryAssumption DEF OwnMap, Mapping, Logical, Blocks
  <1>4. ft \in Table /\ ft.map = OwnMap /\ ft.bad = bad
    <2>1. (IF bad = {} THEN 0 ELSE 1) \in Nat
      OBVIOUS
    <2> QED
      BY <1>3, <2>1 DEF FirstTable, Table
  <1> HIDE DEF ft
  <1>5. m # s /\ k # s /\ m < s - 1 /\ k < s - 1
    BY <1>1, <1>2
  <1>6. Tables = {m, k} /\ \A b \in Tables : flash[b] = ft
    BY <1>1, <1>4, <1>5, NotTables DEF Tables
  <1>7. Signature # ft /\ Signature # Empty
    BY <1>4, NotTables DEF Signature, Empty
  <1>8. Signatures = {s}
    BY <1>1, <1>7 DEF Signatures
  <1>9. Distinct(OwnMap) /\ OwnPlace(OwnMap)
    BY DEF Distinct, OwnPlace, OwnMap
  <1>10. Aged
    <2>1. ft.count \in Nat
      BY <1>4 DEF Table
    <2>2. ~(ft.count < ft.count)
      BY <2>1
    <2> QED
      BY <1>6, <2>2 DEF Aged
  <1>11. Present
    BY <1>6, <1>8 DEF Present
  <1>12. ASSUME NEW b \in Tables PROVE Sound(b)
    <2>1. b \in Int /\ b < s - 1 /\ MgmtStart <= b /\ b \notin bad
      BY <1>1, <1>2, <1>5, <1>6
    <2>2. flash[b].map = OwnMap
      BY <1>4, <1>6
    <2>3. ASSUME NEW x, IsSig(x) PROVE b < x - 1 /\ \A lb \in Logical : flash[b].map[lb] < x
      <3>1. x = s
        BY <1>8, <2>3 DEF IsSig
      <3>2. \A lb \in Logical : OwnMap[lb] < s
        BY <1>1, <1>2, <1>3 DEF OwnMap
      <3> QED
        BY <2>1, <2>2, <3>1, <3>2
    <2>4. \A c \in Tables : b \notin flash[c].bad
                /\ \A lb \in Logical : flash[c].map[lb] \in Logical
      BY <1>4, <1>6, <2>1 DEF OwnMap
    <2> QED
      BY <1>9, <2>1, <2>2, <2>3, <2>4 DEF Sound
  <1>13. \A a, b, c \in Tables : a = b \/ b = c \/ a = c
    BY <1>6
  <1>14. \A b : Newest(b) => flash[b].map \in saved
    BY <1>4, <1>6 DEF Newest
  <1>15. OffInv
    BY <1>12, <1>13, <1>14 DEF OffInv
  <1>16. ~Running /\ ~Writing /\ pc # "erase" /\ pc \notin {"dead", "signature"}
         /\ pc \notin {"idle", "request", "map", "mark", "update", "fill", "copy"}
    BY DEF Running, Writing
  <1> QED
    BY <1>10, <1>11, <1>15, <1>16
    DEF Safe, DeadInv, FitInv, UseInv, KnownInv, RestInv, WriteInv, EraseInv

\* The chips to start from.
LEMMA SafeInitially ==
    ASSUME Init
    PROVE  Placement /\ Safe
  <1>1. PICK s \in Scenarios :
            /\ \/ s.prepared /\ Prepared(s.bad)
               \/ ~s.prepared /\ flash = [b \in Blocks |-> Empty]
            /\ marks = s.bad /\ pc = "off" /\ ni = Fresh
            /\ saved = IF s.prepared THEN {OwnMap} ELSE {}
    BY DEF Init, OwnMap
  <1>2. s.bad \in SUBSET Blocks
    BY <1>1, ScenarioAssumption DEF Scenario
  <1>3. Placement
    <2>1. NoSharing
      BY <1>1, FreshDistinct DEF NoSharing, Distinct
    <2> QED
      BY <1>1, <2>1 DEF Placement
  <1>4. CASE s.prepared /\ Prepared(s.bad)
    BY <1>1, <1>2, <1>3, <1>4, PreparedSafe
  <1>5. CASE ~s.prepared /\ flash = [b \in Blocks |-> Empty]
    <2>1. Tables = {} /\ saved = {}
      BY <1>1, <1>5, NotTables DEF Tables
    <2>2. Aged /\ Present /\ OffInv
      BY <2>1 DEF Aged, Present, OffInv, Newest
    <2>3. ~Running /\ ~Writing /\ pc # "erase" /\ pc \notin {"dead", "signature"}
          /\ pc \notin {"idle", "request", "map", "mark", "update", "fill", "copy"}
      BY <1>1 DEF Running, Writing
    <2>4. Safe
      BY <2>2, <2>3
      DEF Safe, DeadInv, FitInv, UseInv, KnownInv, RestInv, WriteInv, EraseInv
    <2> QED
      BY <1>3, <2>4
  <1> QED
    BY <1>1, <1>4, <1>5

-----------------------------------------------------------------------------
(* The invariant across power cuts, and what it gives *)

\* No write of an info table fails (erasing a block, writing the signature and the
\* operations on data may), and no block is given back by mark_good and repair.
TablesWritten == [][~WriteFails /\ ~Unmaps]_vars

CutInv == TypeInv /\ Shape /\ ("hole" \notin faults => Placement /\ Safe)

\* Every step.
LEMMA CutStep ==
    ASSUME CutInv, [Next]_vars, [~WriteFails /\ ~Unmaps]_vars
    PROVE  CutInv'
  <1>1. CASE UNCHANGED vars
    <2>1. UNCHANGED <<flash, marks, ni, pc, wr, req, saved, faults>>
      BY <1>1 DEF vars, chip, seen
    <2>2. TypeInv' /\ Shape'
      BY TypeStep, ShapeStep DEF CutInv
    <2>3. Placement => Placement'
      BY <2>1 DEF Placement, NoSharing
    <2>4. Tables' = Tables /\ Signatures' = Signatures
      BY <2>1 DEF Tables, Signatures
    <2>5. Aged' = Aged /\ Present' = Present /\ OffInv' = OffInv /\ DeadInv' = DeadInv
      BY <2>1, <2>4 DEF Aged, Present, OffInv, DeadInv, Sound, Newest, IsSig
    <2>6. FitInv' = FitInv /\ UseInv' = UseInv /\ KnownInv' = KnownInv /\ RestInv' = RestInv
      BY <2>1, <2>4 DEF FitInv, UseInv, KnownInv, RestInv, Running, Writing, IsSig, InUse,
         Known, Outdated, Current
    <2>7. WriteInv' = WriteInv /\ EraseInv' = EraseInv
      BY <2>1, <2>4 DEF WriteInv, EraseInv, Writing, CallInv, PlaceInv, CacheInv, Current
    <2>8. Safe => Safe'
      BY <2>5, <2>6, <2>7 DEF Safe
    <2> QED
      BY <2>1, <2>2, <2>3, <2>8 DEF CutInv
  <1>2. CASE Next /\ ~WriteFails /\ ~Unmaps
    <2>1. TypeInv' /\ Shape'
      BY <1>2, TypeStep, ShapeStep DEF CutInv
    <2>2. ASSUME "hole" \notin faults' PROVE Placement' /\ Safe'
      <3>1. "hole" \notin faults
        BY <1>2, <2>2, HoleStays
      <3>2. TypeInv /\ Shape /\ Placement /\ Safe /\ Layout
        BY <3>1 DEF CutInv, Layout
      <3>3. CASE Attach
        BY <3>2, <3>3, AttachSafe
      <3>4. CASE ~Attach
        <4>1. Placement'
          BY <1>2, <2>2, <3>2, <3>4, LayoutStep DEF Layout
        <4>2. CASE Driver
          BY <1>2, <2>2, <3>2, <4>1, <4>2, DriverSafe
        <4>3. CASE PowerCut
          BY <3>2, <4>1, <4>3, PowerCutSafe
        <4>4. CASE Requests
          <5>1. PICK op \in Operations, lb \in Logical : Begin(op, lb) \/ BeginMark(op, lb)
            BY <1>2, <4>4 DEF Requests, Unmaps
          <5> QED
            BY <3>2, <4>1, <5>1, BeginSafe
        <4> QED
          BY <1>2, <3>4, <4>2, <4>3, <4>4 DEF Next
      <3> QED
        BY <3>3, <3>4
    <2> QED
      BY <2>1, <2>2 DEF CutInv
  <1> QED
    BY <1>1, <1>2

\* The invariant holds through any number of power cuts.
LEMMA CutInvariant == Spec /\ TablesWritten => []CutInv
  <1>1. Init => CutInv
    BY TypeInitially, ShapeInitially, SafeInitially DEF CutInv
  <1>2. CutInv /\ [Next]_vars /\ [~WriteFails /\ ~Unmaps]_vars => CutInv'
    BY CutStep
  <1> QED
    BY <1>1, <1>2, PTL DEF Spec, TablesWritten

\* What the invariant says of the properties.
LEMMA CutInvSafe ==
    ASSUME CutInv
    PROVE  NoSharingUnlessHole /\ TablesMissData /\ Layout
  <1>1. CASE "hole" \in faults
    BY <1>1 DEF NoSharingUnlessHole, TablesMissData, Layout
  <1>2. CASE "hole" \notin faults
    <2>1. TypeInv /\ Shape /\ Placement /\ Safe
      BY <1>2 DEF CutInv
    <2>2. ASSUME pc \in {"write", "erase"}, Usable
          PROVE  /\ \A lb \in Logical :
                       wr.ba # ni.map[lb] /\ \A m \in saved : wr.ba # m[lb]
                 /\ wr.ba # ni.sig
      <3>1. MgmtStart <= wr.ba /\ wr.ba < ni.top /\ ni.top < ni.sig
        BY <2>1, <2>2, TableInRange DEF Usable
      <3>2. /\ ni.map \in IntMap /\ ni.top \in Int /\ wr.ba \in Int /\ ni.sig \in Int
        BY <2>1, ShapeFields, InstFields
      <3>3. Running
        BY <2>2 DEF Running
      <3>4. Above(ni.map, ni.top)
        BY <2>1, <2>2 DEF Placement
      <3>5. \A m \in saved : m \in IntMap /\ Above(m, ni.top)
        <4>1. saved \subseteq Mapping
          BY <2>1 DEF TypeInv, MemoryType
        <4>2. Mapping \subseteq IntMap
          <5>1. Blocks \cup {Unmapped} \subseteq Places
            BY GeometryAssumption DEF Blocks, Unmapped, Places
          <5> QED
            BY <5>1 DEF Mapping, IntMap
        <4> QED
          BY <2>1, <3>3, <4>1, <4>2 DEF Safe, FitInv
      <3>6. wr.ba # ni.sig
        BY <3>1, <3>2
      <3> QED
        BY <3>1, <3>2, <3>4, <3>5, <3>6, AboveMisses
    <2>3. TablesMissData
      BY <2>2 DEF TablesMissData
    <2>4. NoSharing
      BY <2>1 DEF Placement
    <2> QED
      BY <2>1, <2>3, <2>4 DEF NoSharingUnlessHole, Layout
  <1> QED
    BY <1>1, <1>2

\* What attaching finds.
LEMMA AttachRecovers ==
    ASSUME CutInv, [Next]_vars, pc = "off", saved # {}, pc' # "off"
    PROVE  Spoiled \/ (pc' # "dead" /\ ni'.map \in saved)
  <1>1. Attach
    <2>1. Next
      BY DEF vars
    <2>2. ~Driver
      BY DriverStates
    <2>3. ~Requests /\ ~PowerCut
      BY DEF Requests, Begin, BeginMark, BeginUnmap, NewRequest, PowerCut
    <2> QED
      BY <2>1, <2>2, <2>3 DEF Next
  <1>2. CASE "hole" \in faults \/ "bare" \in faults
    BY <1>2 DEF Spoiled
  <1>3. CASE "hole" \notin faults /\ "bare" \notin faults
    BY <1>1, <1>3, AttachSafe DEF CutInv
  <1> QED
    BY <1>2, <1>3

\* Attaching finds the mapping that was stored, or the one that was being stored when
\* the power went, after any number of power cuts (nmbm_load_existing), unless the only
\* table was being rewritten in place or a replacement was shared.
THEOREM AttachFindsMapping == Spec /\ TablesWritten => Recovers
  <1>1. CutInv /\ [Next]_vars =>
           [pc = "off" /\ saved # {} /\ pc' # "off" =>
              \/ Spoiled
              \/ pc' # "dead" /\ ni'.map \in saved]_vars
    BY AttachRecovers
  <1> QED
    BY <1>1, CutInvariant, PTL DEF Spec, Recovers

\* The order of tables, pool, replacements and signature survives power cuts.
THEOREM LayoutSurvives == Spec /\ TablesWritten => []Layout
  <1>1. CutInv => Layout
    BY CutInvSafe
  <1> QED
    BY <1>1, CutInvariant, PTL

\* No two logical blocks come to share a physical one by a power cut (nmbm_map_block).
THEOREM SharingAcrossCuts == Spec /\ TablesWritten => []NoSharingUnlessHole
  <1>1. CutInv => NoSharingUnlessHole
    BY CutInvSafe
  <1> QED
    BY <1>1, CutInvariant, PTL

\* After a power cut no table is written to a block with data either, neither by the
\* mapping in memory nor by one that the chip may hold (nmbm_write_info_table).
THEOREM TablesMissAcrossCuts == Spec /\ TablesWritten => []TablesMissData
  <1>1. CutInv => TablesMissData
    BY CutInvSafe
  <1> QED
    BY <1>1, CutInvariant, PTL
==============================================================================
