----------------------------- MODULE NmbmProofs -----------------------------
(***************************************************************************)
(* Proofs about Nmbm for any size of the chip, any bad blocks and any      *)
(* number of failing operations, requests and retries.                     *)
(***************************************************************************)
EXTENDS Nmbm, FiniteSetTheorems, WellFoundedInduction, TLAPS

-----------------------------------------------------------------------------
(* Least and greatest blocks of a set *)

\* A set of block numbers, -1 included, has a least element.
LEMMA MinimumIsLeast ==
    ASSUME NEW S, S # {}, \A x \in S : x \in Int /\ -1 <= x
    PROVE  Minimum(S) \in S /\ \A y \in S : Minimum(S) <= y
  <1> DEFINE T == {n \in Nat : n - 1 \in S}
             R == OpToRel(<, Nat)
  <1>1. T # {} /\ T \subseteq Nat
    <2>1. PICK x \in S : TRUE
      OBVIOUS
    <2>2. x + 1 \in T
      BY <2>1
    <2> QED
      BY <2>2
  <1>2. PICK m \in T : \A y \in T : ~(<<y, m>> \in R)
    <2> HIDE DEF T, R
    <2>1. IsWellFoundedOn(R, Nat)
      BY NatLessThanWellFounded DEF R
    <2> QED
      BY <1>1, <2>1, WFMin
  <1>3. \A y \in T : m <= y
    <2> TAKE y \in T
    <2>1. ~(<<y, m>> \in {ss \in Nat \X Nat : ss[1] < ss[2]})
      BY <1>2, Zenon DEF OpToRel
    <2>2. y \in Nat /\ m \in Nat
      OBVIOUS
    <2> HIDE DEF T
    <2> QED
      BY <2>1, <2>2
  <1>4. \A y \in S : m - 1 <= y
    <2> TAKE y \in S
    <2>1. y + 1 \in T
      OBVIOUS
    <2> QED
      BY <1>3, <2>1
  <1> QED
    BY <1>4 DEF Minimum

\* A set of blocks has a greatest element.
LEMMA MaximumIsGreatest ==
    ASSUME NEW S, S # {}, NEW K \in Int, \A x \in S : x \in Int /\ x <= K
    PROVE  Maximum(S) \in S /\ \A y \in S : y <= Maximum(S)
  <1> DEFINE T == {n \in Nat : K - n \in S}
             R == OpToRel(<, Nat)
  <1>1. T # {} /\ T \subseteq Nat
    <2>1. PICK x \in S : TRUE
      OBVIOUS
    <2>2. K - x \in T
      BY <2>1
    <2> QED
      BY <2>2
  <1>2. PICK m \in T : \A y \in T : ~(<<y, m>> \in R)
    <2> HIDE DEF T, R
    <2>1. IsWellFoundedOn(R, Nat)
      BY NatLessThanWellFounded DEF R
    <2> QED
      BY <1>1, <2>1, WFMin
  <1>3. \A y \in T : m <= y
    <2> TAKE y \in T
    <2>1. ~(<<y, m>> \in {ss \in Nat \X Nat : ss[1] < ss[2]})
      BY <1>2, Zenon DEF OpToRel
    <2>2. y \in Nat /\ m \in Nat
      OBVIOUS
    <2> HIDE DEF T
    <2> QED
      BY <2>1, <2>2
  <1>4. \A y \in S : y <= K - m
    <2> TAKE y \in S
    <2>1. K - y \in T
      OBVIOUS
    <2> QED
      BY <1>3, <2>1
  <1> QED
    BY <1>4 DEF Maximum

-----------------------------------------------------------------------------
(* The shape of the variables: numbers are numbers, whatever their range *)

Places == Nat \cup {Unmapped}
IntMap == [Logical -> Places]
Cache == [kind : {"table"}, count : Int, bad : SUBSET Int, map : IntMap]
Inst == [bad : SUBSET Int, map : IntMap, main : Int, backup : Int, next : Int,
         top : Int, count : Int, changed : BOOLEAN, protected : BOOLEAN, size : Int,
         sig : Places, cache : Cache]
Extent == [ba : Int, lim : Int, from : Int, tmp : Int, for : Writes \cup {"none"}]
Request == [op : Operations \cup {"none"}, lb : Logical, old : Int, tries : Int,
            table : {"none", "create", "load", "update"},
            update : {"none", "create", "remap", "no spare", "unmap"}]

Shape == ni \in Inst /\ wr \in Extent /\ req \in Request /\ marks \subseteq Int

\* The fields of an instance.
LEMMA InstFields ==
    ASSUME NEW n \in Inst
    PROVE  /\ n.main \in Int /\ n.backup \in Int /\ n.next \in Int /\ n.top \in Int
           /\ n.sig \in Int /\ n.size \in Int /\ n.map \in IntMap /\ n.sig \in Places
  <1>1. n.sig \in Places
    BY DEF Inst
  <1>2. n.sig \in Int
    BY <1>1 DEF Places, Unmapped
  <1> QED
    BY <1>1, <1>2 DEF Inst

\* Where the model starts, and where a power cut leaves the memory.
LEMMA FreshShape == Fresh \in Inst /\ NoRange \in Extent /\ NoReq \in Request
  <1>1. NoMap \in IntMap
    BY DEF NoMap, IntMap, Places, Unmapped
  <1>2. NoTable \in Cache
    BY <1>1 DEF NoTable, Cache
  <1>3. Fresh \in Inst
    BY <1>1, <1>2 DEF Fresh, Inst, Places
  <1>4. NoRange \in Extent /\ NoReq \in Request
    BY GeometryAssumption DEF NoRange, Extent, NoReq, Request, Logical
  <1> QED
    BY <1>3, <1>4

\* The operators on the instance.
LEMMA CacheShape ==
    ASSUME NEW n \in Inst
    PROVE  nmbm_generate_info_table_cache(n) \in Inst
  <1> DEFINE count == IF n.changed THEN n.count + 1 ELSE n.count
             cache == [kind |-> "table", count |-> count, bad |-> n.bad, map |-> n.map]
  <1>1. count \in Int
    BY DEF Inst
  <1>2. cache \in Cache
    BY <1>1 DEF Inst, Cache
  <1> HIDE DEF count, cache
  <1>3. [n EXCEPT !.count = count, !.cache = cache] \in Inst
    BY <1>1, <1>2 DEF Inst
  <1> QED
    BY <1>3 DEF nmbm_generate_info_table_cache, count, cache

\* nmbm_set_block_state.
LEMMA BadShape ==
    ASSUME NEW n \in Inst, NEW b \in Int
    PROVE  nmbm_set_bad(n, b) \in Inst
  BY DEF nmbm_set_bad, Good, Inst

\* nmbm_mark_tables_clean.
LEMMA CleanShape ==
    ASSUME NEW n \in Inst
    PROVE  Clean(n) \in Inst
  BY DEF Clean, Inst

\* A block is mapped to a replacement.
LEMMA MapToShape ==
    ASSUME NEW n \in Inst, NEW lb, NEW pb \in Places
    PROVE  MapTo(n, lb, pb) \in Inst
  <1> DEFINE map == [n.map EXCEPT ![lb] = pb]
  <1>1. n.map \in IntMap /\ n.top - 1 \in Int
    BY DEF Inst
  <1>2. map \in IntMap
    BY <1>1 DEF IntMap
  <1>3. [n EXCEPT !.map = map, !.top = n.top - 1, !.changed = TRUE] \in Inst
    <2> HIDE DEF map
    <2> QED
      BY <1>1, <1>2 DEF Inst
  <1>4. MapTo(n, lb, pb) = [n EXCEPT !.map = map, !.top = n.top - 1, !.changed = TRUE]
    BY DEF MapTo
  <1> QED
    BY <1>3, <1>4

\* What the walk down the pool finds is a block.
LEMMA FoundShape ==
    ASSUME NEW n \in Inst, NEW pb \in Found(n)
    PROVE  pb \in Places
  BY GeometryAssumption DEF Found, SkipDown, Descending, Blocks, Places

\* nmbm_try_reserve_blocks finds a block between ba and the top of the pool.
LEMMA ReserveShape ==
    ASSUME NEW n \in Inst, NEW ba \in Int, NEW b \in nmbm_try_reserve_blocks(n, ba)
    PROVE  b \in Int /\ ba <= b /\ b < n.top - 1
  BY GeometryAssumption DEF nmbm_try_reserve_blocks, SkipUp, Ascending, Blocks

\* The table cache takes nothing else of the instance along.
LEMMA CacheKeeps ==
    ASSUME NEW n \in Inst, NEW c, c = nmbm_generate_info_table_cache(n)
    PROVE  /\ c.map = n.map /\ c.main = n.main /\ c.backup = n.backup /\ c.next = n.next
           /\ c.top = n.top /\ c.sig = n.sig /\ c.bad = n.bad /\ c.size = n.size
  BY DEF nmbm_generate_info_table_cache, Inst

\* The top of the pool by a table: below the signature and below the replacements
\* behind the table.
LEMMA TopOfTable ==
    ASSUME NEW t \in Table, NEW b, NEW sig \in Blocks
    PROVE  /\ TopOf(t, b, sig) \in Int /\ TopOf(t, b, sig) < sig
           /\ \A lb \in Logical : b < t.map[lb] => TopOf(t, b, sig) < t.map[lb]
           /\ \/ TopOf(t, b, sig) = sig - 1
              \/ \E lb \in Logical : b < t.map[lb] /\ TopOf(t, b, sig) = t.map[lb] - 1
  <1> DEFINE L == {l \in Logical : t.map[l] > b}
             S == {t.map[lb] : lb \in L} \cup {sig}
  <1>1. \A lb \in Logical : t.map[lb] \in Int /\ -1 <= t.map[lb]
    BY GeometryAssumption DEF Table, Mapping, Blocks, Unmapped
  <1>2. sig \in Int /\ -1 <= sig
    BY GeometryAssumption DEF Blocks
  <1>3. S # {} /\ \A x \in S : x \in Int /\ -1 <= x
    BY <1>1, <1>2
  <1>4. Minimum(S) \in S /\ \A y \in S : Minimum(S) <= y
    <2> HIDE DEF S
    <2> QED
      BY <1>3, MinimumIsLeast
  <1>5. TopOf(t, b, sig) = Minimum(S) - 1
    BY DEF TopOf
  <1> DEFINE M == Minimum(S)
  <1>6. M \in Int /\ M <= sig /\ \A lb \in L : M <= t.map[lb]
    BY <1>3, <1>4
  <1>7. M = sig \/ \E lb \in L : M = t.map[lb]
    BY <1>4
  <1> HIDE DEF M, S
  <1> QED
    BY <1>1, <1>2, <1>5, <1>6, <1>7 DEF M

\* What nmbm_load_info_table makes of the tables it has found.
LEMMA LoadedInstance ==
    ASSUME NEW m \in Blocks, flash[m] \in Table, NEW s \in Blocks,
           s # 0 => flash[s] \in Table, NEW ecc, NEW sig \in Blocks
    PROVE  LET n == Loaded(m, s, ecc, sig)
               newer == s # 0 /\ flash[s].count > flash[m].count
               t == IF newer THEN flash[s] ELSE flash[m]
           IN  /\ n \in Inst
               /\ n.main = m /\ n.backup = s /\ n.sig = sig /\ n.map = t.map
               /\ n.next = (IF s = 0 THEN m ELSE s) + 1
               /\ n.top = TopOf(t, IF newer THEN s ELSE m, sig)
  <1> DEFINE newer == s # 0 /\ flash[s].count > flash[m].count
             t == IF newer THEN flash[s] ELSE flash[m]
             before == FoundBad(MgmtStart, m, ecc)
             between == FoundBad(m + 1, IF s = 0 THEN sig - 1 ELSE s, ecc) \ flash[m].bad
             bad == IF newer THEN t.bad ELSE t.bad \cup between
             top == TopOf(t, IF newer THEN s ELSE m, sig)
             next == (IF s = 0 THEN m ELSE s) + 1
             size == IF LastMapped(t.map) = {} THEN MgmtStart
                     ELSE Maximum(LastMapped(t.map)) + 1
             changed == before \cup between # {}
  <1>1. t \in Table
    OBVIOUS
  <1>2. top \in Int
    <2> HIDE DEF t
    <2> QED
      BY <1>1, TopOfTable
  <1>3. next \in Int /\ m \in Int /\ s \in Int /\ sig \in Places
    BY GeometryAssumption DEF Blocks, Places
  <1>4. size \in Int
    <2> DEFINE S == LastMapped(t.map)
    <2>1. \A x \in S : x \in Int /\ x <= MgmtStart
      BY GeometryAssumption DEF LastMapped, Logical
    <2> HIDE DEF S
    <2>2. S # {} => Maximum(S) \in Int
      BY <2>1, MaximumIsGreatest, GeometryAssumption
    <2> QED
      BY <2>2, GeometryAssumption DEF S
  <1>5. bad \in SUBSET Int /\ changed \in BOOLEAN
    <2>1. between \subseteq Int
      BY GeometryAssumption DEF FoundBad, Blocks
    <2>2. t.bad \subseteq Int
      BY <1>1, GeometryAssumption DEF Table, Blocks
    <2> QED
      BY <2>1, <2>2
  <1>6. t.map \in IntMap /\ t.count \in Int
    BY <1>1, GeometryAssumption DEF Table, Mapping, IntMap, Places, Blocks, Unmapped
  <1> DEFINE n == [Fresh EXCEPT !.bad = bad, !.map = t.map, !.count = t.count,
                     !.changed = changed, !.main = m, !.backup = s, !.sig = sig,
                     !.top = top, !.next = next, !.size = size]
  <1>7. /\ n \in Inst /\ n.main = m /\ n.backup = s /\ n.sig = sig /\ n.map = t.map
        /\ n.next = next /\ n.top = top
    <2> HIDE DEF bad, changed, top, next, size, t
    <2> QED
      BY <1>2, <1>3, <1>4, <1>5, <1>6, FreshShape DEF Inst
  <1>8. Loaded(m, s, ecc, sig) = nmbm_generate_info_table_cache(n)
    BY DEF Loaded
  <1> HIDE DEF n
  <1>9. /\ Loaded(m, s, ecc, sig) \in Inst /\ Loaded(m, s, ecc, sig).main = m
        /\ Loaded(m, s, ecc, sig).backup = s /\ Loaded(m, s, ecc, sig).sig = sig
        /\ Loaded(m, s, ecc, sig).map = t.map /\ Loaded(m, s, ecc, sig).next = next
        /\ Loaded(m, s, ecc, sig).top = top
    <2> HIDE DEF next, top, t
    <2> QED
      BY <1>7, <1>8, CacheShape, CacheKeeps
  <1> QED
    BY <1>9

\* No two logical blocks share a physical one.
Distinct(map) == \A k, l \in Logical : k # l /\ map[k] # Unmapped => map[k] # map[l]

\* The mapping of a chip without tables.
LEMMA InitialInstance ==
    ASSUME NEW n \in Inst, marks \subseteq Int, NEW map \in Mapping,
           NEW w, w = WithInitialMapping(n, map),
           InitialMapping({b \in Logical : b \notin w.bad}, map)
    PROVE  /\ w \in Inst /\ w.map = map /\ w.sig = n.sig
           /\ Distinct(w.map) /\ OwnPlace(w.map)
  <1> DEFINE bad == n.bad \cup marks
             good == {b \in Logical : b \notin bad}
             size == Cardinality(good)
             changed == n.changed \/ bad # n.bad
  <1>1. map \in IntMap
    BY GeometryAssumption DEF Mapping, IntMap, Places, Blocks, Unmapped
  <1>2. size \in Int
    <2>1. IsFiniteSet(Logical)
      BY FS_Interval, GeometryAssumption DEF Logical
    <2>2. IsFiniteSet(good)
      BY <2>1, FS_Subset
    <2> QED
      BY <2>2, FS_CardinalityType
  <1>3. bad \in SUBSET Int /\ changed \in BOOLEAN
    BY DEF Inst
  <1>4. w = [n EXCEPT !.bad = bad, !.changed = changed, !.map = map, !.size = size]
    BY DEF WithInitialMapping
  <1>5. w \in Inst /\ w.map = map /\ w.sig = n.sig /\ w.bad = bad
    <2> HIDE DEF bad, changed, size
    <2> QED
      BY <1>1, <1>2, <1>3, <1>4 DEF Inst
  <1>6. \A lb \in Logical :
            \/ map[lb] \in good /\ Cardinality({b \in good : b < map[lb]}) = lb
            \/ map[lb] = Unmapped
    BY <1>5 DEF InitialMapping
  <1>7. OwnPlace(map)
    BY <1>6 DEF OwnPlace
  <1>8. Distinct(map)
    <2> SUFFICES ASSUME NEW k \in Logical, NEW l \in Logical, map[k] = map[l],
                        map[k] # Unmapped
                 PROVE  k = l
      BY DEF Distinct
    <2> QED
      BY <1>6
  <1> QED
    BY <1>5, <1>7, <1>8

\* r is n, but for the place of the tables and the pool, and for what the layout
\* does not depend on.
Moved(r, n, main, backup, next) ==
    /\ r \in Inst /\ r.main = main /\ r.backup = backup /\ r.next = next
    /\ r.map = n.map /\ r.top = n.top /\ r.sig = n.sig /\ r.size = n.size

\* One table, or the pool, is moved.
LEMMA MovesOne ==
    ASSUME NEW n \in Inst, NEW a \in Int
    PROVE  /\ Moved([n EXCEPT !.main = a], n, a, n.backup, n.next)
           /\ Moved([n EXCEPT !.next = a], n, n.main, n.backup, a)
  BY DEF Inst, Moved

\* A table and the pool, or both tables, are moved.
LEMMA MovesTwo ==
    ASSUME NEW n \in Inst, NEW a \in Int, NEW b \in Int
    PROVE  /\ Moved([n EXCEPT !.main = a, !.next = b], n, a, n.backup, b)
           /\ Moved([n EXCEPT !.backup = a, !.next = b], n, n.main, a, b)
           /\ Moved([n EXCEPT !.next = a, !.backup = b], n, n.main, b, a)
           /\ Moved([n EXCEPT !.main = a, !.backup = b], n, a, b, n.next)
           /\ Moved([n EXCEPT !.backup = a, !.main = b], n, b, a, n.next)
  BY DEF Inst, Moved

\* Both tables and the pool are moved.
LEMMA MovesAll ==
    ASSUME NEW n \in Inst, NEW a \in Int, NEW b \in Int, NEW c \in Int
    PROVE  Moved([n EXCEPT !.main = a, !.backup = b, !.next = c], n, a, b, c)
  BY DEF Inst, Moved

\* Flags, the cache and the block states.
LEMMA MovesNothing ==
    ASSUME NEW n \in Inst
    PROVE  /\ Moved(n, n, n.main, n.backup, n.next)
           /\ Moved(Clean(n), n, n.main, n.backup, n.next)
           /\ Moved(nmbm_generate_info_table_cache(n), n, n.main, n.backup, n.next)
           /\ \A p \in BOOLEAN :
                 Moved([n EXCEPT !.protected = p], n, n.main, n.backup, n.next)
           /\ \A p \in BOOLEAN :
                 Moved([n EXCEPT !.changed = p], n, n.main, n.backup, n.next)
           /\ \A b \in Int : Moved(nmbm_set_bad(n, b), n, n.main, n.backup, n.next)
  <1>1. Moved(n, n, n.main, n.backup, n.next)
    BY DEF Moved
  <1>2. Moved(Clean(n), n, n.main, n.backup, n.next)
    BY CleanShape DEF Moved, Clean, Inst
  <1>3. Moved(nmbm_generate_info_table_cache(n), n, n.main, n.backup, n.next)
    BY CacheShape, CacheKeeps DEF Moved
  <1>4. ASSUME NEW p \in BOOLEAN
        PROVE  /\ Moved([n EXCEPT !.protected = p], n, n.main, n.backup, n.next)
               /\ Moved([n EXCEPT !.changed = p], n, n.main, n.backup, n.next)
    BY DEF Moved, Inst
  <1>5. ASSUME NEW b \in Int
        PROVE  Moved(nmbm_set_bad(n, b), n, n.main, n.backup, n.next)
    BY BadShape DEF Moved, nmbm_set_bad, Inst
  <1> QED
    BY <1>1, <1>2, <1>3, <1>4, <1>5

-----------------------------------------------------------------------------
(* Calls and returns *)

Placed(n) == Distinct(n.map) /\ TablesBelowPool(n) /\ Above(n.map, n.top)

\* The states of the driver in which the instance is complete and no table is
\* being written.
Resting == {"idle", "fill", "request", "map", "copy", "mark", "repair", "update"}

\* Then the layout is that of the instance.
LEMMA RestingPlacedNext ==
    ASSUME Placed(ni)', pc' \in Resting \cup {"dead"}
    PROVE  Placement'
  BY DEF Resting, Placed, Placement, Distinct, NoSharing

\* What is placed stays so while the map, the pool's top and the signature stay
\* and the tables lie below the pool.
LEMMA StillPlaced ==
    ASSUME NEW n, NEW r, NEW a, NEW b, NEW c, Placed(n), Moved(r, n, a, b, c),
           MgmtStart <= c, c <= n.top, a = 0 \/ (MgmtStart <= a /\ a < c),
           b = 0 \/ (MgmtStart <= b /\ a < b /\ b < c)
    PROVE  Placed(r)
  BY DEF Placed, Moved, TablesBelowPool

\* The instance has lost the rest of its pool.
LEMMA WrittenOff ==
    ASSUME NEW n \in Inst
    PROVE  /\ [n EXCEPT !.top = n.next] \in Inst
           /\ [n EXCEPT !.top = n.next].map = n.map
           /\ [n EXCEPT !.top = n.next].size = n.size
           /\ Placed(n) => /\ Placed([n EXCEPT !.top = n.next])
                           /\ [n EXCEPT !.top = n.next].top <= n.top
  <1> DEFINE t == n.next
             r == [n EXCEPT !.top = t]
  <1>1. t \in Int /\ n.top \in Int /\ n.map \in IntMap
    BY DEF Inst
  <1>2. /\ r \in Inst /\ r.top = t /\ r.next = n.next /\ r.map = n.map
        /\ r.main = n.main /\ r.backup = n.backup /\ r.sig = n.sig /\ r.size = n.size
    <2> HIDE DEF t
    <2> QED
      BY <1>1 DEF Inst
  <1>3. ASSUME Placed(n) PROVE Placed(r) /\ r.top <= n.top
    <2>1. t <= n.top /\ n.sig \in Int
      BY <1>3, InstFields DEF Placed, TablesBelowPool
    <2>2. TablesBelowPool(r)
      BY <1>1, <1>2, <1>3, <2>1 DEF Placed, TablesBelowPool
    <2>3. Above(r.map, r.top)
      BY <1>1, <1>2, <1>3, <2>1 DEF Placed, Above, IntMap, Places, Unmapped
    <2>4. r.top <= n.top
      BY <1>2, <2>1
    <2> HIDE DEF r
    <2> QED
      BY <1>2, <1>3, <2>2, <2>3, <2>4 DEF Placed
  <1> QED
    BY <1>2, <1>3

\* remap_block_nmbm returns false.
LEMMA MapFailedKeeps ==
    ASSUME NEW n \in Inst, req \in Request, MapFailed(n)
    PROVE  /\ ni' \in Inst /\ req' \in Request /\ pc' \in Resting /\ ni' = n
           /\ Placed(n) => Placement'
  <1>1. ni' = n /\ pc' \in Resting /\ req' \in Request
    BY DEF MapFailed, Request, Resting
  <1>2. Placed(n) => Placed(ni)'
    BY <1>1
  <1> QED
    BY <1>1, <1>2, RestingPlacedNext

\* nmbm_update_info_table returns; a pool written off is empty, which keeps the layout.
LEMMA UpdateReturnKeeps ==
    ASSUME NEW n \in Inst, NEW ok, req \in Request, UpdateReturn(n, ok)
    PROVE  /\ ni' \in Inst /\ req' \in Request
           /\ saved' = saved \/ saved' = {ni.map}'
           /\ ni.map' = n.map /\ ni.size' = n.size
           /\ Placed(n) => Placement' /\ ni.top' <= n.top
  <1>1. saved' = saved \/ saved' = {n.map}
    BY DEF UpdateReturn
  <1>2. n.top \in Int /\ n.top <= n.top
    BY InstFields
  <1>3. CASE req.update \in {"create", "unmap"}
    <2>1. ni' = n /\ req' = req /\ pc' \in Resting \cup {"dead"}
      BY <1>3 DEF UpdateReturn, Resting
    <2>2. Placed(n) => Placed(ni)'
      BY <2>1
    <2> QED
      BY <1>1, <1>2, <2>1, <2>2, RestingPlacedNext
  <1>4. CASE req.update = "remap"
    <2> DEFINE again == [req EXCEPT !.tries = req.tries + 1]
    <2>1. req.tries + 1 \in Int
      <3>1. \A r \in Request : r.tries \in Int
        BY DEF Request
      <3> QED
        BY <3>1
    <2>2. \A t \in Int : [req EXCEPT !.tries = t] \in Request
      BY DEF Request
    <2>3. again \in Request
      BY <2>1, <2>2
    <2>4. ni' = n /\ RemapReturns
      BY <1>4 DEF UpdateReturn
    <2>5. req' \in {again, req} /\ pc' \in Resting
      BY <2>4 DEF RemapReturns, Resting
    <2>6. Placed(n) => Placed(ni)'
      BY <2>4
    <2> HIDE DEF again
    <2> QED
      BY <1>1, <1>2, <2>3, <2>4, <2>5, <2>6, RestingPlacedNext
  <1>5. CASE req.update = "no spare"
    <2> DEFINE r == [n EXCEPT !.top = n.next]
    <2>1. /\ r \in Inst /\ r.map = n.map /\ r.size = n.size
          /\ Placed(n) => Placed(r) /\ r.top <= n.top
      BY WrittenOff
    <2>2. MapFailed(r)
      BY <1>5 DEF UpdateReturn
    <2> HIDE DEF r
    <2>3. /\ ni' \in Inst /\ req' \in Request /\ ni' = r
          /\ Placed(r) => Placement'
      BY <2>1, <2>2, MapFailedKeeps
    <2> QED
      BY <1>1, <2>1, <2>3
  <1> QED
    BY <1>3, <1>4, <1>5 DEF UpdateReturn

\* A function that writes tables returns to one of its three callers.
LEMMA TableReturnKeeps ==
    ASSUME NEW n \in Inst, NEW ok, req \in Request, TableReturn(n, ok)
    PROVE  /\ ni' \in Inst /\ req' \in Request
           /\ saved' = saved \/ saved' = {ni.map}'
           /\ ni.map' = n.map /\ ni.size' = n.size
           /\ Placed(n) => Placement' /\ ni.top' <= n.top
  <1>1. n.top \in Int /\ n.top <= n.top
    BY InstFields
  <1>2. CASE req.table = "load"
    <2> DEFINE p == (n.next = n.top \/ ~ok)
    <2>1. /\ ni' = [n EXCEPT !.protected = p] /\ pc' = "idle" /\ req' = req
          /\ saved' = saved
      BY <1>2 DEF TableReturn
    <2>2. Moved(ni', n, n.main, n.backup, n.next)
      <3>1. p \in BOOLEAN
        OBVIOUS
      <3> HIDE DEF p
      <3> QED
        BY <2>1, <3>1, MovesNothing
    <2>3. Placed(n) => Placed(ni)'
      BY <2>2 DEF Placed, Moved, TablesBelowPool
    <2> QED
      BY <1>1, <2>1, <2>2, <2>3, RestingPlacedNext DEF Moved, Resting
  <1>3. CASE req.table = "create" \/ (req.table = "update" /\ ok)
    <2>1. ni' = n /\ req' = req /\ pc' \in Resting \cup {"dead"} /\ saved' = saved
      BY <1>3 DEF TableReturn, Resting
    <2>2. Placed(n) => Placed(ni)'
      BY <2>1
    <2> QED
      BY <1>1, <2>1, <2>2, RestingPlacedNext
  <1>4. CASE req.table = "update" /\ ~ok
    BY <1>4, UpdateReturnKeeps DEF TableReturn
  <1> QED
    BY <1>2, <1>3, <1>4 DEF TableReturn

\* WriteRange of a write that begins at ba.
Fits(n, ba, lim, for) ==
    /\ MgmtStart <= ba
    /\ for = "rebuild main" => n.main = 0 /\ n.backup = 0 /\ lim = n.top
    /\ for = "rebuild backup" => n.main # 0 /\ n.main < ba /\ n.backup = 0 /\ lim = n.top
    /\ for = "rescue front" => n.main # 0 /\ lim = n.main
    /\ for = "rescue next" => n.next <= ba /\ lim = n.top
    /\ for = "temporary" => n.next <= ba /\ lim = n.top
    /\ for = "single main" => n.backup # 0 /\ lim = n.backup
    /\ for = "single backup" => n.backup # 0 /\ n.backup <= ba /\ lim = n.top
    /\ for = "once backup" => n.backup # 0 /\ n.backup <= ba /\ lim = n.top
    /\ for = "once main" => (n.backup = 0 /\ lim = n.top) \/ (n.backup # 0 /\ lim = n.backup)
    /\ for # "main again" /\ for # "none"

\* A write begins.
LEMMA WriteBegins ==
    ASSUME wr \in Extent, NEW n \in Inst, NEW ba \in Int, NEW lim \in Int,
           NEW for \in Writes, StartWrite(n, ba, lim, for)
    PROVE  ni' = n /\ wr' \in Extent /\ (Placed(n) /\ Fits(n, ba, lim, for) => Placement')
  <1>1. ni' = n /\ pc' = "write"
    BY DEF StartWrite
  <1>2. /\ wr' \in Extent
        /\ wr'.ba = ba /\ wr'.lim = lim /\ wr'.from = ba /\ wr'.for = for
    BY DEF StartWrite, Extent
  <1>3. ASSUME Fits(n, ba, lim, for) PROVE WriteRange(n, wr')
    BY <1>2, <1>3 DEF Fits, WriteRange
  <1>4. ASSUME Placed(n), WriteRange(n, wr') PROVE Placement'
    BY <1>1, <1>4 DEF Placed, Placement, Distinct, NoSharing
  <1> QED
    BY <1>1, <1>2, <1>3, <1>4

\* An erase begins.
LEMMA EraseBegins ==
    ASSUME wr \in Extent, NEW n \in Inst, NEW ba \in Int, NEW lim \in Int,
           StartErase(n, ba, lim)
    PROVE  /\ ni' = n /\ wr' \in Extent
           /\ wr'.ba = ba /\ wr'.lim = lim /\ wr'.tmp = wr.ba /\ wr'.for = wr.for
           /\ Placed(n) /\ EraseRange(n, wr') => Placement'
  <1>1. ni' = n /\ pc' = "erase"
    BY DEF StartErase
  <1>2. /\ wr' \in Extent
        /\ wr'.ba = ba /\ wr'.lim = lim /\ wr'.tmp = wr.ba /\ wr'.for = wr.for
    BY DEF StartErase, Extent
  <1>3. ASSUME Placed(n), EraseRange(n, wr') PROVE Placement'
    BY <1>1, <1>3 DEF Placed, Placement, Distinct, NoSharing
  <1> QED
    BY <1>1, <1>2, <1>3

\* nmbm_rebuild_info_table starts with no table and an empty pool.
LEMMA RebuildFrom ==
    ASSUME wr \in Extent, NEW n \in Inst, nmbm_rebuild_info_table(n)
    PROVE  /\ ni' \in Inst /\ wr' \in Extent /\ ni.top' = n.top
           /\ ni.map' = n.map /\ ni.size' = n.size
           /\ /\ Distinct(n.map) /\ Above(n.map, n.top)
              /\ MgmtStart <= n.top /\ n.top < n.sig
              => Placement'
  <1> DEFINE r == [n EXCEPT !.main = 0, !.backup = 0, !.next = n.top]
  <1>1. n.top \in Int /\ MgmtStart \in Int /\ 0 \in Int
    BY InstFields, GeometryAssumption
  <1>2. Moved(r, n, 0, 0, n.top)
    BY <1>1, MovesAll, Zenon
  <1>3. StartWrite(r, MgmtStart, n.top, "rebuild main")
    BY DEF nmbm_rebuild_info_table
  <1> HIDE DEF r
  <1>4. /\ r \in Inst /\ r.main = 0 /\ r.backup = 0 /\ r.top = n.top /\ r.next = n.top
        /\ r.map = n.map /\ r.sig = n.sig /\ r.size = n.size
    BY <1>2 DEF Moved
  <1>5. /\ ni' = r /\ wr' \in Extent
        /\ Placed(r) /\ Fits(r, MgmtStart, n.top, "rebuild main") => Placement'
    BY <1>1, <1>3, <1>4, WriteBegins DEF Writes
  <1>6. Fits(r, MgmtStart, n.top, "rebuild main")
    BY <1>1, <1>4 DEF Fits
  <1>7. ASSUME Distinct(n.map), Above(n.map, n.top), MgmtStart <= n.top, n.top < n.sig
        PROVE  Placed(r)
    <2>1. n.top <= n.top
      BY <1>1
    <2> QED
      BY <1>4, <1>7, <2>1 DEF Placed, TablesBelowPool
  <1> QED
    BY <1>4, <1>5, <1>6, <1>7

\* nmbm_rebuild_info_table writes from the first management block to the pool.
LEMMA RebuildBegins ==
    ASSUME wr \in Extent, NEW n \in Inst, nmbm_rebuild_info_table(n)
    PROVE  /\ ni' \in Inst /\ wr' \in Extent /\ ni.top' = n.top
           /\ ni.map' = n.map /\ ni.size' = n.size
           /\ Placed(n) => Placement'
  <1>1. ASSUME Placed(n) PROVE MgmtStart <= n.top /\ n.top < n.sig
    BY <1>1, InstFields, GeometryAssumption DEF Placed, TablesBelowPool
  <1> QED
    BY <1>1, RebuildFrom DEF Placed

-----------------------------------------------------------------------------
(* The functions that write tables *)

\* What every step proves: the layout stays, the stored mapping is the one of
\* before or the present one, and the pool does not grow.
Keeps ==
    /\ Shape' /\ (Placement => Placement')
    /\ ni.map' = ni.map /\ ni.size' = ni.size
    /\ saved' = saved \/ saved' = {ni.map}'
    /\ Placement /\ pc # "signature" => ni.top' <= ni.top

\* The instance while a table is being written.
LEMMA WhileWriting ==
    ASSUME Shape, Placement, pc \in {"write", "written", "full", "erase"}
    PROVE  /\ Placed(ni) /\ ni \in Inst /\ wr \in Extent
           /\ wr.ba \in Int /\ wr.lim \in Int /\ wr.from \in Int /\ wr.tmp \in Int
           /\ ni.main \in Int /\ ni.backup \in Int /\ ni.next \in Int /\ ni.top \in Int
           /\ ni.sig \in Int
           /\ TablesBelowPool(ni)
           /\ pc = "erase" => EraseRange(ni, wr)
           /\ pc # "erase" => WriteRange(ni, wr)
           /\ pc = "written" => wr.ba < wr.lim
  <1>1. ni \in Inst /\ wr \in Extent
    BY DEF Shape
  <1>2. wr.ba \in Int /\ wr.lim \in Int /\ wr.from \in Int /\ wr.tmp \in Int
    BY <1>1 DEF Extent
  <1> QED
    BY <1>1, <1>2, InstFields DEF Placement, Placed, Distinct, NoSharing

\* A function that writes tables returns.
LEMMA ReturnKeeps ==
    ASSUME Shape, NEW n \in Inst, NEW ok, Return(n, ok), Placement => Placed(n),
           n.top = ni.top, n.map = ni.map, n.size = ni.size
    PROVE  Keeps
  <1>1. TableReturn(n, ok) /\ UNCHANGED <<wr, marks>>
    BY DEF Return, Memory, chip
  <1>2. /\ ni' \in Inst /\ req' \in Request
        /\ saved' = saved \/ saved' = {ni.map}'
        /\ ni.map' = n.map /\ ni.size' = n.size
        /\ Placed(n) => Placement' /\ ni.top' <= n.top
    BY <1>1, TableReturnKeeps DEF Shape
  <1> QED
    BY <1>1, <1>2 DEF Shape, Keeps

\* Numbers are numbers.
LEMMA ShapeFields ==
    ASSUME Shape
    PROVE  /\ ni \in Inst /\ wr \in Extent /\ req \in Request
           /\ wr.ba \in Int /\ wr.lim \in Int /\ wr.from \in Int /\ wr.tmp \in Int
           /\ ni.main \in Int /\ ni.backup \in Int /\ ni.next \in Int /\ ni.top \in Int
           /\ ni.sig \in Int /\ wr.ba + 1 \in Int /\ wr.from - 1 \in Int
           /\ wr.tmp + 1 \in Int /\ MgmtStart \in Int /\ 0 \in Int /\ 0 < MgmtStart
           /\ ni.top <= ni.top
  <1>1. ni \in Inst /\ wr \in Extent /\ req \in Request
    BY DEF Shape
  <1>2. wr.ba \in Int /\ wr.lim \in Int /\ wr.from \in Int /\ wr.tmp \in Int
    BY <1>1 DEF Extent
  <1> QED
    BY <1>1, <1>2, InstFields, GeometryAssumption

\* The places of the tables and of the pool that a table function may choose.
Room(n, main, backup, next) ==
    /\ MgmtStart <= next /\ next <= n.top
    /\ main = 0 \/ (MgmtStart <= main /\ main < next)
    /\ backup = 0 \/ (MgmtStart <= backup /\ main < backup /\ backup < next)

\* Tables that were moved, and are clean.
LEMMA CleanMoves ==
    ASSUME NEW r, NEW n, NEW a, NEW b, NEW c, Moved(r, n, a, b, c)
    PROVE  Moved(Clean(r), n, a, b, c)
  <1>1. r \in Inst
    BY DEF Moved
  <1>2. Moved(Clean(r), r, r.main, r.backup, r.next)
    BY <1>1, MovesNothing
  <1> QED
    BY <1>2 DEF Moved

TablePCs == {"write", "written", "full", "erase"}

\* The three ways in which a table function goes on.
LEMMA ReturnMoved ==
    ASSUME Shape, pc \in TablePCs, NEW r, NEW a, NEW b, NEW c, Moved(r, ni, a, b, c),
           NEW ok, Return(r, ok), Placement => Room(ni, a, b, c)
    PROVE  Keeps
  <1>1. r \in Inst /\ r.top = ni.top /\ r.map = ni.map /\ r.size = ni.size
    BY DEF Moved
  <1>2. ASSUME Placement PROVE Placed(r)
    <2>1. Placed(ni)
      BY <1>2, WhileWriting DEF TablePCs
    <2> QED
      BY <1>2, <2>1, StillPlaced DEF Room
  <1> QED
    BY <1>1, <1>2, ReturnKeeps

\* A write that begins behind a move of tables or pool.
LEMMA WriteMoved ==
    ASSUME Shape, pc \in TablePCs, NEW r, NEW a, NEW b, NEW c, Moved(r, ni, a, b, c),
           NEW ba \in Int, NEW lim \in Int, NEW for \in Writes,
           StartWrite(r, ba, lim, for), Going,
           Placement => Room(ni, a, b, c) /\ Fits(r, ba, lim, for)
    PROVE  Keeps
  <1>1. /\ r \in Inst /\ r.top = ni.top /\ r.map = ni.map /\ r.size = ni.size
        /\ ni.top <= ni.top /\ UNCHANGED <<req, marks, saved>>
    BY ShapeFields DEF Moved, Going, Memory, chip
  <1>2. ASSUME Placement PROVE Placed(r)
    <2>1. Placed(ni)
      BY <1>2, WhileWriting DEF TablePCs
    <2> QED
      BY <1>2, <2>1, StillPlaced DEF Room
  <1>3. ni' = r /\ wr' \in Extent /\ (Placed(r) /\ Fits(r, ba, lim, for) => Placement')
    BY <1>1, WriteBegins DEF Shape
  <1> QED
    BY <1>1, <1>2, <1>3 DEF Keeps, Shape

\* An erase that begins behind a move of tables or pool.
LEMMA EraseMoved ==
    ASSUME Shape, pc \in TablePCs, NEW r, NEW a, NEW b, NEW c, Moved(r, ni, a, b, c),
           NEW ba \in Int, NEW lim \in Int, StartErase(r, ba, lim), Going,
           Placement =>
             /\ Room(ni, a, b, c) /\ MgmtStart <= ba /\ lim <= ni.top
             /\ wr.for = "rescue next" => c <= wr.ba /\ wr.ba < ni.top
    PROVE  Keeps
  <1>1. /\ r \in Inst /\ r.next = c /\ r.top = ni.top /\ UNCHANGED <<req, marks, saved>>
        /\ ni.top <= ni.top /\ r.map = ni.map /\ r.size = ni.size
    <2>1. ni.top <= ni.top
      BY ShapeFields, Zenon
    <2> QED
      BY <2>1 DEF Moved, Going, Memory, chip
  <1>2. ASSUME Placement PROVE Placed(r)
    <2>1. Placed(ni)
      BY <1>2, WhileWriting DEF TablePCs
    <2> QED
      BY <1>2, <2>1, StillPlaced DEF Room
  <1>3. /\ ni' = r /\ wr' \in Extent
        /\ wr'.ba = ba /\ wr'.lim = lim /\ wr'.tmp = wr.ba /\ wr'.for = wr.for
        /\ Placed(r) /\ EraseRange(r, wr') => Placement'
    BY <1>1, EraseBegins DEF Shape
  <1>4. ASSUME Placement PROVE EraseRange(r, wr')
    BY <1>1, <1>3, <1>4 DEF EraseRange
  <1> QED
    BY <1>1, <1>2, <1>3, <1>4 DEF Keeps, Shape

\* A rebuild behind a move of tables or pool.
LEMMA RebuildMoved ==
    ASSUME Shape, pc \in TablePCs, NEW r, NEW a, NEW b, NEW c, Moved(r, ni, a, b, c),
           nmbm_rebuild_info_table(r), Going, Placement => Room(ni, a, b, c)
    PROVE  Keeps
  <1>1. /\ r \in Inst /\ r.top = ni.top /\ r.map = ni.map /\ r.size = ni.size
        /\ ni.top <= ni.top /\ UNCHANGED <<req, marks, saved>>
    BY ShapeFields DEF Moved, Going, Memory, chip
  <1>2. ASSUME Placement PROVE Placed(r)
    <2>1. Placed(ni)
      BY <1>2, WhileWriting DEF TablePCs
    <2> QED
      BY <1>2, <2>1, StillPlaced DEF Room
  <1>3. /\ ni' \in Inst /\ wr' \in Extent /\ ni.top' = r.top
        /\ ni.map' = r.map /\ ni.size' = r.size /\ (Placed(r) => Placement')
    BY <1>1, RebuildBegins DEF Shape
  <1> QED
    BY <1>1, <1>2, <1>3 DEF Keeps, Shape

\* The rebuild of both tables.
LEMMA RebuildMainWrittenKeeps ==
    ASSUME Shape, RebuildMainWritten
    PROVE  Keeps
  <1> DEFINE r == [ni EXCEPT !.main = wr.ba, !.next = wr.ba + 1]
             n == Clean(r)
             c == wr.ba + 1
  <1>1. pc = "written" /\ wr.for = "rebuild main" /\ pc \in TablePCs
    BY DEF RebuildMainWritten, Written, TablePCs
  <1>2. Moved(n, ni, wr.ba, ni.backup, c)
    <2>1. Moved(r, ni, wr.ba, ni.backup, c)
      BY ShapeFields, MovesTwo, Zenon
    <2> HIDE DEF r, c
    <2> QED
      BY <2>1, CleanMoves
  <1>3. \/ Return(n, TRUE)
        \/ \E b \in nmbm_try_reserve_blocks(n, c) :
              StartWrite(n, b, n.top, "rebuild backup") /\ Going
    BY DEF RebuildMainWritten
  <1>4. c \in Int /\ c = wr.ba + 1
    BY ShapeFields
  <1> HIDE DEF n, c
  <1>5. ASSUME Placement
        PROVE  Room(ni, wr.ba, ni.backup, c) /\ MgmtStart <= wr.ba /\ ni.backup = 0
    <2>1. /\ MgmtStart <= wr.ba /\ wr.ba < wr.lim /\ ni.backup = 0
          /\ wr.lim = ni.top
      BY <1>1, <1>5, WhileWriting DEF WriteRange
    <2> QED
      BY <1>4, <2>1, ShapeFields DEF Room
  <1>6. CASE Return(n, TRUE)
    BY <1>1, <1>2, <1>5, <1>6, ReturnMoved
  <1>7. ASSUME NEW b \in nmbm_try_reserve_blocks(n, c),
               StartWrite(n, b, n.top, "rebuild backup"), Going
        PROVE  Keeps
    <2>1. /\ n \in Inst /\ n.main = wr.ba /\ n.backup = ni.backup /\ n.top = ni.top
          /\ n.top \in Int
      BY <1>2, ShapeFields DEF Moved
    <2>2. b \in Int /\ c <= b
      BY <1>4, <1>7, <2>1, ReserveShape
    <2>3. ASSUME Placement PROVE Fits(n, b, n.top, "rebuild backup")
      BY <1>4, <1>5, <2>1, <2>2, <2>3, ShapeFields DEF Fits
    <2>4. "rebuild backup" \in Writes
      BY DEF Writes
    <2> QED
      BY <1>1, <1>2, <1>5, <1>7, <2>1, <2>2, <2>3, <2>4, WriteMoved
  <1> QED
    BY <1>3, <1>6, <1>7

\* No block takes the main table: the chip is read-only from now on.
LEMMA RebuildMainFullKeeps ==
    ASSUME Shape, RebuildMainFull
    PROVE  Keeps
  <1> DEFINE n == [ni EXCEPT !.protected = TRUE]
  <1>1. pc = "full" /\ pc \in TablePCs /\ Return(n, FALSE)
    BY DEF RebuildMainFull, Full, TablePCs
  <1>2. Moved(n, ni, ni.main, ni.backup, ni.next)
    BY ShapeFields, MovesNothing, Zenon
  <1>3. Placement => Room(ni, ni.main, ni.backup, ni.next)
    BY <1>1, WhileWriting DEF Room, TablesBelowPool
  <1> HIDE DEF n
  <1> QED
    BY <1>1, <1>2, <1>3, ReturnMoved

\* Both tables are written; the blocks between them are erased.
LEMMA RebuildBackupWrittenKeeps ==
    ASSUME Shape, RebuildBackupWritten
    PROVE  Keeps
  <1> DEFINE c == wr.ba + 1
             e == ni.main + 1
             n == [ni EXCEPT !.backup = wr.ba, !.next = c]
  <1>1. pc = "written" /\ wr.for = "rebuild backup" /\ pc \in TablePCs
    BY DEF RebuildBackupWritten, Written, TablePCs
  <1>2. Moved(n, ni, ni.main, wr.ba, c)
    BY ShapeFields, MovesTwo, Zenon
  <1>3. StartErase(n, e, wr.ba) /\ Going
    BY DEF RebuildBackupWritten
  <1>4. c = wr.ba + 1 /\ e = ni.main + 1 /\ e \in Int
    BY ShapeFields
  <1> HIDE DEF n, c, e
  <1>5. ASSUME Placement
        PROVE  Room(ni, ni.main, wr.ba, c) /\ MgmtStart <= e /\ wr.ba <= ni.top
    <2>1. /\ MgmtStart <= wr.ba /\ wr.ba < wr.lim /\ ni.main # 0 /\ ni.main < wr.ba
          /\ wr.lim = ni.top /\ TablesBelowPool(ni)
      BY <1>1, <1>5, WhileWriting DEF WriteRange
    <2> QED
      BY <1>4, <2>1, ShapeFields DEF Room, TablesBelowPool
  <1> QED
    BY <1>1, <1>2, <1>3, <1>4, <1>5, ShapeFields, EraseMoved

\* No block takes the backup table: there is a main table only.
LEMMA RebuildBackupFullKeeps ==
    ASSUME Shape, RebuildBackupFull
    PROVE  Keeps
  <1>1. pc = "full" /\ pc \in TablePCs /\ Return(ni, TRUE)
    BY DEF RebuildBackupFull, Full, TablePCs
  <1>2. Moved(ni, ni, ni.main, ni.backup, ni.next)
    BY ShapeFields, MovesNothing
  <1>3. Placement => Room(ni, ni.main, ni.backup, ni.next)
    BY <1>1, WhileWriting DEF Room, TablesBelowPool
  <1> QED
    BY <1>1, <1>2, <1>3, ReturnMoved

\* The rescue of a single table.
LEMMA RescueFrontWrittenKeeps ==
    ASSUME Shape, RescueFrontWritten
    PROVE  Keeps
  <1> DEFINE r == [ni EXCEPT !.backup = ni.main, !.main = wr.ba]
             n == Clean(r)
             e == wr.ba + 1
  <1>1. pc = "written" /\ wr.for = "rescue front" /\ pc \in TablePCs
    BY DEF RescueFrontWritten, Written, TablePCs
  <1>2. Moved(n, ni, wr.ba, ni.main, ni.next)
    <2>1. Moved(r, ni, wr.ba, ni.main, ni.next)
      BY ShapeFields, MovesTwo, Zenon
    <2> HIDE DEF r
    <2> QED
      BY <2>1, CleanMoves
  <1>3. StartErase(n, e, ni.main) /\ Going
    BY DEF RescueFrontWritten
  <1>4. e = wr.ba + 1 /\ e \in Int
    BY ShapeFields
  <1> HIDE DEF n, e
  <1>5. ASSUME Placement
        PROVE  Room(ni, wr.ba, ni.main, ni.next) /\ MgmtStart <= e /\ ni.main <= ni.top
    <2>1. /\ MgmtStart <= wr.ba /\ wr.ba < wr.lim /\ ni.main # 0 /\ wr.lim = ni.main
          /\ TablesBelowPool(ni)
      BY <1>1, <1>5, WhileWriting DEF WriteRange
    <2> QED
      BY <1>4, <2>1, ShapeFields DEF Room, TablesBelowPool
  <1> QED
    BY <1>1, <1>2, <1>3, <1>4, <1>5, ShapeFields, EraseMoved

\* No block in front of the only table takes another one.
LEMMA RescueFrontFullKeeps ==
    ASSUME Shape, RescueFrontFull
    PROVE  Keeps
  <1>1. pc = "full" /\ wr.for = "rescue front" /\ pc \in TablePCs
    BY DEF RescueFrontFull, Full, TablePCs
  <1>2. Moved(ni, ni, ni.main, ni.backup, ni.next)
    BY ShapeFields, MovesNothing
  <1>3. ASSUME Placement
        PROVE  Room(ni, ni.main, ni.backup, ni.next) /\ MgmtStart <= ni.next
    BY <1>1, <1>3, WhileWriting DEF Room, TablesBelowPool
  <1>4. CASE Return(ni, FALSE)
    BY <1>1, <1>2, <1>3, <1>4, ReturnMoved
  <1>5. ASSUME NEW b \in nmbm_try_reserve_blocks(ni, ni.next),
               StartWrite(ni, b, ni.top, "rescue next"), Going
        PROVE  Keeps
    <2>1. b \in Int /\ ni.next <= b
      BY <1>5, ShapeFields, ReserveShape
    <2>2. ASSUME Placement PROVE Fits(ni, b, ni.top, "rescue next")
      BY <1>3, <2>1, <2>2, ShapeFields DEF Fits
    <2>3. "rescue next" \in Writes
      BY DEF Writes
    <2> QED
      BY <1>1, <1>2, <1>3, <1>5, <2>1, <2>2, <2>3, ShapeFields, WriteMoved
  <1> QED
    BY <1>4, <1>5 DEF RescueFrontFull

\* The second table is written in the pool; the blocks in front of it are erased.
LEMMA RescueNextWrittenKeeps ==
    ASSUME Shape, RescueNextWritten
    PROVE  Keeps
  <1>1. pc = "written" /\ wr.for = "rescue next" /\ pc \in TablePCs
    BY DEF RescueNextWritten, Written, TablePCs
  <1>2. Moved(ni, ni, ni.main, ni.backup, ni.next)
    BY ShapeFields, MovesNothing
  <1>3. StartErase(ni, ni.next, wr.ba) /\ Going
    BY DEF RescueNextWritten
  <1>4. ASSUME Placement
        PROVE  /\ Room(ni, ni.main, ni.backup, ni.next) /\ MgmtStart <= ni.next
               /\ wr.ba <= ni.top /\ ni.next <= wr.ba /\ wr.ba < ni.top
    <2>1. wr.ba < wr.lim /\ ni.next <= wr.ba /\ wr.lim = ni.top /\ TablesBelowPool(ni)
      BY <1>1, <1>4, WhileWriting DEF WriteRange
    <2> QED
      BY <2>1, ShapeFields DEF Room, TablesBelowPool
  <1> QED
    BY <1>1, <1>2, <1>3, <1>4, ShapeFields, EraseMoved

\* The order of block numbers.
LEMMA AtMost ==
    ASSUME NEW a \in Int, NEW b \in Int, NEW c \in Int, a <= b, b <= c
    PROVE  a <= c
  OBVIOUS

\* Writes that are tried again one block earlier.
LEMMA EarlierKeeps ==
    ASSUME Shape, NEW for, for = "rescue next" \/ for = "temporary", Earlier(for)
    PROVE  Keeps
  <1> DEFINE b == wr.from - 1
  <1>1. pc = "full" /\ pc \in TablePCs
    BY DEF Earlier, Full, TablePCs
  <1>2. Moved(ni, ni, ni.main, ni.backup, ni.next)
    BY ShapeFields, MovesNothing
  <1>3. StartWrite(ni, b, ni.top, for) /\ Going
    BY DEF Earlier
  <1>4. b \in Int /\ ni.next <= b
    BY ShapeFields DEF Earlier
  <1> HIDE DEF b
  <1>5. ASSUME Placement PROVE TablesBelowPool(ni)
    BY <1>1, <1>5, WhileWriting
  <1>6. ASSUME Placement
        PROVE  Room(ni, ni.main, ni.backup, ni.next) /\ MgmtStart <= b
    <2>1. TablesBelowPool(ni) => Room(ni, ni.main, ni.backup, ni.next)
      BY DEF Room, TablesBelowPool
    <2>2. ni.next \in Int /\ MgmtStart \in Int
      BY ShapeFields
    <2>3. MgmtStart <= ni.next
      BY <1>5, <1>6 DEF TablesBelowPool
    <2>4. MgmtStart <= b
      BY <1>4, <2>2, <2>3, AtMost, Zenon
    <2> QED
      BY <1>5, <1>6, <2>1, <2>4
  <1>7. ASSUME Placement PROVE Fits(ni, b, ni.top, for)
    <2>1. CASE for = "rescue next"
      BY <1>4, <1>6, <1>7, <2>1 DEF Fits
    <2>2. CASE for = "temporary"
      BY <1>4, <1>6, <1>7, <2>2 DEF Fits
    <2> QED
      BY <2>1, <2>2
  <1>8. for \in Writes
    BY DEF Writes
  <1> QED
    BY <1>1, <1>2, <1>3, <1>4, <1>6, <1>7, <1>8, ShapeFields, WriteMoved

\* No block of the pool takes the second table.
LEMMA RescueNextFullKeeps ==
    ASSUME Shape, RescueNextFull
    PROVE  Keeps
  <1>1. pc = "full" /\ pc \in TablePCs /\ Return(ni, FALSE)
    BY DEF RescueNextFull, Full, TablePCs
  <1>2. Moved(ni, ni, ni.main, ni.backup, ni.next)
    BY ShapeFields, MovesNothing
  <1>3. Placement => Room(ni, ni.main, ni.backup, ni.next)
    BY <1>1, WhileWriting DEF Room, TablesBelowPool
  <1> QED
    BY <1>1, <1>2, <1>3, ReturnMoved

\* The erase between two tables ends: only now the second one counts.
LEMMA EraseEndsKeeps ==
    ASSUME Shape, EraseEnds
    PROVE  Keeps
  <1>1. pc = "erase" /\ pc \in TablePCs
    BY DEF EraseEnds, TablePCs
  <1>2. CASE Return(ni, TRUE)
    <2>1. Moved(ni, ni, ni.main, ni.backup, ni.next)
      BY ShapeFields, MovesNothing
    <2>2. Placement => Room(ni, ni.main, ni.backup, ni.next)
      BY <1>1, WhileWriting DEF Room, TablesBelowPool
    <2> QED
      BY <1>1, <1>2, <2>1, <2>2, ReturnMoved
  <1>3. CASE ~Return(ni, TRUE)
    <2> DEFINE c == wr.tmp + 1
               r == [ni EXCEPT !.backup = wr.tmp, !.next = c]
               n == Clean(r)
    <2>1. wr.for = "rescue next" /\ Return(n, TRUE)
      BY <1>3 DEF EraseEnds
    <2>2. Moved(r, ni, ni.main, wr.tmp, c)
      BY ShapeFields, MovesTwo, Zenon
    <2>3. Moved(n, ni, ni.main, wr.tmp, c)
      <3> HIDE DEF r, c
      <3> QED
        BY <2>2, CleanMoves
    <2>4. c = wr.tmp + 1
      OBVIOUS
    <2> HIDE DEF n, c
    <2>5. ASSUME Placement PROVE Room(ni, ni.main, wr.tmp, c)
      <3>1. ni.next <= wr.tmp /\ wr.tmp < ni.top /\ TablesBelowPool(ni)
        BY <1>1, <2>1, <2>5, WhileWriting DEF EraseRange
      <3> QED
        BY <2>4, <3>1, ShapeFields DEF Room, TablesBelowPool
    <2> QED
      BY <1>1, <2>1, <2>3, <2>5, ReturnMoved
  <1> QED
    BY <1>2, <1>3

\* The update of the older of two tables.
LEMMA SingleMainWrittenKeeps ==
    ASSUME Shape, SingleMainWritten
    PROVE  Keeps
  <1> DEFINE r == [ni EXCEPT !.main = wr.ba]
             n == Clean(r)
  <1>1. pc = "written" /\ wr.for = "single main" /\ pc \in TablePCs /\ Return(n, TRUE)
    BY DEF SingleMainWritten, Written, TablePCs
  <1>2. Moved(n, ni, wr.ba, ni.backup, ni.next)
    <2>1. Moved(r, ni, wr.ba, ni.backup, ni.next)
      BY ShapeFields, MovesOne, Zenon
    <2> HIDE DEF r
    <2> QED
      BY <2>1, CleanMoves
  <1> HIDE DEF n
  <1>3. ASSUME Placement PROVE Room(ni, wr.ba, ni.backup, ni.next)
    <2>1. /\ MgmtStart <= wr.ba /\ wr.ba < wr.lim /\ ni.backup # 0 /\ wr.lim = ni.backup
          /\ TablesBelowPool(ni)
      BY <1>1, <1>3, WhileWriting DEF WriteRange
    <2> QED
      BY <2>1, ShapeFields DEF Room, TablesBelowPool
  <1> QED
    BY <1>1, <1>2, <1>3, ReturnMoved

\* No block takes the main table: the backup table becomes the main one.
LEMMA SingleMainFullKeeps ==
    ASSUME Shape, SingleMainFull
    PROVE  Keeps
  <1> DEFINE n == [ni EXCEPT !.main = ni.backup, !.backup = 0]
  <1>1. pc = "full" /\ wr.for = "single main" /\ pc \in TablePCs
    BY DEF SingleMainFull, Full, TablePCs
  <1>2. Moved(n, ni, ni.backup, 0, ni.next)
    BY ShapeFields, MovesTwo, Zenon
  <1>3. StartWrite(n, MgmtStart, n.main, "rescue front") /\ Going
    BY DEF SingleMainFull, nmbm_rescue_single_info_table
  <1> HIDE DEF n
  <1>4. n.main = ni.backup /\ n.main \in Int
    BY <1>2, ShapeFields DEF Moved
  <1>5. ASSUME Placement
        PROVE  Room(ni, ni.backup, 0, ni.next) /\ Fits(n, MgmtStart, n.main, "rescue front")
    <2>1. ni.backup # 0 /\ TablesBelowPool(ni)
      BY <1>1, <1>5, WhileWriting DEF WriteRange
    <2>2. Room(ni, ni.backup, 0, ni.next)
      BY <2>1, ShapeFields DEF Room, TablesBelowPool
    <2>3. MgmtStart <= MgmtStart
      BY GeometryAssumption
    <2>4. Fits(n, MgmtStart, n.main, "rescue front")
      BY <1>4, <2>1, <2>3 DEF Fits
    <2> QED
      BY <2>2, <2>4
  <1>6. "rescue front" \in Writes
    BY DEF Writes
  <1> QED
    BY <1>1, <1>2, <1>3, <1>4, <1>5, <1>6, ShapeFields, WriteMoved

\* The backup table is written, perhaps further up: the pool begins behind it.
LEMMA SingleBackupWrittenKeeps ==
    ASSUME Shape, SingleBackupWritten
    PROVE  Keeps
  <1> DEFINE c == wr.ba + 1
             r == [ni EXCEPT !.backup = wr.ba, !.next = c]
             n == Clean(r)
  <1>1. pc = "written" /\ wr.for = "single backup" /\ pc \in TablePCs /\ Return(n, TRUE)
    BY DEF SingleBackupWritten, Written, TablePCs
  <1>2. Moved(n, ni, ni.main, wr.ba, c)
    <2>1. Moved(r, ni, ni.main, wr.ba, c)
      BY ShapeFields, MovesTwo, Zenon
    <2> HIDE DEF r, c
    <2> QED
      BY <2>1, CleanMoves
  <1>3. c = wr.ba + 1 /\ c \in Int
    BY ShapeFields
  <1> HIDE DEF n, c
  <1>4. ASSUME Placement PROVE Room(ni, ni.main, wr.ba, c)
    <2>1. /\ MgmtStart <= wr.ba /\ wr.ba < wr.lim /\ ni.backup # 0 /\ wr.lim = ni.top
          /\ ni.backup <= wr.ba /\ TablesBelowPool(ni)
      BY <1>1, <1>4, WhileWriting DEF WriteRange
    <2> QED
      BY <1>3, <2>1, ShapeFields DEF Room, TablesBelowPool
  <1> QED
    BY <1>1, <1>2, <1>4, ReturnMoved

\* No block takes the backup table: the pool takes its place.
LEMMA SingleBackupFullKeeps ==
    ASSUME Shape, SingleBackupFull
    PROVE  Keeps
  <1> DEFINE n == [ni EXCEPT !.next = ni.backup, !.backup = 0]
  <1>1. pc = "full" /\ wr.for = "single backup" /\ pc \in TablePCs /\ Return(n, FALSE)
    BY DEF SingleBackupFull, Full, TablePCs
  <1>2. Moved(n, ni, ni.main, 0, ni.backup)
    BY ShapeFields, MovesTwo, Zenon
  <1> HIDE DEF n
  <1>3. ASSUME Placement PROVE Room(ni, ni.main, 0, ni.backup)
    <2>1. ni.backup # 0 /\ TablesBelowPool(ni)
      BY <1>1, <1>3, WhileWriting DEF WriteRange
    <2> QED
      BY <2>1, ShapeFields DEF Room, TablesBelowPool
  <1> QED
    BY <1>1, <1>2, <1>3, ReturnMoved

\* nmbm_update_info_table_once writes the main table.
LEMMA WriteMainKeeps ==
    ASSUME Shape, pc \in TablePCs, NEW r, NEW a \in Int, NEW b \in Int, NEW c \in Int,
           Moved(r, ni, a, b, c), NEW lim \in Int, WriteMain(r, lim), Going,
           Placement => /\ Room(ni, a, b, c)
                        /\ (b = 0 /\ lim = ni.top) \/ (b # 0 /\ lim = b)
    PROVE  Keeps
  <1>1. r \in Inst /\ r.main = a /\ r.backup = b /\ r.top = ni.top
    BY DEF Moved
  <1>2. CASE r.main = 0
    <2>1. nmbm_rebuild_info_table(r)
      BY <1>2 DEF WriteMain
    <2> QED
      BY <2>1, RebuildMoved
  <1>3. CASE r.main # 0
    <2>1. StartWrite(r, a, lim, "once main")
      BY <1>1, <1>3 DEF WriteMain
    <2>2. ASSUME Placement PROVE Fits(r, a, lim, "once main")
      <3>1. MgmtStart <= a
        BY <1>1, <1>3, <2>2 DEF Room
      <3> QED
        BY <1>1, <2>2, <3>1 DEF Fits
    <2>3. "once main" \in Writes
      BY DEF Writes
    <2> QED
      BY <2>1, <2>2, <2>3, WriteMoved
  <1> QED
    BY <1>2, <1>3

\* The backup table is written; now the main table, below it.
LEMMA OnceBackupWrittenKeeps ==
    ASSUME Shape, OnceBackupWritten
    PROVE  Keeps
  <1> DEFINE c == wr.ba + 1
             r == [ni EXCEPT !.backup = wr.ba, !.next = c]
             n == Clean(r)
  <1>1. pc = "written" /\ wr.for = "once backup" /\ pc \in TablePCs
    BY DEF OnceBackupWritten, Written, TablePCs
  <1>2. Moved(n, ni, ni.main, wr.ba, c)
    <2>1. Moved(r, ni, ni.main, wr.ba, c)
      BY ShapeFields, MovesTwo, Zenon
    <2> HIDE DEF r, c
    <2> QED
      BY <2>1, CleanMoves
  <1>3. c = wr.ba + 1 /\ c \in Int
    BY ShapeFields
  <1>4. WriteMain(n, wr.ba) /\ Going
    BY DEF OnceBackupWritten
  <1> HIDE DEF n, c
  <1>5. ASSUME Placement PROVE Room(ni, ni.main, wr.ba, c) /\ wr.ba # 0
    <2>1. /\ MgmtStart <= wr.ba /\ wr.ba < wr.lim /\ ni.backup # 0 /\ wr.lim = ni.top
          /\ ni.backup <= wr.ba /\ TablesBelowPool(ni)
      BY <1>1, <1>5, WhileWriting DEF WriteRange
    <2> QED
      BY <1>3, <2>1, ShapeFields DEF Room, TablesBelowPool
  <1> QED
    BY <1>1, <1>2, <1>3, <1>4, <1>5, ShapeFields, WriteMainKeeps

\* No block takes the backup table; now the main table, below the pool's top.
LEMMA OnceBackupFullKeeps ==
    ASSUME Shape, OnceBackupFull
    PROVE  Keeps
  <1> DEFINE n == [ni EXCEPT !.next = ni.backup, !.backup = 0]
  <1>1. pc = "full" /\ wr.for = "once backup" /\ pc \in TablePCs
    BY DEF OnceBackupFull, Full, TablePCs
  <1>2. Moved(n, ni, ni.main, 0, ni.backup)
    BY ShapeFields, MovesTwo, Zenon
  <1>3. WriteMain(n, ni.top) /\ Going
    BY DEF OnceBackupFull
  <1> HIDE DEF n
  <1>4. ASSUME Placement PROVE Room(ni, ni.main, 0, ni.backup)
    <2>1. ni.backup # 0 /\ TablesBelowPool(ni)
      BY <1>1, <1>4, WhileWriting DEF WriteRange
    <2> QED
      BY <2>1, ShapeFields DEF Room, TablesBelowPool
  <1> QED
    BY <1>1, <1>2, <1>3, <1>4, ShapeFields, WriteMainKeeps

\* The main table is written; without a backup table the pool begins behind it.
LEMMA OnceMainWrittenKeeps ==
    ASSUME Shape, OnceMainWritten
    PROVE  Keeps
  <1> DEFINE c == IF ni.backup = 0 THEN wr.ba + 1 ELSE ni.next
             r == [ni EXCEPT !.main = wr.ba, !.next = c]
             n == Clean(r)
  <1>1. pc = "written" /\ wr.for = "once main" /\ pc \in TablePCs
    BY DEF OnceMainWritten, Written, TablePCs
  <1>2. c \in Int /\ c = IF ni.backup = 0 THEN wr.ba + 1 ELSE ni.next
    BY ShapeFields
  <1>3. Return(n, TRUE)
    BY DEF OnceMainWritten
  <1>4. Moved(n, ni, wr.ba, ni.backup, c)
    <2>1. Moved(r, ni, wr.ba, ni.backup, c)
      <3> HIDE DEF c
      <3> QED
        BY <1>2, ShapeFields, MovesTwo, Zenon
    <2> HIDE DEF r, c
    <2> QED
      BY <2>1, CleanMoves
  <1> HIDE DEF n, c
  <1>5. ASSUME Placement PROVE Room(ni, wr.ba, ni.backup, c)
    <2>1. /\ MgmtStart <= wr.ba /\ wr.ba < wr.lim /\ TablesBelowPool(ni)
          /\ wr.lim = IF ni.backup = 0 THEN ni.top ELSE ni.backup
      BY <1>1, <1>5, WhileWriting DEF WriteRange
    <2> QED
      BY <1>2, <2>1, ShapeFields DEF Room, TablesBelowPool
  <1> QED
    BY <1>1, <1>3, <1>4, <1>5, ReturnMoved

\* No block takes the main table: nmbm_rebuild_info_table or nmbm_rescue_main_info_table.
LEMMA OnceMainFullKeeps ==
    ASSUME Shape, OnceMainFull
    PROVE  Keeps
  <1>1. pc = "full" /\ wr.for = "once main" /\ pc \in TablePCs
    BY DEF OnceMainFull, Full, TablePCs
  <1>2. Moved(ni, ni, ni.main, ni.backup, ni.next)
    BY ShapeFields, MovesNothing
  <1>3. ASSUME Placement PROVE TablesBelowPool(ni)
    BY <1>1, <1>3, WhileWriting
  <1>4. ASSUME Placement
        PROVE  Room(ni, ni.main, ni.backup, ni.next) /\ MgmtStart <= ni.next
    BY <1>3, <1>4, ShapeFields DEF Room, TablesBelowPool
  <1>5. CASE nmbm_rebuild_info_table(ni) /\ Going
    BY <1>1, <1>2, <1>4, <1>5, RebuildMoved
  <1>6. CASE ni.backup # 0 /\ Return(BackupBecomesMain, TRUE)
    <2> DEFINE n == [ni EXCEPT !.main = ni.backup, !.backup = 0]
    <2>1. Moved(n, ni, ni.backup, 0, ni.next)
      BY ShapeFields, MovesTwo, Zenon
    <2>2. Return(n, TRUE)
      BY <1>6 DEF BackupBecomesMain
    <2> HIDE DEF n
    <2>3. ASSUME Placement PROVE Room(ni, ni.backup, 0, ni.next)
      BY <1>3, <1>6, <2>3, ShapeFields DEF Room, TablesBelowPool
    <2> QED
      BY <1>1, <2>1, <2>2, <2>3, ReturnMoved
  <1>7. ASSUME NEW b \in nmbm_try_reserve_blocks(ni, ni.next),
               StartWrite(ni, b, ni.top, "temporary"), Going
        PROVE  Keeps
    <2>1. b \in Int /\ ni.next <= b
      BY <1>7, ShapeFields, ReserveShape
    <2>2. ASSUME Placement PROVE Fits(ni, b, ni.top, "temporary")
      BY <1>4, <2>1, <2>2, ShapeFields DEF Fits
    <2>3. "temporary" \in Writes
      BY DEF Writes
    <2> QED
      BY <1>1, <1>2, <1>4, <1>7, <2>1, <2>2, <2>3, ShapeFields, WriteMoved
  <1> QED
    BY <1>5, <1>6, <1>7 DEF OnceMainFull

\* No block of the pool takes the temporary table.
LEMMA TemporaryFullKeeps ==
    ASSUME Shape, TemporaryFull
    PROVE  Keeps
  <1> DEFINE n == [ni EXCEPT !.main = ni.backup, !.backup = 0]
  <1>1. pc = "full" /\ pc \in TablePCs /\ Return(n, TRUE)
    BY DEF TemporaryFull, Full, TablePCs, BackupBecomesMain
  <1>2. Moved(n, ni, ni.backup, 0, ni.next)
    BY ShapeFields, MovesTwo, Zenon
  <1> HIDE DEF n
  <1>3. ASSUME Placement PROVE TablesBelowPool(ni)
    BY <1>1, <1>3, WhileWriting
  <1>4. ASSUME Placement PROVE Room(ni, ni.backup, 0, ni.next)
    BY <1>3, <1>4, ShapeFields DEF Room, TablesBelowPool
  <1> QED
    BY <1>1, <1>2, <1>4, ReturnMoved

\* The temporary table is written; the main table follows, below it.
LEMMA TemporaryWrittenKeeps ==
    ASSUME Shape, TemporaryWritten
    PROVE  Keeps
  <1> DEFINE c == wr.ba + 1
             n == [ni EXCEPT !.next = c]
  <1>1. pc = "written" /\ wr.for = "temporary"
    BY DEF TemporaryWritten, Written
  <1>2. Moved(n, ni, ni.main, ni.backup, c)
    BY ShapeFields, MovesOne, Zenon
  <1>3. /\ ni' = n /\ pc' = "write" /\ UNCHANGED <<req, marks, saved>>
        /\ wr' = [ba |-> MgmtStart, lim |-> wr.ba, from |-> MgmtStart, tmp |-> wr.ba,
                  for |-> "main again"]
    BY DEF TemporaryWritten, Going, Memory, chip
  <1>4. c = wr.ba + 1 /\ c \in Int
    BY ShapeFields
  <1> HIDE DEF n, c
  <1>5. /\ n \in Inst /\ n.next = c /\ n.top = ni.top /\ ni.top <= ni.top
        /\ n.map = ni.map /\ n.size = ni.size
    BY <1>2, ShapeFields DEF Moved
  <1>6. wr' \in Extent
    BY <1>3, ShapeFields DEF Extent, Writes
  <1>7. ASSUME Placement PROVE Placement'
    <2>1. /\ MgmtStart <= wr.ba /\ wr.ba < wr.lim /\ wr.lim = ni.top
          /\ ni.next <= wr.ba /\ TablesBelowPool(ni) /\ Placed(ni)
      BY <1>1, <1>7, WhileWriting DEF WriteRange
    <2>2. /\ MgmtStart <= c /\ c <= ni.top
          /\ ni.main = 0 \/ (MgmtStart <= ni.main /\ ni.main < c)
          /\ ni.backup = 0 \/ (MgmtStart <= ni.backup /\ ni.main < ni.backup /\ ni.backup < c)
      BY <1>4, <2>1, ShapeFields DEF TablesBelowPool
    <2>3. Placed(n)
      BY <1>2, <2>1, <2>2, StillPlaced
    <2>4. /\ wr'.ba = MgmtStart /\ wr'.lim = wr.ba /\ wr'.tmp = wr.ba
          /\ wr'.for = "main again"
      BY <1>3
    <2>5. MgmtStart <= MgmtStart /\ n.next = wr.ba + 1
      BY <1>4, <1>5, ShapeFields
    <2>6. WriteRange(n, wr')
      BY <2>1, <2>4, <2>5 DEF WriteRange
    <2> QED
      BY <1>3, <2>3, <2>6 DEF Placed, Placement, Distinct, NoSharing
  <1> QED
    BY <1>3, <1>5, <1>6, <1>7 DEF Keeps, Shape

\* The main table is written, the temporary one becomes the backup.
LEMMA MainAgainWrittenKeeps ==
    ASSUME Shape, MainAgainWritten
    PROVE  Keeps
  <1> DEFINE r == [ni EXCEPT !.main = wr.ba, !.backup = wr.tmp]
             n == Clean(r)
  <1>1. pc = "written" /\ wr.for = "main again" /\ pc \in TablePCs /\ Return(n, TRUE)
    BY DEF MainAgainWritten, Written, TablePCs
  <1>2. Moved(n, ni, wr.ba, wr.tmp, ni.next)
    <2>1. Moved(r, ni, wr.ba, wr.tmp, ni.next)
      BY ShapeFields, MovesTwo, Zenon
    <2> HIDE DEF r
    <2> QED
      BY <2>1, CleanMoves
  <1> HIDE DEF n
  <1>3. ASSUME Placement PROVE Room(ni, wr.ba, wr.tmp, ni.next)
    <2>1. /\ MgmtStart <= wr.ba /\ wr.ba < wr.lim /\ wr.lim = wr.tmp
          /\ MgmtStart <= wr.tmp /\ ni.next = wr.tmp + 1 /\ TablesBelowPool(ni)
      BY <1>1, <1>3, WhileWriting DEF WriteRange
    <2> QED
      BY <2>1, ShapeFields DEF Room, TablesBelowPool
  <1> QED
    BY <1>1, <1>2, <1>3, ReturnMoved

\* No block takes the main table: the temporary one becomes the main table.
LEMMA MainAgainFullKeeps ==
    ASSUME Shape, MainAgainFull
    PROVE  Keeps
  <1> DEFINE r == [ni EXCEPT !.main = wr.tmp, !.backup = 0]
             n == Clean(r)
  <1>1. pc = "full" /\ wr.for = "main again" /\ pc \in TablePCs /\ Return(n, TRUE)
    BY DEF MainAgainFull, Full, TablePCs
  <1>2. Moved(n, ni, wr.tmp, 0, ni.next)
    <2>1. Moved(r, ni, wr.tmp, 0, ni.next)
      BY ShapeFields, MovesTwo, Zenon
    <2> HIDE DEF r
    <2> QED
      BY <2>1, CleanMoves
  <1> HIDE DEF n
  <1>3. ASSUME Placement PROVE Room(ni, wr.tmp, 0, ni.next)
    <2>1. MgmtStart <= wr.tmp /\ ni.next = wr.tmp + 1 /\ TablesBelowPool(ni)
      BY <1>1, <1>3, WhileWriting DEF WriteRange
    <2> QED
      BY <2>1, ShapeFields DEF Room, TablesBelowPool
  <1> QED
    BY <1>1, <1>2, <1>3, ReturnMoved

\* The loop of nmbm_update_info_table.
LEMMA WhileResting ==
    ASSUME Shape, Placement, pc \in Resting
    PROVE  Placed(ni) /\ TablesBelowPool(ni)
  BY DEF Resting, Placed, Placement, Distinct, NoSharing

\* Nothing is left to write.
LEMMA UpdateEndsKeeps ==
    ASSUME Shape, UpdateEnds
    PROVE  Keeps
  <1>1. pc = "update" /\ UpdateReturn(ni, TRUE) /\ UNCHANGED <<wr, marks>>
    BY DEF UpdateEnds, Memory, chip
  <1>2. ASSUME Placement PROVE Placed(ni)
    BY <1>1, <1>2, WhileResting DEF Resting
  <1>3. /\ ni' \in Inst /\ req' \in Request
        /\ saved' = saved \/ saved' = {ni.map}'
        /\ ni.map' = ni.map /\ ni.size' = ni.size
        /\ Placed(ni) => Placement' /\ ni.top' <= ni.top
    BY <1>1, ShapeFields, UpdateReturnKeeps
  <1> QED
    BY <1>1, <1>2, <1>3 DEF Keeps, Shape

\* nmbm_update_info_table_once begins.
LEMMA UpdateOnceKeeps ==
    ASSUME Shape, UpdateOnce
    PROVE  Keeps
  <1> DEFINE n == nmbm_generate_info_table_cache(ni)
  <1>1. /\ pc = "update" /\ nmbm_update_info_table_once(n) /\ UNCHANGED <<marks, saved>>
        /\ req' = [req EXCEPT !.table = "update"]
    BY DEF UpdateOnce, Memory, chip
  <1>2. req' \in Request
    BY <1>1, ShapeFields DEF Request
  <1>3. Moved(n, ni, ni.main, ni.backup, ni.next)
    BY ShapeFields, MovesNothing
  <1> HIDE DEF n
  <1>4. /\ n \in Inst /\ n.main = ni.main /\ n.backup = ni.backup /\ n.top = ni.top
        /\ n.main \in Int /\ n.backup \in Int /\ n.top \in Int /\ ni.top <= ni.top
        /\ n.map = ni.map /\ n.size = ni.size
    BY <1>3, ShapeFields DEF Moved
  <1>5. ASSUME Placement PROVE TablesBelowPool(ni) /\ Placed(n)
    <2>1. Placed(ni) /\ TablesBelowPool(ni)
      BY <1>1, <1>5, WhileResting DEF Resting
    <2> QED
      BY <1>3, <2>1, StillPlaced DEF TablesBelowPool
  <1>6. CASE n.backup = 0 /\ n.main = 0
    <2>1. nmbm_rebuild_info_table(n)
      BY <1>1, <1>6 DEF nmbm_update_info_table_once, WriteMain
    <2>2. /\ ni' \in Inst /\ wr' \in Extent /\ ni.top' = n.top
          /\ ni.map' = n.map /\ ni.size' = n.size /\ (Placed(n) => Placement')
      BY <1>4, <2>1, ShapeFields, RebuildBegins
    <2> QED
      BY <1>1, <1>2, <1>4, <1>5, <2>2 DEF Keeps, Shape
  <1>7. CASE n.backup = 0 /\ n.main # 0
    <2>1. StartWrite(n, n.main, n.top, "once main")
      BY <1>1, <1>7 DEF nmbm_update_info_table_once, WriteMain
    <2>2. "once main" \in Writes
      BY DEF Writes
    <2>3. /\ ni' = n /\ wr' \in Extent
          /\ Placed(n) /\ Fits(n, n.main, n.top, "once main") => Placement'
      BY <1>4, <2>1, <2>2, ShapeFields, WriteBegins
    <2>4. ASSUME Placement PROVE Fits(n, n.main, n.top, "once main")
      <3>1. MgmtStart <= n.main
        BY <1>4, <1>5, <1>7, <2>4 DEF TablesBelowPool
      <3> QED
        BY <1>7, <3>1 DEF Fits
    <2> QED
      BY <1>1, <1>2, <1>4, <1>5, <2>3, <2>4 DEF Keeps, Shape
  <1>8. CASE n.backup # 0
    <2>1. StartWrite(n, n.backup, n.top, "once backup")
      BY <1>1, <1>8 DEF nmbm_update_info_table_once
    <2>2. "once backup" \in Writes
      BY DEF Writes
    <2>3. /\ ni' = n /\ wr' \in Extent
          /\ Placed(n) /\ Fits(n, n.backup, n.top, "once backup") => Placement'
      BY <1>4, <2>1, <2>2, ShapeFields, WriteBegins
    <2>4. ASSUME Placement PROVE Fits(n, n.backup, n.top, "once backup")
      <3>1. MgmtStart <= n.backup /\ n.backup <= n.backup
        BY <1>4, <1>5, <1>8, <2>4 DEF TablesBelowPool
      <3> QED
        BY <1>8, <3>1 DEF Fits
    <2> QED
      BY <1>1, <1>2, <1>4, <1>5, <2>3, <2>4 DEF Keeps, Shape
  <1> QED
    BY <1>6, <1>7, <1>8

\* Every step of the functions that write tables.
LEMMA TableStepsKeep ==
    ASSUME Shape, TableSteps
    PROVE  Keeps
  <1>1. CASE RebuildMainWritten \/ RebuildMainFull \/ RebuildBackupWritten \/ RebuildBackupFull
    BY <1>1, RebuildMainWrittenKeeps, RebuildMainFullKeeps, RebuildBackupWrittenKeeps,
       RebuildBackupFullKeeps
  <1>2. CASE RescueFrontWritten \/ RescueFrontFull \/ RescueNextWritten \/ RescueNextFull
    BY <1>2, RescueFrontWrittenKeeps, RescueFrontFullKeeps, RescueNextWrittenKeeps,
       RescueNextFullKeeps
  <1>3. CASE RescueNextEarlier \/ TemporaryEarlier
    BY <1>3, EarlierKeeps DEF RescueNextEarlier, TemporaryEarlier
  <1>4. CASE SingleMainWritten \/ SingleMainFull \/ SingleBackupWritten \/ SingleBackupFull
    BY <1>4, SingleMainWrittenKeeps, SingleMainFullKeeps, SingleBackupWrittenKeeps,
       SingleBackupFullKeeps
  <1>5. CASE OnceBackupWritten \/ OnceBackupFull \/ OnceMainWritten \/ OnceMainFull
    BY <1>5, OnceBackupWrittenKeeps, OnceBackupFullKeeps, OnceMainWrittenKeeps,
       OnceMainFullKeeps
  <1>6. CASE TemporaryFull \/ TemporaryWritten \/ MainAgainWritten \/ MainAgainFull
    BY <1>6, TemporaryFullKeeps, TemporaryWrittenKeeps, MainAgainWrittenKeeps,
       MainAgainFullKeeps
  <1>7. CASE EraseEnds \/ UpdateEnds \/ UpdateOnce
    BY <1>7, EraseEndsKeeps, UpdateEndsKeeps, UpdateOnceKeeps
  <1> QED
    BY <1>1, <1>2, <1>3, <1>4, <1>5, <1>6, <1>7 DEF TableSteps

-----------------------------------------------------------------------------
(* Steps on the chip *)

\* A write or an erase goes on with the next block.
LEMMA NextBlock ==
    ASSUME Shape, pc \in {"write", "erase"}, UNCHANGED <<pc, req>>,
           ni' = ni \/ ni' = nmbm_set_bad(ni, wr.ba),
           wr' = [wr EXCEPT !.ba = wr.ba + 1], marks' \subseteq Int, UNCHANGED saved
    PROVE  Keeps
  <1> DEFINE c == wr.ba + 1
             w == [wr EXCEPT !.ba = c]
  <1>1. Moved(ni', ni, ni.main, ni.backup, ni.next)
    BY ShapeFields, MovesNothing
  <1>2. /\ ni' \in Inst /\ ni'.main = ni.main /\ ni'.backup = ni.backup
        /\ ni'.next = ni.next /\ ni'.top = ni.top /\ ni.top <= ni.top
        /\ ni'.map = ni.map /\ ni'.size = ni.size
    BY <1>1, ShapeFields DEF Moved
  <1>3. c \in Int /\ wr.ba <= c /\ wr' = w
    BY ShapeFields
  <1>4. /\ w \in Extent /\ w.ba = c /\ w.lim = wr.lim /\ w.from = wr.from
        /\ w.tmp = wr.tmp /\ w.for = wr.for
    <2> HIDE DEF c
    <2> QED
      BY <1>3, ShapeFields DEF Extent
  <1> HIDE DEF c, w
  <1>5. ASSUME NEW x \in Int, x <= wr.ba
        PROVE  x <= c
    BY <1>3, <1>5, ShapeFields
  <1>6. ASSUME NEW x \in Int, x < wr.ba
        PROVE  x < c
    BY <1>3, <1>6, ShapeFields
  <1>7. ASSUME Placement PROVE Placement'
    <2>1. Placed(ni) /\ TablesBelowPool(ni)
      BY <1>7, WhileWriting
    <2>2. Placed(ni')
      BY <1>1, <2>1, StillPlaced DEF TablesBelowPool
    <2>3. CASE pc = "write"
      <3>1. WriteRange(ni, wr)
        BY <1>7, <2>3, WhileWriting
      <3>2. MgmtStart <= c
        BY <1>5, <3>1, ShapeFields DEF WriteRange
      <3>3. /\ ni.next <= wr.ba => ni.next <= c
            /\ ni.main < wr.ba => ni.main < c
            /\ ni.backup <= wr.ba => ni.backup <= c
        BY <1>5, <1>6, ShapeFields
      <3>4. WriteRange(ni', w)
        BY <1>2, <1>4, <3>1, <3>2, <3>3, Zenon DEF WriteRange
      <3> QED
        BY <1>3, <2>2, <2>3, <3>4 DEF Placed, Placement, Distinct, NoSharing
    <2>4. CASE pc = "erase"
      <3>1. EraseRange(ni, wr)
        BY <1>7, <2>4, WhileWriting
      <3>2. MgmtStart <= c
        BY <1>5, <3>1, ShapeFields DEF EraseRange
      <3>3. EraseRange(ni', w)
        BY <1>2, <1>4, <3>1, <3>2, Zenon DEF EraseRange
      <3> QED
        BY <1>3, <2>2, <2>4, <3>3 DEF Placed, Placement, Distinct, NoSharing
    <2> QED
      BY <2>3, <2>4
  <1> QED
    BY <1>2, <1>3, <1>4, <1>7 DEF Keeps, Shape

\* A block whose operation fails is marked, or not.
LEMMA FailsShape ==
    ASSUME Shape, BlockFails
    PROVE  ni' = nmbm_set_bad(ni, wr.ba) /\ marks' \subseteq Int /\ UNCHANGED saved
  BY ShapeFields DEF BlockFails, Shape

\* Every operation on the blocks of the tables.
LEMMA WriteStepsKeep ==
    ASSUME Shape, \/ WriteSkips \/ WriteSucceeds \/ WriteFails \/ WriteRunsOut
                  \/ EraseSkips \/ EraseSucceeds \/ EraseFails
    PROVE  Keeps
  <1>1. CASE WriteSkips \/ EraseSkips
    BY <1>1, NextBlock DEF WriteSkips, EraseSkips, Skip, chip, seen, Shape
  <1>2. CASE WriteFails \/ EraseFails
    BY <1>2, FailsShape, NextBlock DEF WriteFails, EraseFails
  <1>3. CASE EraseSucceeds
    BY <1>3, NextBlock DEF EraseSucceeds, seen, Shape
  <1>4. CASE WriteSucceeds
    BY <1>4, ShapeFields DEF WriteSucceeds, Usable, Keeps, Shape, Placement, NoSharing, seen
  <1>5. CASE WriteRunsOut
    BY <1>5, ShapeFields DEF WriteRunsOut, Keeps, Shape, Placement, NoSharing, chip, seen
  <1> QED
    BY <1>1, <1>2, <1>3, <1>4, <1>5

\* The instance stays, and no table is written next.
LEMMA RestsOn ==
    ASSUME Shape, pc \in Resting, pc' \in Resting, UNCHANGED <<ni, wr, saved>>,
           req' \in Request, marks' \subseteq Int
    PROVE  Keeps
  <1>1. ASSUME Placement PROVE Placement'
    BY <1>1, WhileResting, RestingPlacedNext
  <1> QED
    BY <1>1, ShapeFields DEF Keeps, Shape

\* The fields of the request.
LEMMA RequestFields ==
    ASSUME Shape
    PROVE  /\ req.lb \in Logical /\ req.old \in Int
           /\ \A o \in Int : [req EXCEPT !.old = o] \in Request
           /\ \A o \in Int : [req EXCEPT !.op = "flips", !.old = o] \in Request
           /\ [req EXCEPT !.update = "remap"] \in Request
           /\ \A lb \in Logical : ni.map[lb] \in Int
  <1>1. req \in Request /\ ni.map \in IntMap
    BY ShapeFields, InstFields
  <1>2. \A lb \in Logical : ni.map[lb] \in Int
    BY <1>1 DEF IntMap, Places, Unmapped
  <1>3. req.lb \in Logical /\ req.old \in Int
    BY <1>1 DEF Request
  <1>4. /\ \A o \in Int : [req EXCEPT !.old = o] \in Request
        /\ \A o \in Int : [req EXCEPT !.op = "flips", !.old = o] \in Request
        /\ [req EXCEPT !.update = "remap"] \in Request
    BY <1>1 DEF Request, Operations
  <1> QED
    BY <1>2, <1>3, <1>4

\* Every operation on the blocks of the requests.
LEMMA RequestStepsKeep ==
    ASSUME Shape, \/ CopySucceeds \/ CopyFails \/ Repair \/ RepairFails \/ MarkBad
                  \/ RequestSucceeds \/ ReadFindsBitflips \/ RequestFails \/ BlockIsBad
    PROVE  Keeps
  <1>1. CASE CopySucceeds \/ CopyFails
    <2>1. /\ pc = "copy" /\ pc' = "update" /\ UNCHANGED <<ni, wr, marks, saved>>
          /\ req' = [req EXCEPT !.update = "remap"]
      BY <1>1 DEF CopySucceeds, CopyFails, Updating, seen
    <2> QED
      BY <2>1, RequestFields, RestsOn DEF Resting, Shape
  <1>2. CASE Repair \/ RepairFails
    BY <1>2, RestsOn DEF Repair, RepairFails, Resting, Shape, seen
  <1>3. CASE MarkBad
    BY <1>3, RequestFields, RestsOn DEF MarkBad, Resting, Shape, seen
  <1>4. CASE RequestSucceeds
    BY <1>4, RestsOn DEF RequestSucceeds, Resting, Shape
  <1>5. CASE ReadFindsBitflips
    <2>1. /\ pc = "request" /\ pc' = "map" /\ UNCHANGED <<ni, wr, marks, saved>>
          /\ req' = [req EXCEPT !.op = "flips", !.old = ni.map[req.lb]]
      BY <1>5 DEF ReadFindsBitflips, chip, seen
    <2> QED
      BY <2>1, RequestFields, RestsOn DEF Resting, Shape
  <1>6. CASE RequestFails \/ BlockIsBad
    <2>1. /\ pc = "request" /\ pc' = "map" /\ UNCHANGED <<ni, wr, marks, saved>>
          /\ req' = [req EXCEPT !.old = ni.map[req.lb]]
      BY <1>6 DEF RequestFails, BlockIsBad, chip, seen
    <2> QED
      BY <2>1, RequestFields, RestsOn DEF Resting, Shape
  <1> QED
    BY <1>1, <1>2, <1>3, <1>4, <1>5, <1>6

\* The top of the pool that nmbm_create_info_table finds: between the management
\* blocks' start and the signature.
LEMMA FirstTop ==
    ASSUME NEW n \in Inst, NEW t \in SkipDown(Descending(n, n.sig, MgmtStart), 1)
    PROVE  t \in Int /\ MgmtStart < t /\ t < n.sig
  <1> DEFINE walk == Descending(n, n.sig, MgmtStart)
             above == {c \in walk : c > t}
  <1>1. t \in walk /\ Cardinality(above) = 1
    BY DEF SkipDown
  <1>2. \A b \in walk : b \in Int /\ MgmtStart < b /\ b <= n.sig
    BY GeometryAssumption DEF Descending, Blocks
  <1>3. above # {}
    BY <1>1, FS_EmptySet
  <1>4. PICK c \in walk : c > t
    BY <1>3
  <1> HIDE DEF walk
  <1> QED
    BY <1>1, <1>2, <1>4, InstFields

\* The top of the pool is set.
LEMMA TopSet ==
    ASSUME NEW n \in Inst, NEW t \in Int
    PROVE  LET r == [n EXCEPT !.top = t]
           IN  r \in Inst /\ r.top = t /\ r.map = n.map /\ r.sig = n.sig /\ r.size = n.size
  BY DEF Inst

\* The place of the signature is set.
LEMMA SignatureSet ==
    ASSUME NEW n \in Inst, NEW b \in Places
    PROVE  LET r == [n EXCEPT !.sig = b]
           IN  r \in Inst /\ r.sig = b /\ r.map = n.map /\ r.size = n.size
  BY DEF Inst

\* nmbm_create_info_table begins behind the mapping of the good data blocks.
LEMMA CreateBegins ==
    ASSUME wr \in Extent, NEW n \in Inst, nmbm_create_info_table(n)
    PROVE  /\ ni' \in Inst /\ wr' \in Extent /\ req' \in Request
           /\ ni.map' = n.map /\ ni.size' = n.size
           /\ Distinct(n.map) /\ OwnPlace(n.map) => Placement'
  <1>1. req' \in Request
    BY FreshShape DEF nmbm_create_info_table, Request
  <1>2. CASE ni' = n /\ pc' = "dead" /\ UNCHANGED wr
    BY <1>1, <1>2 DEF Placement, NoSharing, Distinct
  <1>3. ASSUME NEW t \in SkipDown(Descending(n, n.sig, MgmtStart), 1),
               nmbm_rebuild_info_table(nmbm_generate_info_table_cache([n EXCEPT !.top = t]))
        PROVE  /\ ni' \in Inst /\ wr' \in Extent
               /\ ni.map' = n.map /\ ni.size' = n.size
               /\ Distinct(n.map) /\ OwnPlace(n.map) => Placement'
    <2> DEFINE r == [n EXCEPT !.top = t]
               g == nmbm_generate_info_table_cache(r)
    <2>1. t \in Int /\ MgmtStart < t /\ t < n.sig
      BY FirstTop
    <2>2. r \in Inst /\ r.top = t /\ r.map = n.map /\ r.sig = n.sig /\ r.size = n.size
      BY <2>1, TopSet
    <2>3. g \in Inst /\ g.top = t /\ g.map = n.map /\ g.sig = n.sig /\ g.size = n.size
      <3> HIDE DEF r
      <3> QED
        BY <2>2, CacheShape, CacheKeeps
    <2>4. nmbm_rebuild_info_table(g)
      BY <1>3
    <2> HIDE DEF g
    <2>5. /\ ni' \in Inst /\ wr' \in Extent
          /\ ni.map' = g.map /\ ni.size' = g.size
          /\ /\ Distinct(g.map) /\ Above(g.map, g.top)
             /\ MgmtStart <= g.top /\ g.top < g.sig
             => Placement'
      BY <2>3, <2>4, RebuildFrom
    <2>6. MgmtStart <= g.top /\ g.top < g.sig
      BY <2>1, <2>3, GeometryAssumption
    <2>7. ASSUME OwnPlace(n.map) PROVE Above(g.map, g.top)
      BY <2>3, <2>7 DEF OwnPlace, Above
    <2> QED
      BY <2>3, <2>5, <2>6, <2>7
  <1> QED
    BY <1>1, <1>2, <1>3 DEF nmbm_create_info_table

\* nmbm_write_signature.
LEMMA SignatureStepsKeep ==
    ASSUME Shape, SignatureSucceeds \/ SignatureFails \/ SignatureRunsOut
    PROVE  Keeps
  <1>1. CASE SignatureSucceeds
    <2> DEFINE n == [ni EXCEPT !.sig = wr.ba]
    <2>1. n \in Inst /\ n.map = ni.map /\ n.size = ni.size
      <3>1. wr.ba \in Places
        BY <1>1, ShapeFields DEF SignatureSucceeds, Places
      <3> QED
        BY <3>1, ShapeFields, SignatureSet
    <2>2. pc = "signature" /\ nmbm_create_info_table(n) /\ UNCHANGED <<marks, saved>>
      BY <1>1 DEF SignatureSucceeds, seen
    <2> HIDE DEF n
    <2>3. /\ ni' \in Inst /\ wr' \in Extent /\ req' \in Request
          /\ ni.map' = n.map /\ ni.size' = n.size
          /\ Distinct(n.map) /\ OwnPlace(n.map) => Placement'
      BY <2>1, <2>2, ShapeFields, CreateBegins
    <2>4. Placement => Distinct(n.map) /\ OwnPlace(n.map)
      BY <2>1, <2>2 DEF Placement, NoSharing, Distinct
    <2> QED
      BY <2>1, <2>2, <2>3, <2>4 DEF Keeps, Shape
  <1>2. CASE SignatureFails
    <2> DEFINE b == wr.ba - 1
    <2>1. /\ pc = "signature" /\ UNCHANGED <<pc, req>>
          /\ wr' = [wr EXCEPT !.ba = b]
          /\ \/ UNCHANGED <<ni, marks, saved>>
             \/ BlockFails
      BY <1>2 DEF SignatureFails, chip, seen
    <2>2. /\ ni' = ni \/ ni' = nmbm_set_bad(ni, wr.ba)
          /\ marks' \subseteq Int /\ UNCHANGED saved
      BY <2>1, FailsShape DEF Shape
    <2>3. Moved(ni', ni, ni.main, ni.backup, ni.next)
      BY <2>2, ShapeFields, MovesNothing
    <2>4. ni' \in Inst /\ ni'.map = ni.map /\ ni'.size = ni.size
      BY <2>3 DEF Moved
    <2>5. wr' \in Extent
      <3>1. b \in Int
        BY ShapeFields
      <3> HIDE DEF b
      <3> QED
        BY <2>1, <3>1, ShapeFields DEF Extent
    <2>6. Placement => Placement'
      BY <2>1, <2>4 DEF Placement, NoSharing
    <2> QED
      BY <2>1, <2>2, <2>4, <2>5, <2>6 DEF Keeps, Shape
  <1>3. CASE SignatureRunsOut
    BY <1>3 DEF SignatureRunsOut, Keeps, Shape, Placement, NoSharing, chip, seen
  <1> QED
    BY <1>1, <1>2, <1>3

\* Every operation on the chip.
LEMMA ChipStepsKeep ==
    ASSUME Shape, ChipSteps
    PROVE  Keeps
  BY WriteStepsKeep, RequestStepsKeep, SignatureStepsKeep DEF ChipSteps

-----------------------------------------------------------------------------
(* Replacements *)

\* MapTo with the block at the top of the pool.
LEMMA MapsTop ==
    ASSUME NEW n \in Inst, NEW lb, Placed(n), n.next # n.top
    PROVE  Placed(MapTo(n, lb, n.top))
  <1> DEFINE pb == n.top
             t == n.top - 1
             map == [n.map EXCEPT ![lb] = pb]
             r == [n EXCEPT !.map = map, !.top = t, !.changed = TRUE]
  <1>1. /\ n.map \in IntMap /\ n.top \in Int /\ n.next \in Int /\ n.sig \in Int
        /\ pb = n.top /\ t = n.top - 1 /\ t \in Int
    BY InstFields
  <1>2. TablesBelowPool(n) /\ Above(n.map, n.top) /\ Distinct(n.map)
    BY DEF Placed
  <1>3. MgmtStart <= n.top /\ n.next <= t /\ t < n.sig /\ MgmtStart \in Int
    BY <1>1, <1>2, GeometryAssumption DEF TablesBelowPool
  <1> HIDE DEF pb, t
  <1>4. \A l \in Logical : map[l] = n.map[l] \/ (l = lb /\ map[l] = pb)
    BY <1>1 DEF IntMap
  <1>5. \A l \in Logical : n.map[l] \in Int /\ n.map[l] # pb
    <2> TAKE l \in Logical
    <2>1. n.map[l] \in Int
      BY <1>1 DEF IntMap, Places, Unmapped
    <2>2. n.map[l] \in Logical \cup {Unmapped} \/ n.top < n.map[l]
      BY <1>2 DEF Above
    <2> QED
      BY <1>1, <1>3, <2>1, <2>2, GeometryAssumption DEF Logical, Unmapped
  <1>6. pb # Unmapped
    BY <1>1, <1>3, GeometryAssumption DEF Unmapped
  <1>7. Distinct(map)
    <2> SUFFICES ASSUME NEW k \in Logical, NEW l \in Logical, k # l,
                        map[k] # Unmapped, map[k] = map[l]
                 PROVE  FALSE
      BY DEF Distinct
    <2> HIDE DEF map
    <2> QED
      BY <1>2, <1>4, <1>5, <1>6 DEF Distinct
  <1>8. Above(map, t)
    <2> SUFFICES ASSUME NEW l \in Logical
                 PROVE  map[l] \in Logical \cup {Unmapped} \/ t < map[l]
      BY DEF Above
    <2>1. map[l] = n.map[l] \/ map[l] = pb
      BY <1>4
    <2>2. n.map[l] \in Logical \cup {Unmapped} \/ n.top < n.map[l]
      BY <1>2 DEF Above
    <2>3. t < pb /\ (n.top < n.map[l] => t < n.map[l])
      BY <1>1, <1>5
    <2> HIDE DEF map
    <2> QED
      BY <2>1, <2>2, <2>3
  <1> HIDE DEF map
  <1>9. /\ r.map = map /\ r.top = t /\ r.next = n.next /\ r.main = n.main
        /\ r.backup = n.backup /\ r.sig = n.sig
    BY DEF Inst
  <1> HIDE DEF r
  <1>10. Placed(r)
    BY <1>2, <1>3, <1>7, <1>8, <1>9 DEF Placed, TablesBelowPool
  <1>11. MapTo(n, lb, pb) = r
    BY DEF MapTo, r, map, t
  <1> QED
    BY <1>10, <1>11 DEF pb

\* The pool does not grow.
LEMMA MapToTop ==
    ASSUME NEW n \in Inst, NEW lb, NEW pb
    PROVE  MapTo(n, lb, pb).top <= n.top
  <1>1. MapTo(n, lb, pb).top = n.top - 1
    BY DEF MapTo, Inst
  <1> QED
    BY <1>1, InstFields

\* What every step of the driver proves.
KeepsLayout ==
    /\ Shape' /\ (Layout => Layout')
    /\ saved' = saved \/ saved' = {ni.map}'
    /\ Placement /\ pc # "signature" => ni.top' <= ni.top

\* The instance apart from size, which the layout does not depend on.
LEMMA SizeSet ==
    ASSUME NEW n \in Inst, NEW z \in Int
    PROVE  LET r == [n EXCEPT !.size = z]
           IN  /\ r \in Inst /\ r.main = n.main /\ r.backup = n.backup /\ r.next = n.next
               /\ r.map = n.map /\ r.top = n.top /\ r.sig = n.sig /\ r.bad = n.bad
               /\ r.size = z
  BY DEF Inst

\* nmbm_map_block: it takes the top of the pool, or there is a hole.
LEMMA MapStepKeeps ==
    ASSUME Shape, pc \in Resting, NEW n \in Inst, n.main = ni.main, n.backup = ni.backup,
           n.next = ni.next, n.map = ni.map, n.top = ni.top, n.sig = ni.sig,
           UNCHANGED <<wr, marks, saved>>, NEW lb,
           \/ MapFails(n)
           \/ \E pb \in Found(n) : MapSucceeds(n, lb, pb) /\ pc' \in Resting
    PROVE  KeepsLayout
  <1>1. n \in Inst /\ n.top = ni.top /\ ni.top <= ni.top
    BY ShapeFields
  <1>2. ASSUME Placement PROVE Placed(n)
    <2>1. Placed(ni)
      BY <1>2, WhileResting
    <2> QED
      BY <2>1 DEF Placed, TablesBelowPool
  <1>3. CASE MapFails(n) /\ MapFailed(n)
    <2>1. UNCHANGED faults
      BY <1>3 DEF MapFails
    <2>2. ni' \in Inst /\ ni' = n /\ req' \in Request /\ (Placed(n) => Placement')
      BY <1>1, <1>3, ShapeFields, MapFailedKeeps
    <2> QED
      BY <1>1, <1>2, <2>1, <2>2 DEF KeepsLayout, Shape, Layout
  <1>4. CASE MapFails(n) /\ ~MapFailed(n)
    <2>1. /\ UNCHANGED faults /\ ni' = n /\ pc' = "update"
          /\ req' = [req EXCEPT !.update = "no spare"]
      BY <1>4 DEF MapFails
    <2>2. req' \in Request
      BY <2>1, ShapeFields DEF Request
    <2>3. Placed(n) => Placed(ni)'
      BY <2>1
    <2>4. Placed(n) => Placement'
      BY <2>1, <2>3, RestingPlacedNext DEF Resting
    <2> QED
      BY <1>1, <1>2, <2>1, <2>2, <2>4 DEF KeepsLayout, Shape, Layout
  <1>5. ASSUME NEW pb \in Found(n), MapSucceeds(n, lb, pb), pc' \in Resting
        PROVE  KeepsLayout
    <2>1. /\ ni' = MapTo(n, lb, pb) /\ UNCHANGED req
          /\ faults' = IF pb # n.top THEN faults \cup {"hole"} ELSE faults
      BY <1>5 DEF MapSucceeds
    <2>2. pb \in Places /\ n.next # n.top
      BY <1>1, <1>5, FoundShape DEF Found
    <2>3. ni' \in Inst /\ ni.top' <= ni.top
      BY <1>1, <2>1, <2>2, ShapeFields, MapToShape, MapToTop
    <2>4. ASSUME Layout, "hole" \notin faults' PROVE Placement'
      <3>1. pb = n.top /\ Placement
        BY <2>1, <2>4 DEF Layout
      <3>2. Placed(MapTo(n, lb, n.top))
        BY <1>1, <1>2, <2>2, <3>1, MapsTop
      <3>3. Placed(ni)'
        BY <2>1, <3>1, <3>2
      <3> QED
        BY <1>5, <3>3, RestingPlacedNext
    <2> QED
      BY <2>1, <2>3, <2>4 DEF KeepsLayout, Shape, Layout
  <1> QED
    BY <1>3, <1>4, <1>5

\* The loop of nmbm_create_info_table.
LEMMA FillKeeps ==
    ASSUME Shape, Fill
    PROVE  KeepsLayout
  <1> DEFINE z == ni.size + 1
             n == [ni EXCEPT !.size = z]
  <1>1. pc = "fill" /\ pc \in Resting /\ UNCHANGED <<wr, marks, saved>>
    BY DEF Fill, chip, Resting
  <1>2. CASE MapFails(ni)
    BY <1>1, <1>2, ShapeFields, MapStepKeeps
  <1>3. CASE \E pb \in Found(ni) : MapSucceeds(n, ni.size, pb) /\ pc' = "fill"
    <2>1. ni.size \in Int /\ z \in Int
      BY ShapeFields, InstFields
    <2>2. /\ n \in Inst /\ n.main = ni.main /\ n.backup = ni.backup /\ n.next = ni.next
          /\ n.map = ni.map /\ n.top = ni.top /\ n.sig = ni.sig
      <3> HIDE DEF z
      <3> QED
        BY <2>1, ShapeFields, SizeSet
    <2>3. \E pb \in Found(n) : MapSucceeds(n, ni.size, pb) /\ pc' \in Resting
      <3> HIDE DEF n
      <3> QED
        BY <1>3 DEF MapSucceeds, Resting
    <2> HIDE DEF n
    <2> QED
      BY <1>1, <2>2, <2>3, MapStepKeeps
  <1>4. CASE /\ pc' = "update" /\ req' = [req EXCEPT !.update = "create"]
             /\ UNCHANGED <<ni, faults>>
    <2>1. req' \in Request
      BY <1>4, ShapeFields DEF Request
    <2>2. Keeps
      BY <1>1, <1>4, <2>1, RestsOn DEF Resting, Shape
    <2> QED
      BY <1>4, <2>2 DEF Keeps, KeepsLayout, Layout
  <1> QED
    BY <1>2, <1>3, <1>4 DEF Fill

\* remap_block_nmbm up to the copy.
LEMMA MapKeeps ==
    ASSUME Shape, Map
    PROVE  KeepsLayout
  <1> DEFINE n == nmbm_set_bad(ni, req.old)
  <1>1. pc = "map" /\ pc \in Resting /\ UNCHANGED <<wr, marks, saved>>
    BY DEF Map, chip, Resting
  <1>2. Moved(n, ni, ni.main, ni.backup, ni.next)
    BY ShapeFields, RequestFields, MovesNothing
  <1>3. \/ MapFails(n)
        \/ \E pb \in Found(n) : MapSucceeds(n, req.lb, pb) /\ pc' \in Resting
    <2> HIDE DEF n
    <2>1. \/ MapFails(n)
          \/ \E pb \in Found(n) : MapSucceeds(n, req.lb, pb) /\ pc' = "copy"
      BY DEF Map, n
    <2> QED
      BY <2>1 DEF Resting
  <1> HIDE DEF n
  <1> QED
    BY <1>1, <1>2, <1>3, MapStepKeeps DEF Moved

-----------------------------------------------------------------------------
(* The driver, the requests and the power cut *)

\* A hole in the pool stays known.
LEMMA HoleStays ==
    ASSUME Next, "hole" \in faults
    PROVE  "hole" \in faults'
  <1>1. CASE TableSteps
    BY <1>1 DEF TableSteps, RebuildMainWritten, RebuildMainFull, RebuildBackupWritten,
       RebuildBackupFull, RescueFrontWritten, RescueFrontFull, RescueNextWritten,
       RescueNextEarlier, RescueNextFull, SingleMainWritten, SingleMainFull,
       SingleBackupWritten, SingleBackupFull, OnceBackupWritten, OnceBackupFull,
       OnceMainWritten, OnceMainFull, TemporaryEarlier, TemporaryFull, TemporaryWritten,
       MainAgainWritten, MainAgainFull, EraseEnds, UpdateEnds, UpdateOnce, Earlier,
       Return, Going, Memory
  <1>2. CASE ChipSteps
    BY <1>2 DEF ChipSteps, WriteSkips, WriteSucceeds, WriteFails, WriteRunsOut, EraseSkips,
       EraseSucceeds, EraseFails, SignatureSucceeds, SignatureFails, SignatureRunsOut,
       CopySucceeds, CopyFails, Repair, RepairFails, MarkBad, RequestSucceeds,
       ReadFindsBitflips, RequestFails, BlockIsBad, Skip, BlockFails, seen
  <1>3. CASE Fill \/ Map
    BY <1>3 DEF Fill, Map, MapFails, MapSucceeds
  <1>4. CASE Attach \/ Requests \/ PowerCut
    BY <1>4 DEF Attach, Requests, Begin, BeginMark, BeginUnmap, PowerCut, seen
  <1> QED
    BY <1>1, <1>2, <1>3, <1>4 DEF Next, Driver

\* Every step of the driver keeps the layout, unless it makes a hole in the pool.
LEMMA DriverKeeps ==
    ASSUME Shape, Driver
    PROVE  KeepsLayout
  <1>1. "hole" \in faults => "hole" \in faults'
    BY HoleStays DEF Next
  <1>2. ASSUME Keeps PROVE KeepsLayout
    BY <1>1, <1>2 DEF Keeps, KeepsLayout, Layout
  <1> QED
    BY <1>2, TableStepsKeep, ChipStepsKeep, FillKeeps, MapKeeps DEF Driver

\* A new request.
LEMMA NewRequestShape ==
    ASSUME Shape, NEW op \in Operations, NEW lb \in Logical,
           NEW update \in {"none", "unmap"}, NewRequest(op, lb, update)
    PROVE  req' \in Request /\ pc = "idle"
  <1> DEFINE old == ni.map[lb]
  <1>1. old \in Int
    BY RequestFields
  <1>2. req' = [NoReq EXCEPT !.op = op, !.lb = lb, !.old = old, !.update = update]
    BY DEF NewRequest
  <1> HIDE DEF old
  <1>3. req' \in Request
    BY <1>1, <1>2, FreshShape DEF Request
  <1> QED
    BY <1>3 DEF NewRequest

\* A new request leaves the instance alone.
LEMMA BeginKeeps ==
    ASSUME Shape, NEW op \in Operations, NEW lb \in Logical,
           Begin(op, lb) \/ BeginMark(op, lb)
    PROVE  KeepsLayout
  <1>1. /\ NewRequest(op, lb, "none") /\ pc' \in Resting
        /\ UNCHANGED <<ni, wr, marks, faults, saved>>
    BY DEF Begin, BeginMark, chip, seen, Resting
  <1>2. req' \in Request /\ pc = "idle"
    BY <1>1, NewRequestShape
  <1>3. Keeps
    BY <1>1, <1>2, RestsOn DEF Resting, Shape
  <1> QED
    BY <1>1, <1>3 DEF Keeps, KeepsLayout, Layout

\* An instance without mapping shares nothing.
LEMMA FreshDistinct == Distinct(Fresh.map)
  BY DEF Fresh, NoMap, Distinct

\* A power cut leaves no instance.
LEMMA PowerCutKeeps ==
    ASSUME Shape, PowerCut
    PROVE  Shape' /\ Layout'
  <1>1. ni' = Fresh /\ pc' = "off" /\ wr' = NoRange /\ req' = NoReq /\ UNCHANGED marks
    BY DEF PowerCut
  <1> QED
    BY <1>1, FreshShape, FreshDistinct DEF Shape, Layout, Placement, NoSharing, Distinct

-----------------------------------------------------------------------------
(* Attaching *)

\* nmbm_find_signature returns a block.
LEMMA SignatureFound ==
    ASSUME Signatures # {}
    PROVE  Maximum(Signatures) \in Blocks
  <1>1. \A b \in Signatures : b \in Int /\ b <= BlockCount
    BY GeometryAssumption DEF Signatures, Blocks
  <1>2. Maximum(Signatures) \in Signatures
    BY <1>1, MaximumIsGreatest, GeometryAssumption
  <1> QED
    BY <1>2 DEF Signatures

\* The first block of a set of blocks.
LEMMA FirstBlock ==
    ASSUME NEW S, S # {}, S \subseteq Blocks
    PROVE  Minimum(S) \in S
  <1>1. \A b \in S : b \in Int /\ -1 <= b
    BY GeometryAssumption DEF Blocks
  <1> QED
    BY <1>1, MinimumIsLeast

\* Where a table can be loaded.
LEMMA LoadableTable ==
    ASSUME NEW ba, NEW bad, NEW sig, NEW b \in Loadable(ba, bad, sig)
    PROVE  /\ b \in Blocks /\ ba <= b /\ b < sig - 1 /\ flash[b] \in Table
           /\ nmbm_check_info_table(flash[b], b, sig)
  BY DEF Loadable

\* The tables that nmbm_load_info_table finds, and the instance it makes of them.
LEMMA TablesFound ==
    ASSUME NEW ecc, NEW sig \in Blocks, Loadable(MgmtStart, {}, sig) # {},
           NEW m, m = Minimum(Loadable(MgmtStart, {}, sig)),
           NEW backups, backups = Loadable(m + 1, flash[m].bad \cup ecc, sig),
           NEW s, s = IF backups = {} THEN 0 ELSE Minimum(backups)
    PROVE  /\ m \in Blocks /\ flash[m] \in Table /\ MgmtStart <= m /\ m < sig - 1
           /\ s \in Blocks /\ (s # 0 => flash[s] \in Table /\ m < s /\ s < sig - 1)
  <1>1. m \in Loadable(MgmtStart, {}, sig)
    BY FirstBlock DEF Loadable
  <1>2. m \in Blocks /\ flash[m] \in Table /\ MgmtStart <= m /\ m < sig - 1
    BY <1>1, LoadableTable
  <1>3. CASE backups = {}
    <2>1. 0 \in Blocks
      BY GeometryAssumption DEF Blocks
    <2> QED
      BY <1>2, <1>3, <2>1, Zenon
  <1>4. CASE backups # {}
    <2>1. s \in Loadable(m + 1, flash[m].bad \cup ecc, sig)
      BY <1>4, FirstBlock DEF Loadable
    <2>2. s \in Blocks /\ flash[s] \in Table /\ m + 1 <= s /\ s < sig - 1
      BY <2>1, LoadableTable
    <2>3. \A x, y \in Blocks : x + 1 <= y => x < y
      BY GeometryAssumption DEF Blocks
    <2> QED
      BY <1>2, <2>2, <2>3, Zenon
  <1> QED
    BY <1>3, <1>4

\* What a table must be like for the instance made of it to be complete.
OwnTable(t) == t \in Table => Distinct(t.map) /\ OwnPlace(t.map)

\* The mappings of the tables use data blocks, and blocks behind all tables and one more.
Roomy ==
    \A b, c \in Blocks : flash[b] \in Table /\ flash[c] \in Table =>
        /\ Distinct(flash[c].map)
        /\ \A lb \in Logical :
              flash[c].map[lb] \in Logical \cup {Unmapped} \/ b + 1 < flash[c].map[lb]

\* nmbm_load_info_table: the layout follows from that of the tables.
LEMMA LoadTablesKeep ==
    ASSUME Shape, NEW ecc, NEW sig \in Blocks, LoadTables(ecc, sig), UNCHANGED marks
    PROVE  /\ Shape'
           /\ saved' = saved \/ saved' = {ni.map}'
           /\ pc' \notin {"off", "dead", "signature"}
           /\ Roomy => Placement'
  <1> DEFINE mains == Loadable(MgmtStart, {}, sig)
             m == Minimum(mains)
             backups == Loadable(m + 1, flash[m].bad \cup ecc, sig)
             s == IF backups = {} THEN 0 ELSE Minimum(backups)
             n == Loaded(m, s, ecc, sig)
             newer == s # 0 /\ flash[s].count > flash[m].count
             t == IF newer THEN flash[s] ELSE flash[m]
             b == IF newer THEN s ELSE m
             older == s # 0 /\ flash[m].count < flash[s].count
             same == s # 0 /\ flash[m].count = flash[s].count
             c == [n EXCEPT !.changed = TRUE]
             p == (n.next = n.top)
  <1>1. mains # {} /\ req' = [NoReq EXCEPT !.table = "load"]
    BY DEF LoadTables
  <1>2. /\ m \in Blocks /\ flash[m] \in Table /\ MgmtStart <= m /\ m < sig - 1
        /\ s \in Blocks /\ (s # 0 => flash[s] \in Table /\ m < s /\ s < sig - 1)
    <2> HIDE DEF m, s, backups
    <2> QED
      BY <1>1, TablesFound DEF m, s, backups
  <1>3. /\ n \in Inst /\ n.main = m /\ n.backup = s /\ n.sig = sig /\ n.map = t.map
        /\ n.next = (IF s = 0 THEN m ELSE s) + 1 /\ n.top = TopOf(t, b, sig)
    <2> HIDE DEF m, s
    <2> QED
      BY <1>2, LoadedInstance
  <1>4. t \in Table /\ b \in {m, s} /\ b \in Blocks /\ MgmtStart <= b
        /\ t = flash[b]
    <2> HIDE DEF m, s
    <2> QED
      BY <1>2, GeometryAssumption DEF Blocks
  <1>5. req' \in Request
    BY <1>1, FreshShape DEF Request
  <1>6. ASSUME Roomy
        PROVE  Placed(n)
    <2> DEFINE x == IF s = 0 THEN m ELSE s
    <2>0. x \in Blocks /\ flash[x] \in Table /\ x < sig - 1 /\ b <= x /\ n.next = x + 1
      <3> HIDE DEF m, s, n
      <3> QED
        BY <1>2, <1>3, <1>4, GeometryAssumption DEF Blocks
    <2>1. /\ x \in Int /\ b \in Int /\ sig \in Int /\ MgmtStart \in Int /\ m \in Int /\ s \in Int
          /\ 0 < MgmtStart
      <3> HIDE DEF m, s, x, b
      <3> QED
        BY <1>2, <1>4, <2>0, GeometryAssumption DEF Blocks
    <2> HIDE DEF m, s, n, t, b, x
    <2>2. /\ Distinct(t.map)
          /\ \A lb \in Logical : t.map[lb] \in Logical \cup {Unmapped} \/ x + 1 < t.map[lb]
      BY <1>4, <1>6, <2>0 DEF Roomy
    <2>3. /\ TopOf(t, b, sig) \in Int /\ TopOf(t, b, sig) < sig
          /\ \A lb \in Logical : b < t.map[lb] => TopOf(t, b, sig) < t.map[lb]
          /\ \/ TopOf(t, b, sig) = sig - 1
             \/ \E lb \in Logical : b < t.map[lb] /\ TopOf(t, b, sig) = t.map[lb] - 1
      BY <1>4, TopOfTable
    <2>4. \A lb \in Logical :
             /\ t.map[lb] \in Int
             /\ t.map[lb] \in Logical \cup {Unmapped} => ~(b < t.map[lb])
      <3> TAKE lb \in Logical
      <3>1. t.map[lb] \in Int
        BY <1>4, GeometryAssumption DEF Table, Mapping, Blocks, Unmapped
      <3> QED
        BY <1>4, <2>1, <3>1, GeometryAssumption DEF Logical, Unmapped
    <2>5. x + 1 <= TopOf(t, b, sig)
      BY <2>0, <2>1, <2>2, <2>3, <2>4
    <2>6. Above(t.map, TopOf(t, b, sig))
      BY <2>0, <2>1, <2>2, <2>3, <2>4 DEF Above
    <2>7. TablesBelowPool(n)
      <3>1. /\ n.main = m /\ n.backup = s /\ n.sig = sig /\ n.next = x + 1
            /\ n.top \in Int /\ x + 1 <= n.top /\ n.top < sig
        BY <1>3, <2>0, <2>3, <2>5
      <3>2. MgmtStart <= m /\ m <= x /\ (s # 0 => s = x /\ m < s)
        BY <1>2, <2>1 DEF x
      <3> QED
        BY <2>1, <3>1, <3>2 DEF TablesBelowPool
    <2> QED
      BY <1>3, <2>2, <2>6, <2>7 DEF Placed
  <1>7. /\ n.main \in Int /\ n.backup \in Int /\ n.next \in Int /\ n.top \in Int
        /\ MgmtStart \in Int /\ MgmtStart <= MgmtStart
    <2>1. n \in Inst
      BY <1>3
    <2>2. MgmtStart \in Int /\ MgmtStart <= MgmtStart
      BY GeometryAssumption
    <2> HIDE DEF n
    <2> QED
      BY <2>1, <2>2, InstFields, Zenon
  <1>8. MgmtStart <= n.main /\ n.main # 0 /\ n.backup <= n.backup
        /\ (n.backup # 0 => MgmtStart <= n.backup)
    <2> HIDE DEF m, s, n
    <2> QED
      BY <1>2, <1>3, <1>7, GeometryAssumption DEF Blocks
  <1>9. /\ saved' = {n.map}
        /\ \/ s = 0 /\ nmbm_rescue_single_info_table(n)
           \/ /\ s # 0
              /\ nmbm_update_single_info_table(c, older)
           \/ /\ ni' = [n EXCEPT !.protected = p]
              /\ pc' = "idle" /\ UNCHANGED wr
    BY DEF LoadTables
  <1>10. Moved(c, n, n.main, n.backup, n.next)
    <2> HIDE DEF n
    <2> QED
      BY <1>3, MovesNothing
  <1>11. Moved([n EXCEPT !.protected = p], n, n.main, n.backup, n.next)
    <2>1. p \in BOOLEAN
      OBVIOUS
    <2> HIDE DEF n, p
    <2> QED
      BY <1>3, <2>1, MovesNothing
  <1>12. Placed(n) => Placed(c) /\ Placed([n EXCEPT !.protected = p])
    <2> HIDE DEF n, c, p
    <2> QED
      BY <1>10, <1>11, StillPlaced DEF Placed, TablesBelowPool
  <1> HIDE DEF m, s, n, c, older, p
  <1>13. CASE s = 0 /\ nmbm_rescue_single_info_table(n)
    <2>1. StartWrite(n, MgmtStart, n.main, "rescue front")
      BY <1>13 DEF nmbm_rescue_single_info_table
    <2>2. "rescue front" \in Writes
      BY DEF Writes
    <2>3. /\ ni' = n /\ wr' \in Extent
          /\ Placed(n) /\ Fits(n, MgmtStart, n.main, "rescue front") => Placement'
      BY <1>3, <1>7, <2>1, <2>2, ShapeFields, WriteBegins
    <2>4. Fits(n, MgmtStart, n.main, "rescue front")
      BY <1>7, <1>8 DEF Fits
    <2>5. pc' = "write"
      BY <2>1 DEF StartWrite
    <2> QED
      BY <1>3, <1>5, <1>6, <1>9, <1>13, <2>3, <2>4, <2>5 DEF Shape
  <1>14. CASE s # 0 /\ nmbm_update_single_info_table(c, older)
    <2>1. /\ c \in Inst /\ c.main = n.main /\ c.backup = n.backup /\ c.top = n.top
          /\ c.backup # 0 /\ c.map = n.map
      BY <1>3, <1>10, <1>14 DEF Moved
    <2>2. CASE StartWrite(c, c.main, c.backup, "single main")
      <3>1. "single main" \in Writes
        BY DEF Writes
      <3>2. /\ ni' = c /\ wr' \in Extent
            /\ Placed(c) /\ Fits(c, c.main, c.backup, "single main") => Placement'
        BY <1>7, <2>1, <2>2, <3>1, ShapeFields, WriteBegins
      <3>3. Fits(c, c.main, c.backup, "single main")
        BY <1>8, <2>1 DEF Fits
      <3>4. pc' = "write"
        BY <2>2 DEF StartWrite
      <3> QED
        BY <1>5, <1>6, <1>9, <1>12, <1>14, <2>1, <3>2, <3>3, <3>4 DEF Shape
    <2>3. CASE StartWrite(c, c.backup, c.top, "single backup")
      <3>1. "single backup" \in Writes
        BY DEF Writes
      <3>2. /\ ni' = c /\ wr' \in Extent
            /\ Placed(c) /\ Fits(c, c.backup, c.top, "single backup") => Placement'
        BY <1>7, <2>1, <2>3, <3>1, ShapeFields, WriteBegins
      <3>3. Fits(c, c.backup, c.top, "single backup")
        BY <1>8, <2>1 DEF Fits
      <3>4. pc' = "write"
        BY <2>3 DEF StartWrite
      <3> QED
        BY <1>5, <1>6, <1>9, <1>12, <1>14, <2>1, <3>2, <3>3, <3>4 DEF Shape
    <2> QED
      BY <1>14, <2>2, <2>3 DEF nmbm_update_single_info_table
  <1>15. CASE ni' = [n EXCEPT !.protected = p] /\ pc' = "idle" /\ UNCHANGED wr
    <2>1. ni' \in Inst /\ ni'.map = n.map
      BY <1>11, <1>15 DEF Moved
    <2>2. ASSUME Placed(n) PROVE Placement'
      <3>1. Placed(ni)'
        BY <1>12, <1>15, <2>2
      <3> QED
        BY <1>15, <3>1, RestingPlacedNext DEF Resting
    <2> QED
      BY <1>5, <1>6, <1>9, <1>15, <2>1, <2>2 DEF Shape
  <1> QED
    BY <1>9, <1>13, <1>14, <1>15

\* nmbm_create_new.
LEMMA CreateNewKeeps ==
    ASSUME Shape, NEW map \in Mapping, CreateNew(map), UNCHANGED marks
    PROVE  Shape' /\ Placement' /\ pc' = "signature"
  <1> DEFINE n == WithInitialMapping(Fresh, map)
             last == BlockCount - 1
  <1>1. /\ InitialMapping({b \in Logical : b \notin n.bad}, map)
        /\ ni' = n /\ pc' = "signature" /\ req' = NoReq /\ wr' = [NoRange EXCEPT !.ba = last]
    BY DEF CreateNew
  <1>2. n \in Inst /\ Distinct(n.map) /\ OwnPlace(n.map)
    <2> HIDE DEF n
    <2> QED
      BY <1>1, FreshShape, InitialInstance DEF n, Shape
  <1>3. wr' \in Extent
    <2>1. last \in Int
      BY GeometryAssumption
    <2> HIDE DEF last
    <2> QED
      BY <1>1, <2>1, FreshShape DEF Extent
  <1> HIDE DEF n
  <1>4. Placement'
    BY <1>1, <1>2 DEF Placement, NoSharing, Distinct
  <1> QED
    BY <1>1, <1>2, <1>3, <1>4, FreshShape DEF Shape

\* nmbm_load_existing when no table was found.
LEMMA CreateTablesKeeps ==
    ASSUME Shape, NEW ecc, NEW sig \in Blocks, NEW map \in Mapping,
           CreateTables(ecc, sig, map), UNCHANGED marks
    PROVE  Shape' /\ Placement' /\ pc' \in {"dead", "write"} /\ saved' = {}
  <1> DEFINE bad == FoundBad(MgmtStart, sig - 1, ecc)
             found == bad # {}
             f == [Fresh EXCEPT !.bad = bad, !.sig = sig, !.changed = found]
             n == WithInitialMapping(f, map)
  <1>1. /\ InitialMapping({b \in Logical : b \notin n.bad}, map)
        /\ nmbm_create_info_table(n) /\ saved' = {}
    BY DEF CreateTables
  <1>2. f \in Inst
    <2>1. bad \subseteq Int /\ found \in BOOLEAN /\ sig \in Places
      BY GeometryAssumption DEF FoundBad, Blocks, Places
    <2> HIDE DEF bad, found
    <2> QED
      BY <2>1, FreshShape DEF Inst
  <1>3. n \in Inst /\ Distinct(n.map) /\ OwnPlace(n.map)
    <2> HIDE DEF f, n
    <2> QED
      BY <1>1, <1>2, InitialInstance DEF n, Shape
  <1> HIDE DEF n
  <1>4. /\ ni' \in Inst /\ wr' \in Extent /\ req' \in Request
        /\ Distinct(n.map) /\ OwnPlace(n.map) => Placement'
    BY <1>1, <1>3, ShapeFields, CreateBegins
  <1>5. pc' \in {"dead", "write"}
    BY <1>1 DEF nmbm_create_info_table, nmbm_rebuild_info_table, StartWrite
  <1> QED
    BY <1>1, <1>3, <1>4, <1>5 DEF Shape

\* Attaching brings about the layout when the tables on the chip leave room.
LEMMA AttachKeeps ==
    ASSUME Shape, Attach
    PROVE  /\ Shape' /\ pc' # "off"
           /\ saved' = saved \/ saved' = {} \/ (pc' # "signature" /\ saved' = {ni.map}')
           /\ Placement /\ Roomy => Placement'
  <1>1. UNCHANGED marks
    BY DEF Attach, chip
  <1>2. CASE Unusable
    BY <1>1, <1>2 DEF Unusable, Shape, Placement, NoSharing
  <1>3. CASE \E map \in Mapping : CreateNew(map) /\ UNCHANGED saved
    BY <1>1, <1>3, CreateNewKeeps
  <1>4. CASE /\ Signatures # {}
             /\ \E ecc \in SUBSET TornBlocks :
                  \/ LoadTables(ecc, Maximum(Signatures))
                  \/ \E map \in Mapping : CreateTables(ecc, Maximum(Signatures), map)
    <2> DEFINE sig == Maximum(Signatures)
    <2>1. sig \in Blocks
      BY <1>4, SignatureFound
    <2>2. PICK ecc : \/ LoadTables(ecc, sig)
                     \/ \E map \in Mapping : CreateTables(ecc, sig, map)
      BY <1>4
    <2> HIDE DEF sig
    <2>3. CASE LoadTables(ecc, sig)
      BY <1>1, <2>1, <2>3, LoadTablesKeep
    <2>4. CASE \E map \in Mapping : CreateTables(ecc, sig, map)
      BY <1>1, <2>1, <2>4, CreateTablesKeeps
    <2> QED
      BY <2>2, <2>3, <2>4
  <1> QED
    BY <1>2, <1>3, <1>4 DEF Attach

-----------------------------------------------------------------------------
(* The debugfs files mark_good and repair *)

\* unmap_block_nmbm: its guess is a number, the layout is not kept.
LEMMA UnmapShape ==
    ASSUME Shape, NEW lb \in Logical, Kept(lb) # {}
    PROVE  unmap_block_nmbm(lb) \in Inst
  <1> DEFINE near == Nearest(lb)
             was == ni.map[near] + (lb - near)
             map == [ni.map EXCEPT ![lb] = was]
             bad == ni.bad \ {was}
             n == [ni EXCEPT !.map = map, !.bad = bad, !.changed = TRUE]
             S == Replacements(n) \cup {n.sig}
             top == Minimum(S) - 1
  <1>1. \A l \in Kept(lb) : l \in Int /\ l <= lb /\ l \in Logical
    BY GeometryAssumption DEF Kept, Logical
  <1>2. near \in Kept(lb)
    <2>1. lb \in Int
      BY GeometryAssumption DEF Logical
    <2>2. Maximum(Kept(lb)) \in Kept(lb)
      BY <1>1, <2>1, MaximumIsGreatest
    <2> QED
      BY <2>2 DEF Nearest, Maximum
  <1>3. ni \in Inst /\ ni.map \in IntMap /\ ni.bad \subseteq Int /\ lb \in Int
    BY ShapeFields, InstFields, GeometryAssumption DEF Inst, Logical
  <1>4. was \in Places
    <2>1. ni.map[near] \in Places /\ near \in Int /\ near <= lb
      BY <1>1, <1>2, <1>3 DEF IntMap
    <2> HIDE DEF near
    <2> QED
      BY <1>3, <2>1 DEF Places, Unmapped
  <1>5. map \in IntMap /\ bad \in SUBSET Int
    <2> HIDE DEF was
    <2> QED
      BY <1>3, <1>4 DEF IntMap
  <1>6. n \in Inst
    <2> HIDE DEF map, bad
    <2> QED
      BY <1>3, <1>5 DEF Inst
  <1>7. top \in Int
    <2> HIDE DEF n
    <2>1. n.map \in IntMap /\ n.sig \in Places
      BY <1>6, InstFields
    <2>2. S # {} /\ \A x \in S : x \in Places
      BY <2>1 DEF Replacements, IntMap
    <2>3. \A x \in Places : x \in Int /\ -1 <= x
      BY DEF Places, Unmapped
    <2> HIDE DEF S
    <2>4. Minimum(S) \in S
      BY <2>2, <2>3, MinimumIsLeast
    <2> QED
      BY <2>2, <2>3, <2>4
  <1>8. [n EXCEPT !.top = top] \in Inst
    <2> HIDE DEF n, top
    <2> QED
      BY <1>6, <1>7, TopSet
  <1>9. unmap_block_nmbm(lb) = [n EXCEPT !.top = top]
    BY DEF unmap_block_nmbm
  <1> QED
    BY <1>8, <1>9

\* A write to one of the two files.
LEMMA BeginUnmapKeeps ==
    ASSUME Shape, NEW op \in Operations, NEW lb \in Logical, BeginUnmap(op, lb)
    PROVE  Shape'
  <1>1. NewRequest(op, lb, "unmap") /\ UNCHANGED <<wr, marks>>
    BY DEF BeginUnmap, chip
  <1>2. req' \in Request
    BY <1>1, NewRequestShape
  <1>3. ni' \in Inst
    BY UnmapShape DEF BeginUnmap, Shape
  <1> QED
    BY <1>1, <1>2, <1>3 DEF Shape

-----------------------------------------------------------------------------
(* The whole system *)

Unmaps == \E op \in Operations, lb \in Logical : BeginUnmap(op, lb)

\* Every number stays a number, through attaching, requests and power cuts.
LEMMA ShapeStep ==
    ASSUME Shape, [Next]_vars
    PROVE  Shape'
  <1>1. CASE Attach
    BY <1>1, AttachKeeps
  <1>2. CASE Driver
    BY <1>2, DriverKeeps DEF KeepsLayout
  <1>3. CASE Requests
    <2>1. PICK op \in Operations, lb \in Logical :
            Begin(op, lb) \/ BeginMark(op, lb) \/ BeginUnmap(op, lb)
      BY <1>3 DEF Requests
    <2> QED
      BY <2>1, BeginKeeps, BeginUnmapKeeps DEF KeepsLayout
  <1>4. CASE PowerCut
    BY <1>4, PowerCutKeeps
  <1>5. CASE UNCHANGED vars
    BY <1>5 DEF Shape, vars, chip
  <1> QED
    BY <1>1, <1>2, <1>3, <1>4, <1>5 DEF Next

\* The chips to start from.
LEMMA ShapeInitially ==
    ASSUME Init
    PROVE  Shape
  <1>1. PICK s \in Scenarios : marks = s.bad
    BY DEF Init
  <1>2. s \in Scenario
    BY ScenarioAssumption
  <1>3. marks \subseteq Int
    BY <1>1, <1>2, GeometryAssumption DEF Scenario, Blocks
  <1>4. ni = Fresh /\ wr = NoRange /\ req = NoReq
    BY DEF Init
  <1> QED
    BY <1>3, <1>4, FreshShape DEF Shape

\* Requests of the MTD layer leave the instance alone; only unmapping does not.
LEMMA LayoutStep ==
    ASSUME Shape, [Next]_vars, ~Attach, ~Unmaps, Layout
    PROVE  Layout'
  <1>1. CASE Driver
    BY <1>1, DriverKeeps DEF KeepsLayout
  <1>2. CASE Requests
    <2>1. PICK op \in Operations, lb \in Logical :
            Begin(op, lb) \/ BeginMark(op, lb) \/ BeginUnmap(op, lb)
      BY <1>2 DEF Requests
    <2> QED
      BY <2>1, BeginKeeps DEF KeepsLayout, Unmaps
  <1>3. CASE PowerCut
    BY <1>3, PowerCutKeeps
  <1>4. CASE UNCHANGED vars
    BY <1>4 DEF Layout, Placement, NoSharing, vars, seen
  <1> QED
    BY <1>1, <1>2, <1>3, <1>4 DEF Next

\* Where the driver can be before and behind one of its steps.
LEMMA DriverStates ==
    ASSUME Driver
    PROVE  /\ pc \notin {"off", "dead"} /\ pc' # "off"
           /\ pc' = "signature" => pc = "signature"
  <1>1. ASSUME NEW n, MapFailed(n) PROVE pc' \notin {"off", "signature"}
    BY <1>1 DEF MapFailed
  <1>2. ASSUME NEW n, NEW ok, UpdateReturn(n, ok) PROVE pc' \notin {"off", "signature"}
    BY <1>1, <1>2 DEF UpdateReturn, RemapReturns
  <1>3. ASSUME NEW n, NEW ok, Return(n, ok) PROVE pc' \notin {"off", "signature"}
    BY <1>2, <1>3 DEF Return, TableReturn
  <1>4. ASSUME NEW n, NEW lim, WriteMain(n, lim) PROVE pc' = "write"
    BY <1>4 DEF WriteMain, nmbm_rebuild_info_table, StartWrite
  <1>5. CASE RebuildMainWritten \/ RebuildMainFull \/ RebuildBackupWritten \/ RebuildBackupFull
    BY <1>3, <1>5 DEF RebuildMainWritten, RebuildMainFull, RebuildBackupWritten,
       RebuildBackupFull, Written, Full, StartWrite, StartErase
  <1>6. CASE \/ RescueFrontWritten \/ RescueFrontFull \/ RescueNextWritten
             \/ RescueNextEarlier \/ RescueNextFull \/ TemporaryEarlier
    BY <1>3, <1>6 DEF RescueFrontWritten, RescueFrontFull, RescueNextWritten,
       RescueNextEarlier, RescueNextFull, TemporaryEarlier, Earlier, Written, Full,
       StartWrite, StartErase
  <1>7. CASE SingleMainWritten \/ SingleMainFull \/ SingleBackupWritten \/ SingleBackupFull
    BY <1>3, <1>7 DEF SingleMainWritten, SingleMainFull, SingleBackupWritten,
       SingleBackupFull, Written, Full, StartWrite, nmbm_rescue_single_info_table
  <1>8. CASE OnceBackupWritten \/ OnceBackupFull \/ OnceMainWritten \/ OnceMainFull
    BY <1>3, <1>4, <1>8 DEF OnceBackupWritten, OnceBackupFull, OnceMainWritten,
       OnceMainFull, Written, Full, StartWrite, nmbm_rebuild_info_table
  <1>9. CASE TemporaryFull \/ TemporaryWritten \/ MainAgainWritten \/ MainAgainFull
    BY <1>3, <1>9 DEF TemporaryFull, TemporaryWritten, MainAgainWritten, MainAgainFull,
       Written, Full
  <1>10. CASE EraseEnds \/ UpdateEnds \/ UpdateOnce
    BY <1>2, <1>3, <1>4, <1>10 DEF EraseEnds, UpdateEnds, UpdateOnce,
       nmbm_update_info_table_once, StartWrite
  <1>11. CASE ChipSteps
    BY <1>11 DEF ChipSteps, WriteSkips, WriteSucceeds, WriteFails, WriteRunsOut, EraseSkips,
       EraseSucceeds, EraseFails, SignatureSucceeds, SignatureFails, SignatureRunsOut,
       CopySucceeds, CopyFails, Repair, RepairFails, MarkBad, RequestSucceeds,
       ReadFindsBitflips, RequestFails, BlockIsBad, Skip, Updating,
       nmbm_create_info_table, nmbm_rebuild_info_table, StartWrite
  <1>12. CASE Fill \/ Map
    BY <1>1, <1>12 DEF Fill, Map, MapFails
  <1> QED
    BY <1>5, <1>6, <1>7, <1>8, <1>9, <1>10, <1>11, <1>12 DEF Driver, TableSteps

\* The stored mappings, too, use no block that the tables can take.
Stored ==
    \A m \in saved :
        /\ m \in IntMap
        /\ pc \in {"off", "signature"} => OwnPlace(m)
        /\ pc # "dead" => Above(m, ni.top)

\* The inductive invariant until the first power cut.
BootInv ==
    /\ Shape
    /\ "hole" \in faults \/ (Placement /\ Stored)
    /\ pc = "off" => \A b \in Blocks : OwnTable(flash[b])

\* A mapping without replacements uses nothing below any top.
LEMMA OwnIsAbove ==
    ASSUME NEW m, NEW top, OwnPlace(m)
    PROVE  Above(m, top)
  BY DEF OwnPlace, Above

\* A mapping above the pool is above a smaller one.
LEMMA BelowIsAbove ==
    ASSUME NEW m \in IntMap, NEW top \in Int, NEW t \in Int, t <= top, Above(m, top)
    PROVE  Above(m, t)
  <1> SUFFICES ASSUME NEW lb \in Logical
               PROVE  m[lb] \in Logical \cup {Unmapped} \/ t < m[lb]
    BY DEF Above
  <1>1. m[lb] \in Int
    BY DEF IntMap, Places, Unmapped
  <1> QED
    BY <1>1 DEF Above

\* A step of the driver keeps the invariant: the mapping it stores is its own.
LEMMA BootDriver ==
    ASSUME BootInv, Driver
    PROVE  BootInv'
  <1>1. /\ Shape /\ Shape' /\ (Layout => Layout')
        /\ saved' = saved \/ saved' = {ni.map}'
        /\ Placement /\ pc # "signature" => ni.top' <= ni.top
    BY DriverKeeps DEF BootInv, KeepsLayout
  <1>2. /\ pc \notin {"off", "dead"} /\ pc' # "off"
        /\ pc' = "signature" => pc = "signature"
    BY DriverStates
  <1>3. "hole" \in faults => "hole" \in faults'
    BY HoleStays DEF Next
  <1>4. ASSUME "hole" \notin faults' PROVE Placement' /\ Stored'
    <2>1. Placement /\ Stored /\ Placement'
      BY <1>1, <1>3, <1>4 DEF BootInv, Layout
    <2>2. CASE saved' = saved
      <3> SUFFICES ASSUME NEW m \in saved
                   PROVE  /\ m \in IntMap
                          /\ pc' = "signature" => OwnPlace(m)
                          /\ Above(m, ni.top')
        BY <1>2, <2>1, <2>2 DEF Stored
      <3>1. /\ m \in IntMap /\ Above(m, ni.top)
            /\ pc = "signature" => OwnPlace(m)
        BY <1>2, <2>1 DEF Stored
      <3>2. CASE pc = "signature"
        BY <3>1, <3>2, OwnIsAbove
      <3>3. CASE pc # "signature"
        <4>1. ni.top \in Int /\ ni.top' \in Int
          BY <1>1, InstFields DEF Shape
        <4> QED
          BY <1>1, <1>2, <2>1, <3>1, <3>3, <4>1, BelowIsAbove
      <3> QED
        BY <3>2, <3>3
    <2>3. CASE saved' = {ni.map}'
      <3>1. ni.map' \in IntMap
        BY <1>1, InstFields DEF Shape
      <3>2. pc' = "signature" => OwnPlace(ni.map')
        BY <2>1 DEF Placement
      <3>3. pc' # "dead" => Above(ni.map', ni.top')
        BY <1>2, <2>1, <3>2, OwnIsAbove DEF Placement
      <3> QED
        BY <1>2, <2>1, <2>3, <3>1, <3>2, <3>3 DEF Stored
    <2> QED
      BY <1>1, <2>1, <2>2, <2>3
  <1> QED
    BY <1>1, <1>2, <1>4 DEF BootInv

\* Attaching to a chip nothing has been replaced on.
LEMMA BootAttach ==
    ASSUME BootInv, Attach
    PROVE  BootInv'
  <1>0. pc = "off" => Roomy
    BY DEF BootInv, Roomy, OwnTable, OwnPlace
  <1>1. pc = "off" /\ UNCHANGED faults
    BY DEF Attach
  <1>2. /\ Shape' /\ pc' # "off"
        /\ saved' = saved \/ saved' = {} \/ (pc' # "signature" /\ saved' = {ni.map}')
        /\ "hole" \notin faults => Placement'
    BY <1>0, <1>1, AttachKeeps DEF BootInv
  <1>3. ASSUME "hole" \notin faults PROVE Placement' /\ Stored'
    <2>0. Placement'
      BY <1>2, <1>3
    <2>1. CASE saved' = saved
      BY <1>1, <1>2, <1>3, <2>0, <2>1, OwnIsAbove DEF BootInv, Stored
    <2>2. CASE saved' = {}
      BY <2>0, <2>2 DEF Stored
    <2>3. CASE pc' # "signature" /\ saved' = {ni.map}'
      <3>1. ni.map' \in IntMap
        BY <1>2, InstFields DEF Shape
      <3>2. pc' # "dead" => Above(ni.map', ni.top')
        BY <1>2, <1>3, <2>3 DEF Placement
      <3> QED
        BY <1>2, <2>0, <2>3, <3>1, <3>2 DEF Stored
    <2> QED
      BY <1>2, <1>3, <2>1, <2>2, <2>3
  <1> QED
    BY <1>1, <1>2, <1>3 DEF BootInv

\* A request begins.
LEMMA BootRequest ==
    ASSUME BootInv, Requests, ~Unmaps
    PROVE  BootInv'
  <1>1. PICK op \in Operations, lb \in Logical : Begin(op, lb) \/ BeginMark(op, lb)
    BY DEF Requests, Unmaps
  <1>2. Shape' /\ (Layout => Layout')
    BY <1>1, BeginKeeps DEF BootInv, KeepsLayout
  <1>3. /\ pc = "idle" /\ pc' \in {"request", "map"} /\ UNCHANGED <<ni, faults, saved>>
    BY <1>1 DEF Begin, BeginMark, NewRequest, seen
  <1>4. Stored => Stored'
    BY <1>3 DEF Stored
  <1> QED
    BY <1>2, <1>3, <1>4 DEF BootInv, Layout

\* The table of a chip as it comes from production.
OwnMap == [lb \in Logical |-> lb]
FirstTable(bad) ==
    [kind |-> "table", count |-> IF bad = {} THEN 0 ELSE 1, bad |-> bad, map |-> OwnMap]

\* What such a chip holds.
LEMMA PreparedChip ==
    ASSUME NEW bad, Prepared(bad)
    PROVE  flash \in [Blocks -> {Signature, Empty, FirstTable(bad)}]
  <1>1. flash = [b \in Blocks |-> flash[b]]
    BY Zenon DEF Prepared
  <1>2. \A b \in Blocks : flash[b] \in {Signature, Empty, FirstTable(bad)}
    BY Zenon DEF Prepared, FirstTable, OwnMap
  <1> QED
    BY <1>1, <1>2

\* Its tables map every block to itself.
LEMMA PreparedTables ==
    ASSUME NEW bad, Prepared(bad), NEW b \in Blocks
    PROVE  OwnTable(flash[b])
  <1>1. flash[b] \in {Signature, Empty, FirstTable(bad)}
    BY PreparedChip
  <1>2. Signature \notin Table /\ Empty \notin Table
    BY DEF Signature, Empty, Table
  <1>3. FirstTable(bad).map = OwnMap
    BY DEF FirstTable
  <1>4. Distinct(OwnMap) /\ OwnPlace(OwnMap)
    BY DEF Distinct, OwnPlace, OwnMap
  <1> QED
    BY <1>1, <1>2, <1>3, <1>4 DEF OwnTable

\* The chip before the first boot.
LEMMA BootInitially ==
    ASSUME Init
    PROVE  BootInv
  <1>1. PICK s \in Scenarios :
            /\ Prepared(s.bad) \/ flash = [b \in Blocks |-> Empty]
            /\ saved = IF s.prepared THEN {[lb \in Logical |-> lb]} ELSE {}
            /\ pc = "off"
    BY DEF Init
  <1>2. Empty \notin Table
    BY DEF Empty, Table
  <1>3. ASSUME NEW b \in Blocks PROVE OwnTable(flash[b])
    BY <1>1, <1>2, PreparedTables DEF OwnTable
  <1>4. ASSUME NEW m \in saved PROVE m \in IntMap /\ OwnPlace(m)
    BY <1>1, <1>4, GeometryAssumption DEF IntMap, Places, OwnPlace, Logical
  <1>5. Placement /\ Stored
    <2>1. NoSharing
      BY FreshDistinct DEF Init, NoSharing, Distinct
    <2> QED
      BY <1>1, <1>4, <2>1, OwnIsAbove DEF Placement, Stored
  <1> QED
    BY <1>3, <1>5, ShapeInitially DEF BootInv

\* Every step of the first boot.
LEMMA BootStep ==
    ASSUME BootInv, [Next]_vars, ~PowerCut, ~Unmaps
    PROVE  BootInv'
  <1>1. CASE UNCHANGED vars
    BY <1>1 DEF BootInv, Shape, Placement, NoSharing, Stored, vars, chip, seen
  <1> QED
    BY <1>1, BootDriver, BootAttach, BootRequest DEF Next

\* A table being written or erased lies below the pool's top.
LEMMA TableInRange ==
    ASSUME Shape, Placement, pc \in {"write", "erase"}, wr.ba < wr.lim
    PROVE  MgmtStart <= wr.ba /\ wr.ba < ni.top /\ ni.top < ni.sig
  <1>1. TablesBelowPool(ni)
    BY WhileWriting
  <1>2. CASE pc = "erase"
    <2>1. MgmtStart <= wr.ba /\ wr.lim <= ni.top
      BY <1>2, WhileWriting DEF EraseRange
    <2> QED
      BY <1>1, <2>1, ShapeFields DEF TablesBelowPool
  <1>3. CASE pc = "write"
    <2>1. MgmtStart <= wr.ba /\ wr.for # "none" /\ WriteRange(ni, wr)
      BY <1>3, WhileWriting DEF WriteRange
    <2>2. wr.for \in Writes
      BY <2>1, ShapeFields DEF Extent
    <2>3. \/ wr.lim = ni.top
          \/ ni.main # 0 /\ wr.lim = ni.main
          \/ ni.backup # 0 /\ wr.lim = ni.backup
          \/ ni.next = wr.tmp + 1 /\ wr.lim = wr.tmp
      BY <2>1, <2>2 DEF WriteRange, Writes
    <2>4. MgmtStart <= wr.ba /\ wr.lim <= ni.top
      <3>1. CASE wr.lim = ni.top
        BY <2>1, <3>1, ShapeFields
      <3>2. CASE ni.main # 0 /\ wr.lim = ni.main
        BY <1>1, <2>1, <3>2, ShapeFields DEF TablesBelowPool
      <3>3. CASE ni.backup # 0 /\ wr.lim = ni.backup
        BY <1>1, <2>1, <3>3, ShapeFields DEF TablesBelowPool
      <3>4. CASE ni.next = wr.tmp + 1 /\ wr.lim = wr.tmp
        BY <1>1, <2>1, <3>4, ShapeFields DEF TablesBelowPool
      <3> QED
        BY <2>3, <3>1, <3>2, <3>3, <3>4
    <2> QED
      BY <1>1, <2>4, ShapeFields DEF TablesBelowPool
  <1> QED
    BY <1>2, <1>3

\* A block between the management blocks' start and top holds no data.
LEMMA AboveMisses ==
    ASSUME NEW m \in IntMap, NEW top \in Int, Above(m, top), NEW b \in Int,
           MgmtStart <= b, b < top, NEW lb \in Logical
    PROVE  b # m[lb]
  <1>1. m[lb] \in Int
    BY DEF IntMap, Places, Unmapped
  <1>2. m[lb] \in Logical \cup {Unmapped} \/ top < m[lb]
    BY DEF Above
  <1> QED
    BY <1>1, <1>2, GeometryAssumption DEF Logical, Unmapped

\* What the invariant implies.
LEMMA BootSafe ==
    ASSUME BootInv
    PROVE  NoSharingUnlessHole /\ TablesMissData /\ Layout
  <1>1. CASE "hole" \in faults
    BY <1>1 DEF NoSharingUnlessHole, TablesMissData, Layout
  <1>2. CASE "hole" \notin faults
    <2>1. Shape /\ Placement /\ Stored
      BY <1>2 DEF BootInv
    <2>2. TablesMissData
      <3> SUFFICES ASSUME pc \in {"write", "erase"}, Usable
                   PROVE  /\ \A lb \in Logical :
                                wr.ba # ni.map[lb] /\ \A m \in saved : wr.ba # m[lb]
                          /\ wr.ba # ni.sig
        BY DEF TablesMissData
      <3>1. MgmtStart <= wr.ba /\ wr.ba < ni.top /\ ni.top < ni.sig
        BY <2>1, TableInRange DEF Usable
      <3>2. /\ ni.map \in IntMap /\ ni.top \in Int /\ wr.ba \in Int /\ ni.sig \in Int
        BY <2>1, ShapeFields, InstFields
      <3>3. Above(ni.map, ni.top)
        BY <2>1 DEF Placement
      <3>4. \A m \in saved : m \in IntMap /\ Above(m, ni.top)
        BY <2>1 DEF Stored
      <3>5. wr.ba # ni.sig
        BY <3>1, <3>2
      <3> QED
        BY <3>1, <3>2, <3>3, <3>4, <3>5, AboveMisses
    <2>3. NoSharing
      BY <2>1 DEF Placement
    <2> QED
      BY <2>1, <2>2, <2>3 DEF NoSharingUnlessHole, Layout
  <1> QED
    BY <1>1, <1>2

\* Until the power is cut for the first time, and while nobody writes to the debugfs
\* files mark_good and repair.
OneBoot == [][~PowerCut /\ ~Unmaps]_vars

\* No step but attaching and the debugfs files mark_good and repair disturbs the
\* layout: not the functions that write tables, whatever operation of the chip fails
\* (mtk_bmt_nmbm.c, nmbm_update_info_table and what it calls), not the mapping of a
\* block to a replacement (nmbm_map_block), no request and no power cut.
LayoutKept == [][Layout /\ ~Attach /\ ~Unmaps => Layout']_vars

\* LayoutKept holds in every behaviour, through power cuts and attaching as well.
THEOREM DriverKeepsLayout == Spec => LayoutKept
  <1>1. Init => Shape
    BY ShapeInitially
  <1>2. Shape /\ [Next]_vars => Shape'
    BY ShapeStep
  <1>3. Shape /\ [Next]_vars => [Layout /\ ~Attach /\ ~Unmaps => Layout']_vars
    BY LayoutStep
  <1> QED
    BY <1>1, <1>2, <1>3, PTL DEF Spec, LayoutKept

\* The invariant holds until the power is cut.
LEMMA BootInvariant == Spec /\ OneBoot => []BootInv
  <1>1. Init => BootInv
    BY BootInitially
  <1>2. BootInv /\ [Next]_vars /\ [~PowerCut /\ ~Unmaps]_vars => BootInv'
    <2> SUFFICES ASSUME BootInv, [Next]_vars, [~PowerCut /\ ~Unmaps]_vars
                 PROVE  BootInv'
      OBVIOUS
    <2>1. CASE UNCHANGED vars
      BY <2>1 DEF BootInv, Shape, Placement, NoSharing, Stored, vars, chip, seen
    <2>2. CASE ~PowerCut /\ ~Unmaps
      BY <2>2, BootStep
    <2> QED
      BY <2>1, <2>2
  <1> QED
    BY <1>1, <1>2, PTL DEF Spec, OneBoot

\* nmbm_map_block, "Map a bad block to a unused spare block": no two logical blocks
\* share a physical one, unless a walk down the pool has skipped a bad block.
THEOREM BlocksNotShared == Spec /\ OneBoot => []NoSharingUnlessHole
  <1>1. BootInv => NoSharingUnlessHole
    BY BootSafe
  <1> QED
    BY <1>1, BootInvariant, PTL

\* No table is written to, and no spare block erased in, a block that holds data by
\* the mapping in memory or by the stored one, nor in the signature block.
THEOREM TablesMissTheData == Spec /\ OneBoot => []TablesMissData
  <1>1. BootInv => TablesMissData
    BY BootSafe
  <1> QED
    BY <1>1, BootInvariant, PTL

\* The order of tables, pool, replacements and signature on the chip.
THEOREM LayoutHolds == Spec /\ OneBoot => []Layout
  <1>1. BootInv => Layout
    BY BootSafe
  <1> QED
    BY <1>1, BootInvariant, PTL

-----------------------------------------------------------------------------
(* The data of one boot *)

TableStates == {"write", "written", "full", "erase", "update"}

\* A request is served, or the update behind its remap, after which it is tried again.
Served ==
    \/ pc \in {"request", "map", "copy"}
    \/ pc \in TableStates /\ req.update = "remap"

\* The block with the data of lb: the replacement is mapped before it is written.
Where(lb) == IF pc = "copy" /\ lb = req.lb THEN req.old ELSE ni.map[lb]

Holds(b, lb) == \E p \in acked[lb] .. Pages : flash[b] = Data(lb, p)

Mapped(n) == \A lb \in Logical : lb < n.size => n.map[lb] \in Blocks

Held ==
    \A lb \in Logical : acked[lb] # 0 =>
        lb < ni.size /\ (lb \notin lost => Holds(Where(lb), lb))

\* What the steps of a request rely on.
RequestKept ==
    /\ req.lb < ni.size
    /\ req.op = "erase" => acked[req.lb] = 0
    /\ req.op = "write" =>
          /\ acked[req.lb] < Pages
          /\ req.lb \notin lost => flash[Where(req.lb)] = Page(req.lb, acked[req.lb])
    /\ req.op = "read" /\ pc \in {"map", "copy"} => req.lb \in lost

DataInPlace ==
    /\ flash = [b \in Blocks |-> flash[b]] /\ acked \in [Logical -> Nat]
    /\ pc # "repair" /\ req.update # "unmap"
    /\ pc \in {"off", "signature"} => \A lb \in Logical : acked[lb] = 0
    /\ pc = "off" => \A b \in Blocks, lb \in Logical :
                        flash[b] \in Table => flash[b].map[lb] \in Logical
    /\ pc \notin {"off", "dead"} => Mapped(ni) /\ Held
    /\ Served => RequestKept
    /\ pc = "map" => req.old = ni.map[req.lb]

\* A step that leaves the data, the mapping and the request alone.
LEMMA DataUntouched ==
    ASSUME DataInPlace, UNCHANGED <<flash, acked, lost>>,
           ni.map' = ni.map, ni.size' = ni.size,
           pc \notin {"off", "dead", "signature", "copy"},
           pc' \notin {"off", "signature", "copy", "map", "repair"},
           req'.update # "unmap",
           Served' => Served /\ req'.op = req.op /\ req'.lb = req.lb
    PROVE  DataInPlace'
  <1>1. \A lb \in Logical : Where(lb)' = Where(lb) /\ Where(lb) = ni.map[lb]
    BY DEF Where
  <1>2. Mapped(ni) /\ Held
    BY DEF DataInPlace
  <1>3. Mapped(ni)'
    BY <1>2 DEF Mapped
  <1>4. Held'
    BY <1>1, <1>2 DEF Held, Holds
  <1>5. Served' => RequestKept'
    BY DEF DataInPlace, RequestKept, Where
  <1> QED
    BY <1>3, <1>4, <1>5 DEF DataInPlace

\* Where the functions that write tables return to.
Returned ==
    \/ pc' \in {"idle", "dead", "mark", "fill"} /\ req' = req
    \/ /\ pc' \in TableStates /\ req'.op = req.op /\ req'.lb = req.lb
       /\ req'.update \in {req.update, "create"}
    \/ /\ pc' = "request" /\ req.update = "remap"
       /\ req'.op = req.op /\ req'.lb = req.lb /\ req'.update = "remap"

\* nmbm_update_info_table returns.
LEMMA UpdateReturned ==
    ASSUME req \in Request, NEW n, NEW ok, UpdateReturn(n, ok), req.update # "unmap"
    PROVE  Returned
  <1>1. ASSUME NEW r, MapFailed(r) PROVE Returned
    <2>1. /\ [req EXCEPT !.update = "create"].op = req.op
          /\ [req EXCEPT !.update = "create"].lb = req.lb
          /\ [req EXCEPT !.update = "create"].update = "create"
      BY DEF Request
    <2> QED
      BY <1>1, <2>1 DEF MapFailed, Returned, TableStates
  <1>2. ASSUME RemapReturns, req.update = "remap" PROVE Returned
    <2> DEFINE t == req.tries + 1
               again == [req EXCEPT !.tries = t]
    <2>1. again.op = req.op /\ again.lb = req.lb /\ again.update = req.update
      <3> HIDE DEF t
      <3> QED
        BY DEF Request
    <2>2. \/ pc' = "request" /\ req' = again
          \/ pc' \in {"mark", "idle"} /\ req' = req
      BY <1>2 DEF RemapReturns
    <2> HIDE DEF again
    <2> QED
      BY <1>2, <2>1, <2>2 DEF Returned
  <1> QED
    BY <1>1, <1>2 DEF UpdateReturn, Returned

\* A function that writes tables returns.
LEMMA TableReturned ==
    ASSUME req \in Request, NEW n, NEW ok, TableReturn(n, ok), req.update # "unmap"
    PROVE  Returned
  BY UpdateReturned DEF TableReturn, Returned, TableStates

\* A function that writes tables touches neither the data nor the request.
LEMMA TableStepsReturn ==
    ASSUME req \in Request, TableSteps, req.update # "unmap"
    PROVE  Returned /\ pc \in TableStates /\ UNCHANGED <<flash, acked, lost, faults>>
  <1>1. ASSUME NEW n, NEW ok, Return(n, ok)
        PROVE  Returned /\ UNCHANGED <<flash, acked, lost, faults>>
    BY <1>1, TableReturned DEF Return, Memory, chip
  <1>2. ASSUME pc' \in TableStates, Going
        PROVE  Returned /\ UNCHANGED <<flash, acked, lost, faults>>
    BY <1>2 DEF Returned, Going, Memory, chip
  <1>3. ASSUME NEW n, NEW lim, WriteMain(n, lim) PROVE pc' \in TableStates
    BY <1>3 DEF WriteMain, nmbm_rebuild_info_table, StartWrite, TableStates
  <1>4. CASE RebuildMainWritten \/ RebuildMainFull \/ RebuildBackupWritten \/ RebuildBackupFull
    BY <1>1, <1>2, <1>4 DEF RebuildMainWritten, RebuildMainFull, RebuildBackupWritten,
       RebuildBackupFull, Written, Full, StartWrite, StartErase, TableStates
  <1>5. CASE \/ RescueFrontWritten \/ RescueFrontFull \/ RescueNextWritten
             \/ RescueNextEarlier \/ RescueNextFull \/ TemporaryEarlier
    BY <1>1, <1>2, <1>5 DEF RescueFrontWritten, RescueFrontFull, RescueNextWritten,
       RescueNextEarlier, RescueNextFull, TemporaryEarlier, Earlier, Written, Full,
       StartWrite, StartErase, TableStates
  <1>6. CASE SingleMainWritten \/ SingleMainFull \/ SingleBackupWritten \/ SingleBackupFull
    BY <1>1, <1>2, <1>6 DEF SingleMainWritten, SingleMainFull, SingleBackupWritten,
       SingleBackupFull, Written, Full, StartWrite, nmbm_rescue_single_info_table, TableStates
  <1>7. CASE OnceBackupWritten \/ OnceBackupFull \/ OnceMainWritten \/ OnceMainFull
    BY <1>1, <1>2, <1>3, <1>7 DEF OnceBackupWritten, OnceBackupFull, OnceMainWritten,
       OnceMainFull, Written, Full, StartWrite, nmbm_rebuild_info_table, TableStates
  <1>8. CASE TemporaryFull \/ TemporaryWritten \/ MainAgainWritten \/ MainAgainFull
    BY <1>1, <1>2, <1>8 DEF TemporaryFull, TemporaryWritten, MainAgainWritten, MainAgainFull,
       Written, Full, TableStates
  <1>9. CASE EraseEnds \/ UpdateEnds
    BY <1>1, <1>9, UpdateReturned DEF EraseEnds, UpdateEnds, Memory, chip, TableStates
  <1>10. CASE UpdateOnce
    <2>1. /\ pc = "update" /\ pc' \in TableStates /\ req' = [req EXCEPT !.table = "update"]
          /\ UNCHANGED <<flash, acked, lost, faults>>
      BY <1>3, <1>10 DEF UpdateOnce, nmbm_update_info_table_once, StartWrite, Memory, chip,
         TableStates
    <2>2. req'.op = req.op /\ req'.lb = req.lb /\ req'.update = req.update
      BY <2>1 DEF Request
    <2> QED
      BY <2>1, <2>2 DEF Returned, TableStates
  <1> QED
    BY <1>4, <1>5, <1>6, <1>7, <1>8, <1>9, <1>10 DEF TableSteps

\* So it keeps the data in place.
LEMMA TableStepsKeepData ==
    ASSUME Shape, DataInPlace, TableSteps
    PROVE  DataInPlace'
  <1>1. req.update # "unmap" /\ req \in Request
    BY ShapeFields DEF DataInPlace
  <1>2. Returned /\ pc \in TableStates /\ UNCHANGED <<flash, acked, lost>>
    BY <1>1, TableStepsReturn
  <1>3. ni.map' = ni.map /\ ni.size' = ni.size
    BY TableStepsKeep DEF Keeps
  <1>4. /\ pc \notin {"off", "dead", "signature", "copy"}
        /\ pc' \notin {"off", "signature", "copy", "map", "repair"}
        /\ req'.update # "unmap"
        /\ Served' => Served /\ req'.op = req.op /\ req'.lb = req.lb
    BY <1>1, <1>2 DEF Returned, TableStates, Served
  <1> QED
    BY <1>2, <1>3, <1>4, DataUntouched

\* A block that holds no data is written or erased.
LEMMA DataElsewhere ==
    ASSUME DataInPlace, NEW b, NEW c, flash' = [flash EXCEPT ![b] = c],
           \A lb \in Logical : b # ni.map[lb],
           UNCHANGED <<acked, lost>>, ni.map' = ni.map, ni.size' = ni.size, req' = req,
           req.lb \in Logical, pc \in TableStates, pc' \in TableStates
    PROVE  DataInPlace'
  <1>1. /\ pc # "copy" /\ pc' # "copy" /\ pc \notin {"off", "dead", "signature"}
        /\ pc' \notin {"off", "signature", "map", "repair"} /\ Served' = Served
    BY DEF TableStates, Served
  <1>2. Mapped(ni) /\ Held /\ flash = [x \in Blocks |-> flash[x]] /\ acked \in [Logical -> Nat]
    BY <1>1 DEF DataInPlace
  <1>3. flash' = [x \in Blocks |-> flash'[x]]
    BY <1>2
  <1>4. \A lb \in Logical : Where(lb)' = ni.map[lb] /\ Where(lb) = ni.map[lb]
    BY <1>1 DEF Where
  <1>5. \A lb \in Logical : lb < ni.size => flash'[ni.map[lb]] = flash[ni.map[lb]]
    BY <1>2 DEF Mapped
  <1>6. Mapped(ni)'
    BY <1>2 DEF Mapped
  <1>7. Held'
    BY <1>2, <1>4, <1>5 DEF Held, Holds
  <1>8. ASSUME Served' PROVE RequestKept'
    <2>1. RequestKept
      BY <1>1, <1>8 DEF DataInPlace
    <2>2. flash'[Where(req.lb)'] = flash[Where(req.lb)]
      BY <1>4, <1>5, <2>1 DEF RequestKept
    <2> QED
      BY <1>1, <1>4, <2>1, <2>2 DEF RequestKept
  <1> QED
    BY <1>1, <1>2, <1>3, <1>6, <1>7, <1>8 DEF DataInPlace

\* The operations on the blocks of the tables.
LEMMA WriteStepsKeepData ==
    ASSUME Shape, TablesMissData, "hole" \notin faults, DataInPlace,
           \/ WriteSkips \/ WriteSucceeds \/ WriteFails \/ WriteRunsOut
           \/ EraseSkips \/ EraseSucceeds \/ EraseFails
    PROVE  DataInPlace'
  <1>1. ni.map' = ni.map /\ ni.size' = ni.size
    BY ChipStepsKeep DEF ChipSteps, Keeps
  <1>2. req.lb \in Logical /\ req.update # "unmap"
    BY RequestFields DEF DataInPlace
  <1>3. CASE WriteSkips \/ EraseSkips \/ WriteRunsOut
    <2>1. /\ UNCHANGED <<flash, acked, lost, req>> /\ pc \in TableStates
          /\ pc' \in TableStates
      BY <1>3 DEF WriteSkips, EraseSkips, WriteRunsOut, Skip, chip, seen, TableStates
    <2>2. /\ pc \notin {"off", "dead", "signature", "copy"}
          /\ pc' \notin {"off", "signature", "copy", "map", "repair"}
          /\ Served' => Served
      BY <2>1 DEF TableStates, Served
    <2> QED
      BY <1>1, <1>2, <2>1, <2>2, DataUntouched
  <1>4. CASE WriteSucceeds \/ WriteFails \/ EraseSucceeds \/ EraseFails
    <2>1. PICK c : /\ flash' = [flash EXCEPT ![wr.ba] = c] /\ UNCHANGED <<acked, lost, req>>
                   /\ pc \in {"write", "erase"} /\ pc' \in TableStates /\ Usable
      BY <1>4 DEF WriteSucceeds, WriteFails, EraseSucceeds, EraseFails, BlockFails, seen,
         TableStates
    <2>2. \A lb \in Logical : wr.ba # ni.map[lb]
      BY <2>1 DEF TablesMissData
    <2>3. pc \in TableStates
      BY <2>1 DEF TableStates
    <2> QED
      BY <1>1, <1>2, <2>1, <2>2, <2>3, DataElsewhere
  <1> QED
    BY <1>3, <1>4

\* nmbm_write_signature: nothing has been written yet.
LEMMA SignatureStepsKeepData ==
    ASSUME Shape, DataInPlace, SignatureSucceeds \/ SignatureFails \/ SignatureRunsOut
    PROVE  DataInPlace'
  <1>1. ni.map' = ni.map /\ ni.size' = ni.size
    BY ChipStepsKeep DEF ChipSteps, Keeps
  <1>2. /\ pc = "signature" /\ pc' \in {"signature", "dead", "write"}
        /\ UNCHANGED <<acked, lost>>
        /\ \/ flash' = flash
           \/ \E c : flash' = [flash EXCEPT ![wr.ba] = c]
        /\ req' = req \/ req' = [NoReq EXCEPT !.table = "create"]
        /\ pc' = "write" => req' = [NoReq EXCEPT !.table = "create"]
    BY DEF SignatureSucceeds, SignatureFails, SignatureRunsOut, BlockFails, chip, seen,
       nmbm_create_info_table, nmbm_rebuild_info_table, StartWrite
  <1>3. [NoReq EXCEPT !.table = "create"].update = "none"
    BY DEF NoReq
  <1>4. req'.update # "unmap" /\ ~Served'
    BY <1>2, <1>3 DEF DataInPlace, Served, TableStates
  <1>5. flash' = [x \in Blocks |-> flash'[x]]
    BY <1>2 DEF DataInPlace
  <1>6. Mapped(ni)' /\ acked' \in [Logical -> Nat] /\ \A lb \in Logical : acked'[lb] = 0
    BY <1>1, <1>2 DEF DataInPlace, Mapped
  <1>7. Held'
    BY <1>6 DEF Held
  <1> QED
    BY <1>2, <1>4, <1>5, <1>6, <1>7 DEF DataInPlace

\* A step of a request on its own block leaves the others alone.
LEMMA OthersUntouched ==
    ASSUME DataInPlace, NoSharing, pc \in {"copy", "request"}, req.lb \in Logical, NEW c,
           flash' = [flash EXCEPT ![ni.map[req.lb]] = c]
    PROVE  /\ flash' = [x \in Blocks |-> flash'[x]] /\ flash'[ni.map[req.lb]] = c
           /\ \A lb \in Logical : lb # req.lb /\ lb < ni.size =>
                 flash'[ni.map[lb]] = flash[ni.map[lb]]
  <1>1. /\ flash = [x \in Blocks |-> flash[x]] /\ Mapped(ni) /\ req.lb < ni.size
    BY DEF DataInPlace, Served, RequestKept
  <1>2. \A lb \in Logical : lb < ni.size => ni.map[lb] \in Blocks
    BY <1>1 DEF Mapped
  <1>3. \A b \in Blocks : b # Unmapped
    BY DEF Blocks, Unmapped
  <1>4. \A lb \in Logical : lb # req.lb /\ lb < ni.size => ni.map[lb] # ni.map[req.lb]
    BY <1>2, <1>3 DEF NoSharing
  <1> QED
    BY <1>1, <1>2, <1>4

\* It is then enough to look at the block of the request.
LEMMA RequestStep ==
    ASSUME DataInPlace, pc \in {"copy", "request"}, pc' \in {"update", "idle", "map"},
           req.lb \in Logical, req'.lb = req.lb, req'.update # "unmap",
           ni.map' = ni.map, ni.size' = ni.size,
           flash' = [x \in Blocks |-> flash'[x]], acked' \in [Logical -> Nat],
           \A lb \in Logical : lb # req.lb =>
              /\ acked'[lb] = acked[lb] /\ (lb \in lost => lb \in lost')
              /\ lb < ni.size => flash'[ni.map[lb]] = flash[ni.map[lb]],
           acked'[req.lb] # 0 /\ req.lb \notin lost' => Holds(ni.map[req.lb], req.lb)',
           Served' => RequestKept', pc' = "map" => req'.old = ni.map[req.lb]
    PROVE  DataInPlace'
  <1>1. Mapped(ni) /\ Held /\ req.lb < ni.size
    BY DEF DataInPlace, Served, RequestKept
  <1>2. Mapped(ni)'
    BY <1>1 DEF Mapped
  <1>3. Held'
    <2> SUFFICES ASSUME NEW lb \in Logical, acked'[lb] # 0
                 PROVE  lb < ni.size /\ (lb \notin lost' => Holds(Where(lb), lb)')
      BY DEF Held
    <2>1. Where(lb)' = ni.map[lb]
      BY DEF Where
    <2>2. CASE lb = req.lb
      BY <1>1, <2>1, <2>2 DEF Holds
    <2>3. CASE lb # req.lb
      <3>1. Where(lb) = ni.map[lb]
        BY <2>3 DEF Where
      <3>2. lb < ni.size /\ (lb \notin lost' => Holds(ni.map[lb], lb))
        BY <1>1, <2>3, <3>1 DEF Held
      <3>3. acked'[lb] = acked[lb] /\ flash'[ni.map[lb]] = flash[ni.map[lb]]
        BY <2>3, <3>2
      <3> QED
        BY <2>1, <3>2, <3>3 DEF Holds
    <2> QED
      BY <2>2, <2>3
  <1> QED
    BY <1>2, <1>3 DEF DataInPlace

\* The content of a block with data.
LEMMA DataFields ==
    ASSUME NEW lb, NEW n
    PROVE  Data(lb, n).kind = "data" /\ Data(lb, n).lb = lb /\ Data(lb, n).pages = n
  BY DEF Data

\* A copy holds what the block held, unless a page could not be read.
LEMMA CopiedData ==
    ASSUME NEW lb, NEW p \in Nat, NEW n \in Nat, p # 0, p <= n, req.op # "read",
           NEW c \in Copied(Data(lb, p), n)
    PROVE  c = Data(lb, p)
  <1> DEFINE src == Data(lb, p)
             most == IF src.pages < n THEN src.pages ELSE n
             some == IF req.op = "read" THEN 0 .. most - 1 ELSE {most}
  <1>1. src.kind = "data" /\ src.lb = lb /\ src.pages = p
    BY DataFields
  <1>2. n # 0
    OBVIOUS
  <1>3. most = p
    <2> HIDE DEF src
    <2> QED
      BY <1>1
  <1>4. some = {p}
    <2> HIDE DEF most
    <2> QED
      BY <1>3
  <1>5. c \in {IF q = 0 THEN Empty ELSE Data(src.lb, q) : q \in some}
    <2>1. src.kind # "torn" /\ src.kind = "data"
      BY <1>1
    <2> HIDE DEF src
    <2> QED
      BY <1>2, <2>1, Zenon DEF Copied, src
  <1> HIDE DEF src, some
  <1> QED
    BY <1>1, <1>4, <1>5

\* A copy of no page is an empty block.
LEMMA CopiedNothing ==
    ASSUME NEW src, NEW c \in Copied(src, 0)
    PROVE  c = Empty
  BY DEF Copied

\* remap_block_nmbm copies the pages to the replacement, which takes the old place.
LEMMA CopySucceedsKeepsData ==
    ASSUME Shape, NoSharing, DataInPlace, CopySucceeds
    PROVE  DataInPlace'
  <1> DEFINE k == req.lb
             b == ni.map[k]
  <1>1. PICK c \in Copied(flash[req.old], CopyLen) : flash' = [flash EXCEPT ![b] = c]
    BY DEF CopySucceeds
  <1>2. /\ pc = "copy" /\ pc' = "update" /\ UNCHANGED <<ni, acked, lost>>
        /\ req' = [req EXCEPT !.update = "remap"]
    BY DEF CopySucceeds, Updating, seen
  <1>3. /\ req'.lb = k /\ req'.op = req.op /\ req'.update = "remap" /\ k \in Logical
    BY <1>2, ShapeFields, RequestFields DEF Request
  <1>4. /\ flash' = [x \in Blocks |-> flash'[x]] /\ flash'[b] = c
        /\ \A lb \in Logical : lb # k /\ lb < ni.size =>
              flash'[ni.map[lb]] = flash[ni.map[lb]]
    BY <1>1, <1>2, <1>3, OthersUntouched
  <1>5. RequestKept /\ Held /\ acked \in [Logical -> Nat] /\ Where(k) = req.old
    BY <1>2 DEF DataInPlace, Served, Where
  <1>6. ASSUME acked[k] # 0, k \notin lost
        PROVE  /\ \E p \in acked[k] .. Pages : c = Data(k, p)
               /\ req.op = "write" => c = Data(k, acked[k])
    <2>1. PICK p \in acked[k] .. Pages : flash[req.old] = Data(k, p)
      BY <1>3, <1>5, <1>6 DEF Held, Holds
    <2>2. acked[k] \in Nat /\ p \in Nat /\ p # 0 /\ p <= Pages /\ Pages \in Nat
          /\ acked[k] <= acked[k] /\ acked[k] \in acked[k] .. Pages
      BY <1>3, <1>5, <1>6, <2>1, PagesAssumption
    <2>3. req.op # "erase" /\ req.op # "read"
      BY <1>2, <1>5, <1>6 DEF RequestKept
    <2>4. CASE req.op = "write"
      <3>1. flash[req.old] = Data(k, acked[k])
        BY <1>5, <1>6, <2>4 DEF RequestKept, Page
      <3>2. CopyLen = acked[k]
        BY <2>4 DEF CopyLen
      <3>3. c = Data(k, acked[k])
        BY <1>1, <1>6, <2>2, <2>3, <3>1, <3>2, CopiedData
      <3> QED
        BY <2>2, <3>3
    <2>5. CASE req.op # "write"
      <3>1. CopyLen = Pages
        BY <2>3, <2>5 DEF CopyLen
      <3>2. c = Data(k, p)
        BY <1>1, <2>1, <2>2, <2>3, <3>1, CopiedData
      <3> QED
        BY <2>5, <3>2
    <2> QED
      BY <2>4, <2>5
  <1>7. acked'[k] # 0 /\ k \notin lost' => Holds(b, k)'
    BY <1>2, <1>4, <1>6 DEF Holds
  <1>8. RequestKept'
    <2>1. Where(req.lb)' = b
      BY <1>2, <1>3 DEF Where
    <2>2. ASSUME req.op = "write", k \notin lost PROVE c = Page(k, acked[k])
      <3>1. CASE acked[k] = 0
        <4>1. CopyLen = 0
          BY <2>2, <3>1 DEF CopyLen
        <4> QED
          BY <1>1, <3>1, <4>1, CopiedNothing DEF Page
      <3>2. CASE acked[k] # 0
        BY <1>6, <2>2, <3>2 DEF Page
      <3> QED
        BY <3>1, <3>2
    <2> QED
      BY <1>2, <1>3, <1>4, <1>5, <2>1, <2>2 DEF RequestKept
  <1> HIDE DEF k, b
  <1> QED
    BY <1>2, <1>3, <1>4, <1>5, <1>7, <1>8, RequestStep DEF k, b

\* The copy fails: the data are lost, unless the block was to be erased.
LEMMA CopyFailsKeepsData ==
    ASSUME Shape, NoSharing, DataInPlace, CopyFails
    PROVE  DataInPlace'
  <1> DEFINE k == req.lb
             b == ni.map[k]
  <1>1. /\ pc = "copy" /\ pc' = "update" /\ UNCHANGED <<ni, acked>>
        /\ req' = [req EXCEPT !.update = "remap"]
        /\ flash' = [flash EXCEPT ![b] = Torn]
        /\ lost' = IF req.op = "erase" THEN lost ELSE lost \cup {k}
    BY DEF CopyFails, Updating
  <1>2. /\ req'.lb = k /\ req'.op = req.op /\ req'.update = "remap" /\ k \in Logical
    BY <1>1, ShapeFields, RequestFields DEF Request
  <1>3. /\ flash' = [x \in Blocks |-> flash'[x]] /\ flash'[b] = Torn
        /\ \A lb \in Logical : lb # k /\ lb < ni.size =>
              flash'[ni.map[lb]] = flash[ni.map[lb]]
    BY <1>1, <1>2, OthersUntouched
  <1>4. RequestKept /\ acked \in [Logical -> Nat]
    BY <1>1 DEF DataInPlace, Served
  <1>5. acked[k] # 0 => k \in lost'
    BY <1>1, <1>4 DEF RequestKept
  <1>6. RequestKept'
    BY <1>1, <1>2, <1>4 DEF RequestKept
  <1> HIDE DEF k, b
  <1> QED
    BY <1>1, <1>2, <1>3, <1>4, <1>5, <1>6, RequestStep DEF k, b

\* A page is written behind the others, a block is erased or read.
LEMMA RequestSucceedsKeepsData ==
    ASSUME Shape, NoSharing, DataInPlace, RequestSucceeds
    PROVE  DataInPlace'
  <1> DEFINE k == req.lb
             b == ni.map[k]
             q == acked[k] + 1
  <1>1. /\ pc = "request" /\ pc' = "idle" /\ UNCHANGED <<ni, req>> /\ k \in Logical
    BY RequestFields DEF RequestSucceeds
  <1>2. RequestKept /\ Held /\ acked \in [Logical -> Nat] /\ Where(k) = b /\ ~Served'
    BY <1>1 DEF DataInPlace, Served, Where, TableStates
  <1>3. /\ flash = [x \in Blocks |-> flash[x]] /\ req.update # "unmap"
    BY DEF DataInPlace
  <1>4. CASE req.op = "erase"
    <2>1. /\ flash' = [flash EXCEPT ![b] = Empty] /\ UNCHANGED acked /\ lost' = lost \ {k}
      BY <1>4 DEF RequestSucceeds
    <2>2. /\ flash' = [x \in Blocks |-> flash'[x]]
          /\ \A lb \in Logical : lb # k /\ lb < ni.size =>
                flash'[ni.map[lb]] = flash[ni.map[lb]]
      BY <1>1, <2>1, OthersUntouched
    <2>3. acked[k] = 0
      BY <1>2, <1>4 DEF RequestKept
    <2> HIDE DEF k, b, q
    <2> QED
      BY <1>1, <1>2, <1>3, <2>1, <2>2, <2>3, RequestStep DEF k, b
  <1>5. CASE req.op = "write"
    <2>1. /\ flash' = IF flash[b] = Page(k, acked[k])
                      THEN [flash EXCEPT ![b] = Data(k, q)] ELSE flash
          /\ acked' = [acked EXCEPT ![k] = q] /\ UNCHANGED lost
      BY <1>5 DEF RequestSucceeds
    <2>2. q \in Nat /\ q <= Pages /\ q # 0 /\ acked[k] # q /\ q \in q .. Pages
      BY <1>1, <1>2, <1>5, PagesAssumption DEF RequestKept
    <2>3. /\ acked' \in [Logical -> Nat] /\ acked'[k] = q
          /\ \A lb \in Logical : lb # k => acked'[lb] = acked[lb]
      <3> HIDE DEF k, q
      <3> QED
        BY <1>1, <1>2, <2>1, <2>2
    <2>4. CASE flash[b] = Page(k, acked[k])
      <3>1. flash' = [flash EXCEPT ![b] = Data(k, q)]
        BY <2>1, <2>4
      <3>2. /\ flash' = [x \in Blocks |-> flash'[x]] /\ flash'[b] = Data(k, q)
            /\ \A lb \in Logical : lb # k /\ lb < ni.size =>
                  flash'[ni.map[lb]] = flash[ni.map[lb]]
        BY <1>1, <3>1, OthersUntouched
      <3>3. Holds(b, k)'
        BY <1>1, <2>2, <2>3, <3>2 DEF Holds
      <3> HIDE DEF k, b, q
      <3> QED
        BY <1>1, <1>2, <1>3, <2>1, <2>3, <3>2, <3>3, RequestStep DEF k, b
    <2>5. CASE flash[b] # Page(k, acked[k])
      <3>1. flash' = flash /\ k \in lost
        BY <1>2, <1>5, <2>1, <2>5 DEF RequestKept
      <3> HIDE DEF k, b, q
      <3> QED
        BY <1>1, <1>2, <1>3, <2>1, <2>3, <3>1, RequestStep DEF k, b
    <2> QED
      BY <2>4, <2>5
  <1>6. CASE req.op \notin {"erase", "write"}
    <2>1. UNCHANGED <<flash, acked, lost>>
      BY <1>6 DEF RequestSucceeds
    <2>2. acked[k] # 0 /\ k \notin lost => Holds(b, k)'
      BY <1>1, <1>2, <2>1 DEF Held, Holds
    <2> HIDE DEF k, b, q
    <2> QED
      BY <1>1, <1>2, <1>3, <2>1, <2>2, RequestStep DEF k, b
  <1> QED
    BY <1>4, <1>5, <1>6

\* The block of the request is about to be replaced.
LEMMA RequestMapsKeepsData ==
    ASSUME Shape, NoSharing, DataInPlace, ReadFindsBitflips \/ RequestFails \/ BlockIsBad
    PROVE  DataInPlace'
  <1> DEFINE k == req.lb
             b == ni.map[k]
  <1>1. /\ pc = "request" /\ pc' = "map" /\ UNCHANGED <<ni, acked>>
        /\ \E c \in {flash[b]} \cup (IF req.op = "erase" THEN {Torn} ELSE {}) :
              flash' = [flash EXCEPT ![b] = c]
        /\ lost \subseteq lost' /\ lost' \subseteq lost \cup {k}
        /\ \/ req' = [req EXCEPT !.op = "flips", !.old = b] /\ req.op = "read"
           \/ /\ req' = [req EXCEPT !.old = b] /\ (req.op = "read" => k \in lost')
              /\ req.op = "write" => lost' = lost
    <2>1. CASE ReadFindsBitflips \/ BlockIsBad
      <3>1. flash' = flash /\ pc = "request"
        BY <2>1 DEF ReadFindsBitflips, BlockIsBad, chip
      <3>2. flash = [flash EXCEPT ![b] = flash[b]]
        BY DEF DataInPlace
      <3> QED
        BY <2>1, <3>1, <3>2 DEF ReadFindsBitflips, BlockIsBad, seen
    <2>2. CASE RequestFails
      BY <2>2 DEF RequestFails
    <2> QED
      BY <2>1, <2>2
  <1>2. PICK c : /\ flash' = [flash EXCEPT ![b] = c]
                 /\ c = flash[b] \/ req.op = "erase"
    BY <1>1
  <1>3. /\ req'.lb = k /\ req'.update = req.update /\ req'.old = b
        /\ k \in Logical /\ req'.op \in {req.op, "flips"}
        /\ req.op = "read" /\ req'.op = "read" => k \in lost'
    <2> HIDE DEF b, k
    <2>1. req \in Request /\ k \in Logical
      BY ShapeFields, RequestFields DEF k
    <2>2. \/ req' = [req EXCEPT !.op = "flips", !.old = b]
          \/ req' = [req EXCEPT !.old = b] /\ (req.op = "read" => k \in lost')
      BY <1>1
    <2> QED
      BY <2>1, <2>2 DEF Request, k
  <1>4. /\ flash' = [x \in Blocks |-> flash'[x]] /\ flash'[b] = c
        /\ \A lb \in Logical : lb # k /\ lb < ni.size =>
              flash'[ni.map[lb]] = flash[ni.map[lb]]
    BY <1>1, <1>2, <1>3, OthersUntouched
  <1>5. RequestKept /\ Held /\ acked \in [Logical -> Nat] /\ Where(k) = b
    BY <1>1 DEF DataInPlace, Served, Where
  <1>6. acked[k] # 0 /\ k \notin lost' => Holds(b, k)'
    <2>1. acked[k] # 0 => c = flash[b]
      BY <1>2, <1>5 DEF RequestKept
    <2> QED
      BY <1>1, <1>3, <1>4, <1>5, <2>1 DEF Held, Holds
  <1>7. RequestKept'
    <2>1. Where(req.lb)' = b
      BY <1>1, <1>3 DEF Where
    <2>2. req'.op = "write" => req.op = "write" /\ c = flash[b]
      BY <1>2, <1>3
    <2>3. req'.op = "erase" => req.op = "erase"
      BY <1>3
    <2>4. req'.op = "read" => k \in lost'
      BY <1>3
    <2> QED
      BY <1>1, <1>3, <1>4, <1>5, <2>1, <2>2, <2>3, <2>4 DEF RequestKept
  <1>8. req.update # "unmap"
    BY DEF DataInPlace
  <1>9. \A lb \in Logical : lb # k => (lb \in lost => lb \in lost')
    BY <1>1
  <1> HIDE DEF k, b
  <1> QED
    BY <1>1, <1>3, <1>4, <1>5, <1>6, <1>7, <1>8, <1>9, RequestStep DEF k, b

\* The operations on the blocks of the requests.
LEMMA RequestStepsKeepData ==
    ASSUME Shape, NoSharing, DataInPlace,
           \/ CopySucceeds \/ CopyFails \/ Repair \/ RepairFails \/ MarkBad
           \/ RequestSucceeds \/ ReadFindsBitflips \/ RequestFails \/ BlockIsBad
    PROVE  DataInPlace'
  <1>1. ~Repair /\ ~RepairFails
    BY DEF DataInPlace, Repair, RepairFails
  <1>2. CASE MarkBad
    <2>1. /\ pc = "mark" /\ pc' = "idle" /\ UNCHANGED <<flash, acked, lost, ni, req>>
      BY <1>2 DEF MarkBad, seen
    <2>2. req.update # "unmap" /\ ~Served'
      BY <2>1 DEF DataInPlace, Served, TableStates
    <2> QED
      BY <2>1, <2>2, DataUntouched
  <1> QED
    BY <1>1, <1>2, CopySucceedsKeepsData, CopyFailsKeepsData, RequestSucceedsKeepsData,
       RequestMapsKeepsData

\* What MapTo changes.
LEMMA MapToFields ==
    ASSUME NEW n \in Inst, NEW lb, NEW pb
    PROVE  /\ MapTo(n, lb, pb).map = [n.map EXCEPT ![lb] = pb]
           /\ MapTo(n, lb, pb).size = n.size
  <1> DEFINE map == [n.map EXCEPT ![lb] = pb]
             t == n.top - 1
  <1>1. MapTo(n, lb, pb) = [n EXCEPT !.map = map, !.top = t, !.changed = TRUE]
    BY DEF MapTo
  <1>2. /\ [n EXCEPT !.map = map, !.top = t, !.changed = TRUE].map = map
        /\ [n EXCEPT !.map = map, !.top = t, !.changed = TRUE].size = n.size
    <2> HIDE DEF map, t
    <2> QED
      BY DEF Inst
  <1> QED
    BY <1>1, <1>2

\* nmbm_map_block has found no block.
LEMMA MapFailsKeepsData ==
    ASSUME Shape, DataInPlace, pc \in {"fill", "map"}, NEW n, n.map = ni.map,
           n.size = ni.size, MapFails(n), UNCHANGED <<flash, acked, lost>>
    PROVE  DataInPlace'
  <1>1. /\ ni' = n /\ pc' \in {"update", "mark", "idle"}
        /\ \/ pc' # "update" /\ req' = req
           \/ req' = [req EXCEPT !.update = "create"]
           \/ req' = [req EXCEPT !.update = "no spare"]
    BY DEF MapFails, MapFailed
  <1>2. /\ [req EXCEPT !.update = "create"].update = "create"
        /\ [req EXCEPT !.update = "no spare"].update = "no spare"
    BY ShapeFields DEF Request
  <1>3. req'.update # "unmap" /\ ~Served'
    BY <1>1, <1>2 DEF DataInPlace, Served, TableStates
  <1> QED
    BY <1>1, <1>3, DataUntouched

\* A logical block is added; nothing has been written to it.
LEMMA FillKeepsData ==
    ASSUME Shape, DataInPlace, Fill
    PROVE  DataInPlace'
  <1> DEFINE k == ni.size
             z == k + 1
             n == [ni EXCEPT !.size = z]
  <1>1. pc = "fill" /\ UNCHANGED <<flash, acked, lost>>
    BY DEF Fill, chip
  <1>2. CASE MapFails(ni)
    BY <1>1, <1>2, MapFailsKeepsData
  <1>3. CASE \E pb \in Found(ni) : MapSucceeds(n, k, pb) /\ pc' = "fill"
    <2>1. PICK pb \in Found(ni) : MapSucceeds(n, k, pb) /\ pc' = "fill"
      BY <1>3
    <2>2. pb \in Blocks
      BY <2>1 DEF Found, SkipDown, Descending
    <2>3. ni \in Inst /\ k \in Int /\ z \in Int
      BY ShapeFields, InstFields
    <2>4. n \in Inst /\ n.map = ni.map /\ n.size = z
      <3> HIDE DEF z
      <3> QED
        BY <2>3, SizeSet
    <2>5. ni' = MapTo(n, k, pb) /\ req' = req
      BY <2>1 DEF MapSucceeds
    <2>6. ni'.map = [ni.map EXCEPT ![k] = pb] /\ ni'.size = z
      <3> HIDE DEF n, k, z
      <3>1. n \in Inst
        BY <2>4
      <3>2. /\ MapTo(n, k, pb).map = [n.map EXCEPT ![k] = pb]
            /\ MapTo(n, k, pb).size = n.size
        BY <3>1, MapToFields
      <3> QED
        BY <2>4, <2>5, <3>2
    <2>7. ni.map \in IntMap /\ Mapped(ni) /\ Held
      BY <1>1, <2>3, InstFields DEF DataInPlace
    <2> HIDE DEF k
    <2>8. Mapped(ni)'
      <3> SUFFICES ASSUME NEW lb \in Logical, lb < z PROVE ni'.map[lb] \in Blocks
        BY <2>6 DEF Mapped
      <3>1. lb < k \/ lb = k
        BY <2>3, GeometryAssumption DEF Logical
      <3> QED
        BY <2>2, <2>6, <2>7, <3>1 DEF Mapped, IntMap, k
    <2>9. Held'
      <3> SUFFICES ASSUME NEW lb \in Logical, acked[lb] # 0
                   PROVE  lb < z /\ (lb \notin lost => Holds(Where(lb), lb)')
        BY <1>1, <2>6 DEF Held
      <3>1. lb < k /\ (lb \notin lost => Holds(Where(lb), lb))
        BY <2>7 DEF Held, k
      <3>2. lb < z /\ lb # k
        BY <2>3, <3>1, GeometryAssumption DEF Logical
      <3>3. Where(lb)' = Where(lb)
        <4>1. ni'.map[lb] = ni.map[lb]
          BY <2>6, <2>7, <3>2 DEF IntMap
        <4> QED
          BY <1>1, <2>1, <4>1 DEF Where
      <3> QED
        BY <1>1, <3>1, <3>2, <3>3 DEF Holds
    <2>10. ~Served'
      BY <2>1 DEF Served, TableStates
    <2> QED
      BY <1>1, <2>1, <2>5, <2>8, <2>9, <2>10 DEF DataInPlace
  <1>4. CASE /\ pc' = "update" /\ req' = [req EXCEPT !.update = "create"]
             /\ UNCHANGED <<ni, faults>>
    <2>1. req'.update = "create"
      BY <1>4, ShapeFields DEF Request
    <2>2. ~Served'
      BY <1>4, <2>1 DEF Served
    <2> QED
      BY <1>1, <1>4, <2>1, <2>2, DataUntouched
  <1> QED
    BY <1>2, <1>3, <1>4 DEF Fill

\* The replacement is mapped; the data are still in the old block.
LEMMA MapKeepsData ==
    ASSUME Shape, DataInPlace, Map
    PROVE  DataInPlace'
  <1> DEFINE k == req.lb
             n == nmbm_set_bad(ni, req.old)
  <1>1. pc = "map" /\ UNCHANGED <<flash, acked, lost>> /\ k \in Logical
    BY RequestFields DEF Map, chip
  <1>2. n \in Inst /\ n.map = ni.map /\ n.size = ni.size
    <2>1. Moved(n, ni, ni.main, ni.backup, ni.next)
      BY ShapeFields, RequestFields, MovesNothing
    <2> HIDE DEF n
    <2> QED
      BY <2>1 DEF Moved
  <1>3. \/ MapFails(n)
        \/ \E pb \in Found(n) : MapSucceeds(n, k, pb) /\ pc' = "copy"
    BY DEF Map
  <1> HIDE DEF n
  <1>4. CASE MapFails(n)
    BY <1>1, <1>2, <1>4, MapFailsKeepsData
  <1>5. CASE \E pb \in Found(n) : MapSucceeds(n, k, pb) /\ pc' = "copy"
    <2>1. PICK pb \in Found(n) : MapSucceeds(n, k, pb) /\ pc' = "copy"
      BY <1>5
    <2>2. pb \in Blocks
      BY <2>1 DEF Found, SkipDown, Descending
    <2>3. ni' = MapTo(n, k, pb) /\ req' = req
      BY <2>1 DEF MapSucceeds
    <2>4. ni'.map = [ni.map EXCEPT ![k] = pb] /\ ni'.size = ni.size
      BY <1>2, <2>3, MapToFields
    <2>5. /\ ni.map \in IntMap /\ Mapped(ni) /\ Held /\ RequestKept
          /\ req.old = ni.map[k]
      BY <1>1, ShapeFields, InstFields DEF DataInPlace, Served
    <2>6. \A lb \in Logical : Where(lb)' = ni.map[lb] /\ Where(lb) = ni.map[lb]
      <3> TAKE lb \in Logical
      <3>1. lb # k => ni'.map[lb] = ni.map[lb]
        BY <2>4, <2>5 DEF IntMap
      <3> QED
        BY <1>1, <2>1, <2>3, <2>5, <3>1 DEF Where
    <2>7. Mapped(ni)'
      <3> SUFFICES ASSUME NEW lb \in Logical, lb < ni.size PROVE ni'.map[lb] \in Blocks
        BY <2>4 DEF Mapped
      <3> QED
        BY <2>2, <2>4, <2>5 DEF Mapped, IntMap
    <2>8. Held'
      BY <1>1, <2>4, <2>5, <2>6 DEF Held, Holds
    <2>9. RequestKept'
      <3>1. Where(req.lb)' = Where(req.lb)
        BY <1>1, <2>1, <2>3, <2>5 DEF Where
      <3> QED
        BY <1>1, <2>1, <2>3, <2>4, <2>5, <3>1 DEF RequestKept
    <2> QED
      BY <1>1, <2>1, <2>3, <2>7, <2>8, <2>9 DEF DataInPlace
  <1> QED
    BY <1>3, <1>4, <1>5

\* A new request.
LEMMA BeginKeepsData ==
    ASSUME Shape, DataInPlace, NEW op \in Operations, NEW lb \in Logical,
           Begin(op, lb) \/ BeginMark(op, lb)
    PROVE  DataInPlace'
  <1> DEFINE b == ni.map[lb]
  <1>1. /\ pc = "idle" /\ pc' \in {"request", "map"} /\ UNCHANGED <<flash, ni, lost>>
        /\ lb < ni.size /\ NewRequest(op, lb, "none")
        /\ acked' = IF op = "erase" THEN [acked EXCEPT ![lb] = 0] ELSE acked
        /\ op = "write" => Writable(lb)
        /\ pc' = "map" => op # "read"
    BY DEF Begin, BeginMark, NewRequest, chip, seen
  <1>2. req'.op = op /\ req'.lb = lb /\ req'.old = b /\ req'.update = "none"
    <2>1. req' = [NoReq EXCEPT !.op = op, !.lb = lb, !.old = b, !.update = "none"]
      BY <1>1 DEF NewRequest
    <2> HIDE DEF b
    <2> QED
      BY <2>1 DEF NoReq
  <1>3. Mapped(ni) /\ Held /\ acked \in [Logical -> Nat]
    BY <1>1 DEF DataInPlace
  <1>4. /\ acked' \in [Logical -> Nat] /\ (op = "erase" => acked'[lb] = 0)
        /\ \A l \in Logical : acked'[l] # 0 => acked'[l] = acked[l]
        /\ op # "erase" => acked' = acked
    BY <1>1, <1>3
  <1>5. \A l \in Logical : Where(l)' = ni.map[l] /\ Where(l) = ni.map[l]
    BY <1>1 DEF Where
  <1>6. Mapped(ni)'
    BY <1>1, <1>3 DEF Mapped
  <1>7. Held'
    BY <1>1, <1>3, <1>4, <1>5 DEF Held, Holds
  <1>8. RequestKept'
    <2>1. op = "write" => acked[lb] < Pages /\ flash[b] = Page(lb, acked[lb])
      BY <1>1 DEF Writable
    <2>2. Where(req.lb)' = b
      BY <1>1, <1>2 DEF Where
    <2> QED
      BY <1>1, <1>2, <1>4, <2>1, <2>2 DEF RequestKept
  <1> QED
    BY <1>1, <1>2, <1>4, <1>6, <1>7, <1>8 DEF DataInPlace

\* nmbm_build_mapping_table maps the first data_block_count logical blocks.
LEMMA InitiallyMapped ==
    ASSUME NEW n \in Inst, marks \subseteq Int, NEW map \in Mapping,
           NEW w, w = WithInitialMapping(n, map),
           InitialMapping({b \in Logical : b \notin w.bad}, map)
    PROVE  Mapped(w)
  <1> DEFINE bad == n.bad \cup marks
             good == {b \in Logical : b \notin bad}
             size == Cardinality(good)
             changed == n.changed \/ bad # n.bad
  <1>1. w = [n EXCEPT !.bad = bad, !.changed = changed, !.map = map, !.size = size]
    BY DEF WithInitialMapping
  <1>2. w.map = map /\ w.bad = bad /\ w.size = size
    <2> HIDE DEF bad, changed, size
    <2> QED
      BY <1>1 DEF Inst
  <1>3. \A lb \in Logical : lb < size => map[lb] \in good
    BY <1>2 DEF InitialMapping
  <1>4. good \subseteq Blocks
    BY GeometryAssumption DEF Logical, Blocks
  <1> HIDE DEF good, size
  <1> QED
    BY <1>2, <1>3, <1>4 DEF Mapped

\* nmbm_load_info_table from tables that map every block.
LEMMA LoadedMapped ==
    ASSUME Shape, NEW ecc, NEW sig \in Blocks, LoadTables(ecc, sig),
           \A b \in Blocks, lb \in Logical : flash[b] \in Table => flash[b].map[lb] \in Logical
    PROVE  /\ Mapped(ni)' /\ pc' \in {"write", "idle"}
           /\ req' = [NoReq EXCEPT !.table = "load"]
  <1> DEFINE mains == Loadable(MgmtStart, {}, sig)
             m == Minimum(mains)
             backups == Loadable(m + 1, flash[m].bad \cup ecc, sig)
             s == IF backups = {} THEN 0 ELSE Minimum(backups)
             n == Loaded(m, s, ecc, sig)
             newer == s # 0 /\ flash[s].count > flash[m].count
             t == IF newer THEN flash[s] ELSE flash[m]
             older == s # 0 /\ flash[m].count < flash[s].count
             c == [n EXCEPT !.changed = TRUE]
             p == (n.next = n.top)
             d == [n EXCEPT !.protected = p]
  <1>1. mains # {} /\ req' = [NoReq EXCEPT !.table = "load"]
    BY DEF LoadTables
  <1>2. /\ m \in Blocks /\ flash[m] \in Table
        /\ s \in Blocks /\ (s # 0 => flash[s] \in Table)
    <2> HIDE DEF m, s, backups
    <2> QED
      BY <1>1, TablesFound DEF m, s, backups
  <1>3. n \in Inst /\ n.map = t.map
    <2> HIDE DEF m, s
    <2> QED
      BY <1>2, LoadedInstance
  <1>4. \A lb \in Logical : n.map[lb] \in Logical
    <2> HIDE DEF m, s, n
    <2> QED
      BY <1>2, <1>3
  <1>5. ni' \in {n, c, d} /\ pc' \in {"write", "idle"}
    BY DEF LoadTables, nmbm_rescue_single_info_table, nmbm_update_single_info_table, StartWrite
  <1>6. c.map = n.map /\ d.map = n.map
    <2> HIDE DEF n, p
    <2> QED
      BY <1>3 DEF Inst
  <1>7. ni'.map = n.map
    <2> HIDE DEF n, c, d
    <2> QED
      BY <1>5, <1>6
  <1>8. Logical \subseteq Blocks
    BY GeometryAssumption DEF Logical, Blocks
  <1> HIDE DEF n
  <1> QED
    BY <1>1, <1>4, <1>5, <1>7, <1>8 DEF Mapped

\* nmbm_load_existing when no table was found.
LEMMA CreatedMapped ==
    ASSUME Shape, NEW ecc, NEW sig \in Blocks, NEW map \in Mapping,
           CreateTables(ecc, sig, map)
    PROVE  /\ Mapped(ni)' /\ pc' \in {"dead", "write"}
           /\ req' = [NoReq EXCEPT !.table = "create"]
  <1> DEFINE bad == FoundBad(MgmtStart, sig - 1, ecc)
             found == bad # {}
             f == [Fresh EXCEPT !.bad = bad, !.sig = sig, !.changed = found]
             n == WithInitialMapping(f, map)
  <1>1. /\ InitialMapping({b \in Logical : b \notin n.bad}, map)
        /\ nmbm_create_info_table(n)
    BY DEF CreateTables
  <1>2. f \in Inst
    <2>1. bad \subseteq Int /\ found \in BOOLEAN /\ sig \in Places
      BY GeometryAssumption DEF FoundBad, Blocks, Places
    <2> HIDE DEF bad, found
    <2> QED
      BY <2>1, FreshShape DEF Inst
  <1>3. n \in Inst /\ Mapped(n)
    <2> HIDE DEF f, n
    <2> QED
      BY <1>1, <1>2, InitialInstance, InitiallyMapped DEF n, Shape
  <1> HIDE DEF n
  <1>4. ni.map' = n.map /\ ni.size' = n.size
    BY <1>1, <1>3, ShapeFields, CreateBegins
  <1>5. pc' \in {"dead", "write"} /\ req' = [NoReq EXCEPT !.table = "create"]
    BY <1>1 DEF nmbm_create_info_table, nmbm_rebuild_info_table, StartWrite
  <1> QED
    BY <1>3, <1>4, <1>5 DEF Mapped

\* Attaching for the first time.
LEMMA AttachKeepsData ==
    ASSUME Shape, DataInPlace, Attach
    PROVE  DataInPlace'
  <1>1. /\ pc = "off" /\ UNCHANGED <<flash, acked, lost>>
        /\ acked \in [Logical -> Nat] /\ (\A lb \in Logical : acked[lb] = 0)
        /\ \A b \in Blocks, lb \in Logical : flash[b] \in Table => flash[b].map[lb] \in Logical
        /\ flash = [x \in Blocks |-> flash[x]] /\ req.update # "unmap"
    BY DEF DataInPlace, Attach, chip
  <1>2. /\ NoReq.update = "none"
        /\ [NoReq EXCEPT !.table = "create"].update = "none"
        /\ [NoReq EXCEPT !.table = "load"].update = "none"
    BY DEF NoReq
  <1>3. \/ pc' = "dead" /\ req' = req
        \/ pc' \in {"dead", "write", "idle", "signature"} /\ req'.update = "none" /\ Mapped(ni)'
    <2>1. CASE Unusable
      BY <2>1 DEF Unusable
    <2>2. ASSUME NEW map \in Mapping, CreateNew(map)
          PROVE  pc' = "signature" /\ req' = NoReq /\ Mapped(ni)'
      <3> DEFINE n == WithInitialMapping(Fresh, map)
      <3>1. /\ InitialMapping({b \in Logical : b \notin n.bad}, map)
            /\ ni' = n /\ pc' = "signature" /\ req' = NoReq
        BY <2>2 DEF CreateNew
      <3>2. Mapped(n)
        <4> HIDE DEF n
        <4> QED
          BY <3>1, FreshShape, InitiallyMapped DEF n, Shape
      <3>3. Mapped(ni)'
        BY <3>1, <3>2
      <3> QED
        BY <3>1, <3>3
    <2>3. ASSUME Signatures # {}, NEW ecc, LoadTables(ecc, Maximum(Signatures))
          PROVE  /\ Mapped(ni)' /\ pc' \in {"write", "idle"}
                 /\ req' = [NoReq EXCEPT !.table = "load"]
      BY <1>1, <2>3, SignatureFound, LoadedMapped
    <2>4. ASSUME Signatures # {}, NEW ecc, NEW map \in Mapping,
                 CreateTables(ecc, Maximum(Signatures), map)
          PROVE  /\ Mapped(ni)' /\ pc' \in {"dead", "write"}
                 /\ req' = [NoReq EXCEPT !.table = "create"]
      BY <2>4, SignatureFound, CreatedMapped
    <2> QED
      BY <1>2, <2>1, <2>2, <2>3, <2>4 DEF Attach
  <1>4. ~Served'
    BY <1>3 DEF Served, TableStates
  <1>5. Held'
    BY <1>1 DEF Held
  <1> QED
    BY <1>1, <1>3, <1>4, <1>5 DEF DataInPlace

\* The chip before the first boot.
LEMMA DataInitially ==
    ASSUME Init
    PROVE  DataInPlace
  <1>1. PICK s \in Scenarios :
            /\ Prepared(s.bad) \/ flash = [b \in Blocks |-> Empty]
            /\ pc = "off" /\ req = NoReq /\ acked = [lb \in Logical |-> 0]
    BY DEF Init
  <1>2. flash = [b \in Blocks |-> flash[b]]
    BY <1>1, PreparedChip
  <1>3. ASSUME NEW b \in Blocks, NEW lb \in Logical, flash[b] \in Table
        PROVE  flash[b].map[lb] \in Logical
    <2>1. flash[b] \in {Signature, Empty, FirstTable(s.bad)}
      BY <1>1, PreparedChip
    <2>2. Signature \notin Table /\ Empty \notin Table
      BY DEF Signature, Empty, Table
    <2>3. FirstTable(s.bad).map = OwnMap
      BY DEF FirstTable
    <2> QED
      BY <1>3, <2>1, <2>2, <2>3 DEF OwnMap
  <1>4. req.update = "none"
    BY <1>1 DEF NoReq
  <1> QED
    BY <1>1, <1>2, <1>3, <1>4 DEF DataInPlace, Served, TableStates

\* The inductive invariant of the data, on top of BootInv.
DataInv == "hole" \in faults \/ DataInPlace

\* Every step of the first boot keeps the data in place.
LEMMA DataStep ==
    ASSUME BootInv, DataInv, [Next]_vars, [~PowerCut /\ ~Unmaps]_vars
    PROVE  DataInv'
  <1>1. CASE UNCHANGED vars
    BY <1>1 DEF DataInv, DataInPlace, Held, Holds, Where, Mapped, Served, RequestKept,
       vars, chip, seen
  <1>2. CASE Next /\ ~PowerCut /\ ~Unmaps
    <2> SUFFICES ASSUME "hole" \notin faults'
                 PROVE  DataInPlace'
      BY DEF DataInv
    <2>1. "hole" \notin faults
      BY <1>2, HoleStays
    <2>2. Shape /\ NoSharing /\ TablesMissData /\ DataInPlace
      BY <2>1, BootSafe DEF BootInv, DataInv, NoSharingUnlessHole
    <2>3. CASE Attach
      BY <2>2, <2>3, AttachKeepsData
    <2>4. CASE Driver
      BY <2>1, <2>2, <2>4, TableStepsKeepData, WriteStepsKeepData, SignatureStepsKeepData,
         RequestStepsKeepData, FillKeepsData, MapKeepsData DEF Driver, ChipSteps
    <2>5. CASE Requests
      BY <1>2, <2>2, <2>5, BeginKeepsData DEF Requests, Unmaps
    <2> QED
      BY <1>2, <2>3, <2>4, <2>5 DEF Next
  <1> QED
    BY <1>1, <1>2

\* What the invariant implies when no request is under way.
LEMMA DataSafe ==
    ASSUME BootInv, DataInv
    PROVE  DataKept
  <1> SUFFICES ASSUME pc = "idle", ~Spoiled, NEW lb \in Logical, lb < ni.size,
                      lb \notin lost, acked[lb] > 0
               PROVE  /\ flash[ni.map[lb]].kind = "data" /\ flash[ni.map[lb]].lb = lb
                      /\ flash[ni.map[lb]].pages >= acked[lb]
    BY DEF DataKept
  <1>1. DataInPlace
    BY DEF DataInv, Spoiled
  <1>2. acked[lb] \in Nat /\ acked[lb] # 0 /\ Held /\ Where(lb) = ni.map[lb]
    BY <1>1 DEF DataInPlace, Where
  <1>3. PICK p \in acked[lb] .. Pages : flash[ni.map[lb]] = Data(lb, p)
    BY <1>2 DEF Held, Holds
  <1>4. p >= acked[lb]
    BY <1>2, <1>3, PagesAssumption
  <1> QED
    BY <1>3, <1>4, DataFields

\* Acknowledged pages are where the mapping says whenever no request is under way,
\* however often remap_block_nmbm has moved them to a replacement: unless the chip
\* itself has lost them, or a walk down the pool has skipped a bad block.
THEOREM DataStaysInPlace == Spec /\ OneBoot => []DataKept
  <1>1. Init => DataInv
    BY DataInitially DEF DataInv
  <1>2. BootInv /\ DataInv /\ [Next]_vars /\ [~PowerCut /\ ~Unmaps]_vars => DataInv'
    BY DataStep
  <1>3. BootInv /\ DataInv => DataKept
    BY DataSafe
  <1> QED
    BY <1>1, <1>2, <1>3, BootInvariant, PTL DEF Spec, OneBoot

-----------------------------------------------------------------------------
(* The type invariant, across power cuts *)

Span == [ba : 0 .. BlockCount, lim : Blocks, from : Blocks, tmp : Blocks,
         for : Writes \cup {"none"}]
Call == [op : Operations \cup {"none"}, lb : Logical, old : Blocks, tries : 0 .. Retries,
         table : {"none", "create", "load", "update"},
         update : {"none", "create", "remap", "no spare", "unmap"}]
Bounds == [force : BOOLEAN, wear : Nat, cuts : Nat, reqs : Nat, debug : Nat]

\* What the type of the chip and of the history depends on.
ChipType ==
    /\ flash \in [Blocks -> Content] /\ marks \subseteq Blocks
    /\ acked \in [Logical -> 0 .. Pages] /\ lost \subseteq Logical
    /\ faults \subseteq Faults /\ env \in Bounds

MemoryType == ni \in Instance /\ pc \in PCs /\ wr \in Span /\ req \in Call /\ saved \subseteq Mapping

\* A block that was written is followed by another one; a request is under way where it is
\* worked on, and its block is mapped; a page that is being written fits its block.
StepType ==
    /\ pc = "written" => wr.ba < wr.lim
    /\ pc = "erase" /\ wr.for = "rescue next" => wr.tmp + 1 \in Blocks
    /\ pc = "signature" => wr.ba \in Blocks
    /\ pc \in {"request", "map", "copy", "mark", "repair"} => req.op # "none"
    /\ req.op # "none" => ni.map[req.lb] # Unmapped
    /\ pc # "idle" /\ req.op = "write" => acked[req.lb] < Pages

TypeInv == ChipType /\ MemoryType /\ StepType

\* TypeInv states the type invariant.
LEMMA TypeInvType == TypeInv => TypeOK
  BY DEF TypeInv, ChipType, MemoryType, TypeOK, Span, Call, Bounds

\* Blocks are numbers.
LEMMA BlockNumbers ==
    /\ \A b \in Blocks : b \in Int /\ 0 <= b /\ b < BlockCount /\ b \in 0 .. BlockCount
    /\ \A b \in Int : 0 <= b /\ b < BlockCount => b \in Blocks
    /\ BlockCount \in Int /\ MgmtStart \in Int /\ 0 \in Blocks /\ MgmtStart \in Blocks
    /\ 0 < MgmtStart
  BY GeometryAssumption DEF Blocks

\* The fields of an instance.
LEMMA InstanceFields ==
    ASSUME NEW n \in Instance
    PROVE  /\ n.main \in Blocks /\ n.backup \in Blocks /\ n.next \in Blocks /\ n.top \in Blocks
           /\ n.sig \in Blocks /\ n.size \in 0 .. MgmtStart /\ n.map \in Mapping
           /\ n.bad \subseteq Blocks /\ n.count \in Nat /\ n.cache \in Table
           /\ n.changed \in BOOLEAN /\ n.protected \in BOOLEAN
  BY DEF Instance

\* r is an instance with the mapping of n.
Like(r, n) == r \in Instance /\ r.map = n.map

\* Tables, the pool and flags are set.
LEMMA LikeOne ==
    ASSUME NEW n \in Instance, NEW a \in Blocks
    PROVE  /\ Like([n EXCEPT !.main = a], n) /\ Like([n EXCEPT !.next = a], n)
           /\ Like([n EXCEPT !.top = a], n) /\ Like([n EXCEPT !.sig = a], n)
           /\ \A p \in BOOLEAN : /\ Like([n EXCEPT !.protected = p], n)
                                 /\ Like([n EXCEPT !.changed = p], n)
           /\ Like(Clean(n), n) /\ Like(n, n)
  BY DEF Instance, Like, Clean

\* Two of them.
LEMMA LikeTwo ==
    ASSUME NEW n \in Instance, NEW a \in Blocks, NEW b \in Blocks
    PROVE  /\ Like([n EXCEPT !.main = a, !.next = b], n)
           /\ Like([n EXCEPT !.backup = a, !.next = b], n)
           /\ Like([n EXCEPT !.next = a, !.backup = b], n)
           /\ Like([n EXCEPT !.main = a, !.backup = b], n)
           /\ Like([n EXCEPT !.backup = a, !.main = b], n)
  BY DEF Instance, Like

\* All three.
LEMMA LikeAll ==
    ASSUME NEW n \in Instance, NEW a \in Blocks, NEW b \in Blocks, NEW c \in Blocks
    PROVE  Like([n EXCEPT !.main = a, !.backup = b, !.next = c], n)
  BY DEF Instance, Like

\* nmbm_set_block_state.
LEMMA LikeBad ==
    ASSUME NEW n \in Instance, NEW b \in Blocks
    PROVE  Like(nmbm_set_bad(n, b), n)
  <1> DEFINE bad == n.bad \cup {b}
             p == n.changed \/ Good(n, b)
  <1>1. bad \in SUBSET Blocks /\ p \in BOOLEAN
    BY InstanceFields
  <1>2. nmbm_set_bad(n, b) = [n EXCEPT !.bad = bad, !.changed = p]
    BY DEF nmbm_set_bad
  <1> HIDE DEF bad, p
  <1> QED
    BY <1>1, <1>2 DEF Like, Instance

\* nmbm_generate_info_table_cache.
LEMMA LikeCache ==
    ASSUME NEW n \in Instance
    PROVE  Like(nmbm_generate_info_table_cache(n), n)
  <1> DEFINE count == IF n.changed THEN n.count + 1 ELSE n.count
             cache == [kind |-> "table", count |-> count, bad |-> n.bad, map |-> n.map]
  <1>1. count \in Nat
    BY InstanceFields
  <1>2. cache \in Table
    <2> HIDE DEF count
    <2> QED
      BY <1>1, InstanceFields DEF Table
  <1> HIDE DEF count, cache
  <1>3. Like([n EXCEPT !.count = count, !.cache = cache], n)
    BY <1>1, <1>2 DEF Instance, Like
  <1> QED
    BY <1>3 DEF nmbm_generate_info_table_cache, count, cache

\* Chains of the above.
LEMMA LikeLike ==
    ASSUME NEW r, NEW q, NEW n, Like(r, q), Like(q, n)
    PROVE  Like(r, n)
  BY DEF Like

\* The fields of a request.
LEMMA CallFields ==
    ASSUME NEW r \in Call
    PROVE  r.lb \in Logical /\ r.old \in Blocks /\ r.tries \in 0 .. Retries
  BY DEF Call

\* q is the request r, but for its caller and the number of its retries.
SameCall(q, r) == q \in Call /\ q.op = r.op /\ q.lb = r.lb /\ q.old = r.old

\* The request is called from elsewhere, or tried again.
LEMMA CallAgain ==
    ASSUME NEW r \in Call, NEW u \in {"none", "create", "remap", "no spare", "unmap"},
           NEW t \in {"none", "create", "load", "update"}, NEW i \in 0 .. Retries
    PROVE  /\ SameCall([r EXCEPT !.update = u], r) /\ [r EXCEPT !.update = u].update = u
           /\ [r EXCEPT !.update = u].table = r.table
           /\ SameCall([r EXCEPT !.table = t], r) /\ [r EXCEPT !.table = t].table = t
           /\ [r EXCEPT !.table = t].update = r.update
           /\ SameCall([r EXCEPT !.tries = i], r) /\ [r EXCEPT !.tries = i].table = r.table
           /\ [r EXCEPT !.tries = i].update = r.update
  BY DEF Call, SameCall

\* The block of a request is to be replaced.
LEMMA CallOld ==
    ASSUME NEW r \in Call, NEW b \in Blocks
    PROVE  /\ [r EXCEPT !.old = b] \in Call /\ [r EXCEPT !.old = b].op = r.op
           /\ [r EXCEPT !.old = b].lb = r.lb /\ [r EXCEPT !.old = b].old = b
           /\ [r EXCEPT !.old = b].update = r.update
           /\ [r EXCEPT !.op = "flips", !.old = b] \in Call
           /\ [r EXCEPT !.op = "flips", !.old = b].op = "flips"
           /\ [r EXCEPT !.op = "flips", !.old = b].lb = r.lb
           /\ [r EXCEPT !.op = "flips", !.old = b].old = b
           /\ [r EXCEPT !.op = "flips", !.old = b].update = r.update
  BY DEF Call, Operations

\* The driver is behind a call: where it goes on, and that the request is the same.
GoesOn(n) ==
    /\ Like(ni', n) /\ req' \in Call /\ saved' \in {saved, {n.map}}
    /\ req'.op = req.op /\ req'.lb = req.lb
    /\ pc' \in {"idle", "dead", "mark", "update", "request", "repair", "fill"}
    /\ pc' \in {"request", "mark", "repair"} => req.op # "none"

\* remap_block_nmbm returns.
LEMMA MapFailedType ==
    ASSUME NEW n \in Instance, req \in Call, MapFailed(n)
    PROVE  /\ ni' = n /\ req' \in Call /\ req'.op = req.op /\ req'.lb = req.lb
           /\ pc' \in {"idle", "mark", "update"} /\ (pc' = "mark" => req.op # "none")
  BY DEF MapFailed, Call

\* The retry of a request.
LEMMA RemapReturnsType ==
    ASSUME req \in Call, RemapReturns
    PROVE  /\ req' \in Call /\ req'.op = req.op /\ req'.lb = req.lb
           /\ pc' \in {"idle", "mark", "request"} /\ (pc' # "idle" => req.op # "none")
  <1> DEFINE t == req.tries + 1
  <1>1. \/ req' = req
        \/ req.tries < Retries /\ req' = [req EXCEPT !.tries = t]
    BY DEF RemapReturns
  <1>2. req.tries < Retries => t \in 0 .. Retries
    <2>1. req.tries \in 0 .. Retries
      BY CallFields
    <2> QED
      BY <2>1, PagesAssumption
  <1>3. pc' \in {"idle", "mark", "request"} /\ (pc' # "idle" => req.op # "none")
    BY DEF RemapReturns
  <1> HIDE DEF t
  <1> QED
    BY <1>1, <1>2, <1>3 DEF Call

\* nmbm_update_info_table returns.
LEMMA UpdateReturnType ==
    ASSUME NEW n \in Instance, NEW ok, req \in Call, UpdateReturn(n, ok)
    PROVE  GoesOn(n)
  <1> DEFINE a == n.next
             r == [n EXCEPT !.top = a]
  <1>1. saved' \in {saved, {n.map}} /\ Like(n, n)
    BY LikeOne, BlockNumbers DEF UpdateReturn
  <1>2. a \in Blocks
    BY InstanceFields
  <1>3. Like(r, n)
    <2> HIDE DEF a
    <2> QED
      BY <1>2, LikeOne
  <1>4. CASE req.update \in {"create", "unmap"} /\ ni' = n /\ UNCHANGED req
             /\ pc' \in {"idle", "dead", "repair"} /\ (pc' = "repair" => req.op # "none")
    BY <1>1, <1>4 DEF GoesOn
  <1>5. CASE ni' = n /\ RemapReturns
    BY <1>1, <1>5, RemapReturnsType DEF GoesOn
  <1>6. CASE MapFailed(r)
    <2>1. r \in Instance
      BY <1>3 DEF Like
    <2> HIDE DEF r
    <2> QED
      BY <1>1, <1>3, <1>6, <2>1, MapFailedType DEF GoesOn
  <1> QED
    BY <1>4, <1>5, <1>6 DEF UpdateReturn

\* A function that writes tables returns.
LEMMA TableReturnType ==
    ASSUME NEW n \in Instance, NEW ok, req \in Call, TableReturn(n, ok)
    PROVE  GoesOn(n)
  <1> DEFINE p == (n.next = n.top \/ ~ok)
  <1>1. Like(n, n) /\ Like([n EXCEPT !.protected = p], n)
    <2>1. p \in BOOLEAN
      OBVIOUS
    <2> HIDE DEF p
    <2> QED
      BY <2>1, LikeOne, BlockNumbers
  <1> HIDE DEF p
  <1> QED
    BY <1>1, UpdateReturnType DEF TableReturn, GoesOn, p

\* Behind a return the type invariant holds.
LEMMA GoesOnType ==
    ASSUME TypeInv, NEW n, Like(n, ni), GoesOn(n), pc # "idle",
           UNCHANGED <<flash, marks, wr, acked, lost, faults, env>>
    PROVE  TypeInv'
  <1>1. ChipType'
    BY DEF TypeInv, ChipType
  <1>2. n.map \in Mapping /\ ni.map' = ni.map
    BY InstanceFields DEF Like, GoesOn
  <1>3. MemoryType'
    BY <1>2 DEF TypeInv, MemoryType, GoesOn, Like, PCs
  <1>4. StepType'
    BY <1>2 DEF TypeInv, StepType, GoesOn
  <1> QED
    BY <1>1, <1>3, <1>4 DEF TypeInv

\* A write begins.
LEMMA StartWriteType ==
    ASSUME TypeInv, NEW n, Like(n, ni), NEW ba \in Blocks, NEW lim \in Blocks,
           NEW for \in Writes, StartWrite(n, ba, lim, for), pc # "idle", req' \in Call,
           req'.op = req.op, req'.lb = req.lb,
           UNCHANGED <<flash, marks, acked, lost, saved, faults, env>>
    PROVE  TypeInv'
  <1>1. ni' = n /\ pc' = "write"
        /\ wr' = [wr EXCEPT !.ba = ba, !.lim = lim, !.from = ba, !.for = for]
    BY DEF StartWrite
  <1>2. wr' \in Span
    BY <1>1, BlockNumbers DEF TypeInv, MemoryType, Span
  <1>3. ChipType'
    BY DEF TypeInv, ChipType
  <1>4. MemoryType'
    BY <1>1, <1>2 DEF TypeInv, MemoryType, Like, PCs
  <1>5. StepType'
    BY <1>1 DEF TypeInv, StepType, Like
  <1> QED
    BY <1>3, <1>4, <1>5 DEF TypeInv

\* An erase begins.
LEMMA StartEraseType ==
    ASSUME TypeInv, NEW n, Like(n, ni), NEW ba \in 0 .. BlockCount, NEW lim \in Blocks,
           StartErase(n, ba, lim), Going, pc # "idle", wr.ba \in Blocks, wr.ba + 1 \in Blocks
    PROVE  TypeInv'
  <1>1. ni' = n /\ pc' = "erase" /\ wr' = [wr EXCEPT !.ba = ba, !.lim = lim, !.tmp = wr.ba]
    BY DEF StartErase
  <1>2. wr' \in Span /\ wr'.tmp = wr.ba
    <2> DEFINE b == wr.ba
    <2>1. wr \in Span /\ b \in Blocks
      BY DEF TypeInv, MemoryType
    <2>2. /\ [wr EXCEPT !.ba = ba, !.lim = lim, !.tmp = b] \in Span
          /\ [wr EXCEPT !.ba = ba, !.lim = lim, !.tmp = b].tmp = b
      <3> HIDE DEF b
      <3> QED
        BY <2>1 DEF Span
    <2> QED
      BY <1>1, <2>2
  <1>3. UNCHANGED <<flash, marks, acked, lost, saved, faults, env, req>>
    BY DEF Going, Memory, chip
  <1>4. ChipType'
    BY <1>3 DEF TypeInv, ChipType
  <1>5. MemoryType'
    BY <1>1, <1>2, <1>3 DEF TypeInv, MemoryType, Like, PCs
  <1>6. StepType'
    BY <1>1, <1>2, <1>3 DEF TypeInv, StepType, Like
  <1> QED
    BY <1>4, <1>5, <1>6 DEF TypeInv

\* A table step returns.
LEMMA ReturnType ==
    ASSUME TypeInv, NEW n, Like(n, ni), NEW ok, Return(n, ok), pc # "idle"
    PROVE  TypeInv'
  <1>1. TableReturn(n, ok) /\ UNCHANGED <<flash, marks, wr, acked, lost, faults, env>>
    BY DEF Return, Memory, chip
  <1>2. n \in Instance /\ req \in Call
    BY DEF TypeInv, MemoryType, Like
  <1>3. GoesOn(n)
    BY <1>1, <1>2, TableReturnType
  <1> QED
    BY <1>1, <1>3, GoesOnType

\* A table step writes another table.
LEMMA WriteGoesOnType ==
    ASSUME TypeInv, NEW n, Like(n, ni), NEW ba \in Blocks, NEW lim \in Blocks,
           NEW for \in Writes, StartWrite(n, ba, lim, for), pc # "idle", Going
    PROVE  TypeInv'
  <1>1. req' = req /\ UNCHANGED <<flash, marks, acked, lost, saved, faults, env>>
    BY DEF Going, Memory, chip
  <1>2. req' \in Call
    BY <1>1 DEF TypeInv, MemoryType
  <1> QED
    BY <1>1, <1>2, StartWriteType

\* What the table steps begin with.
LEMMA StepTypes ==
    ASSUME TypeInv
    PROVE  /\ ni \in Instance /\ wr \in Span /\ req \in Call /\ Like(ni, ni)
           /\ wr.lim \in Blocks /\ wr.from \in Blocks /\ wr.tmp \in Blocks
           /\ wr.ba \in 0 .. BlockCount
           /\ pc = "written" => wr.ba \in Blocks /\ wr.ba + 1 \in Blocks
  <1>1. ni \in Instance /\ wr \in Span /\ req \in Call
    BY DEF TypeInv, MemoryType
  <1>2. wr.lim \in Blocks /\ wr.from \in Blocks /\ wr.tmp \in Blocks /\ wr.ba \in 0 .. BlockCount
    BY <1>1 DEF Span
  <1>3. pc = "written" => wr.ba < wr.lim
    BY DEF TypeInv, StepType
  <1>4. wr.ba < wr.lim => wr.ba \in Blocks /\ wr.ba + 1 \in Blocks
    BY <1>2, BlockNumbers DEF Blocks
  <1>5. Like(ni, ni)
    BY <1>1, LikeOne, BlockNumbers
  <1> QED
    BY <1>1, <1>2, <1>3, <1>4, <1>5

\* nmbm_try_reserve_blocks reserves blocks.
LEMMA ReservedBlocks ==
    ASSUME NEW n, NEW ba, NEW b \in nmbm_try_reserve_blocks(n, ba)
    PROVE  b \in Blocks
  BY DEF nmbm_try_reserve_blocks, SkipUp, Ascending

\* Setting fields, and that the tables are clean.
LEMMA LikeClean ==
    ASSUME NEW n, NEW m, Like(n, m)
    PROVE  Like(Clean(n), m)
  <1>1. n \in Instance
    BY DEF Like
  <1>2. Like(Clean(n), n)
    BY <1>1, LikeOne, BlockNumbers
  <1> QED
    BY <1>2, LikeLike

\* nmbm_rebuild_info_table.
LEMMA RebuildType ==
    ASSUME TypeInv, NEW n, Like(n, ni), nmbm_rebuild_info_table(n), Going, pc # "idle"
    PROVE  TypeInv'
  <1> DEFINE t == n.top
             r == [n EXCEPT !.main = 0, !.backup = 0, !.next = t]
  <1>1. n \in Instance /\ t \in Blocks
    BY InstanceFields DEF Like
  <1>2. Like(r, n)
    <2> HIDE DEF t
    <2> QED
      BY <1>1, LikeAll, BlockNumbers
  <1>3. Like(r, ni)
    BY <1>2, LikeLike
  <1>4. StartWrite(r, MgmtStart, t, "rebuild main")
    BY DEF nmbm_rebuild_info_table
  <1>5. "rebuild main" \in Writes
    BY DEF Writes
  <1> HIDE DEF r, t
  <1> QED
    BY <1>1, <1>3, <1>4, <1>5, BlockNumbers, WriteGoesOnType

\* The steps of nmbm_rebuild_info_table.
LEMMA RebuildStepsType ==
    ASSUME TypeInv,
           RebuildMainWritten \/ RebuildMainFull \/ RebuildBackupWritten \/ RebuildBackupFull
    PROVE  TypeInv'
  <1>1. CASE RebuildMainWritten
    <2> DEFINE b == wr.ba
               c == wr.ba + 1
               r == [ni EXCEPT !.main = b, !.next = c]
               n == Clean(r)
    <2>1. pc = "written"
      BY <1>1 DEF RebuildMainWritten, Written
    <2>2. b \in Blocks /\ c \in Blocks /\ ni \in Instance
      BY <2>1, StepTypes
    <2>3. Like(r, ni)
      <3> HIDE DEF b, c
      <3> QED
        BY <2>2, LikeTwo
    <2>4. Like(n, ni)
      <3> HIDE DEF r
      <3> QED
        BY <2>3, LikeClean
    <2>5. n.top \in Blocks
      <3> HIDE DEF n
      <3> QED
        BY <2>4, InstanceFields DEF Like
    <2>6. \/ Return(n, TRUE)
          \/ \E a \in nmbm_try_reserve_blocks(n, wr.ba + 1) :
                StartWrite(n, a, n.top, "rebuild backup") /\ Going
      BY <1>1 DEF RebuildMainWritten
    <2>7. "rebuild backup" \in Writes
      BY DEF Writes
    <2> HIDE DEF n
    <2>8. CASE Return(n, TRUE)
      BY <2>1, <2>4, <2>8, ReturnType
    <2>9. ASSUME NEW a \in nmbm_try_reserve_blocks(n, wr.ba + 1),
                 StartWrite(n, a, n.top, "rebuild backup"), Going
          PROVE  TypeInv'
      BY <2>1, <2>4, <2>5, <2>7, <2>9, ReservedBlocks, WriteGoesOnType
    <2> QED
      BY <2>6, <2>8, <2>9
  <1>2. CASE RebuildMainFull
    <2>1. pc = "full" /\ Return([ni EXCEPT !.protected = TRUE], FALSE)
      BY <1>2 DEF RebuildMainFull, Full
    <2>2. Like([ni EXCEPT !.protected = TRUE], ni)
      BY StepTypes, LikeOne, BlockNumbers
    <2> QED
      BY <2>1, <2>2, ReturnType
  <1>3. CASE RebuildBackupWritten
    <2> DEFINE b == wr.ba
               c == wr.ba + 1
               r == [ni EXCEPT !.backup = b, !.next = c]
               d == ni.main + 1
    <2>1. pc = "written" /\ StartErase(r, d, b) /\ Going
      BY <1>3 DEF RebuildBackupWritten, Written
    <2>2. b \in Blocks /\ c \in Blocks /\ ni \in Instance
      BY <2>1, StepTypes
    <2>3. Like(r, ni)
      <3> HIDE DEF b, c
      <3> QED
        BY <2>2, LikeTwo
    <2>4. d \in 0 .. BlockCount
      <3>1. ni.main \in Blocks
        BY <2>2, InstanceFields
      <3> QED
        BY <3>1, BlockNumbers DEF Blocks
    <2> HIDE DEF r, d
    <2> QED
      BY <2>1, <2>2, <2>3, <2>4, StartEraseType
  <1>4. CASE RebuildBackupFull
    <2>1. pc = "full" /\ Return(ni, TRUE)
      BY <1>4 DEF RebuildBackupFull, Full
    <2> QED
      BY <2>1, StepTypes, ReturnType
  <1> QED
    BY <1>1, <1>2, <1>3, <1>4

\* A table step that returns, or writes on, with the tables and next set anew.
LEMMA SetTables ==
    ASSUME TypeInv, NEW a \in Blocks, NEW b \in Blocks
    PROVE  /\ Like([ni EXCEPT !.main = a], ni) /\ Like(Clean([ni EXCEPT !.main = a]), ni)
           /\ Like(Clean([ni EXCEPT !.backup = a, !.main = b]), ni)
           /\ Like(Clean([ni EXCEPT !.main = a, !.backup = b]), ni)
           /\ Like([ni EXCEPT !.main = a, !.backup = b], ni)
           /\ Like(Clean([ni EXCEPT !.backup = a, !.next = b]), ni)
           /\ Like([ni EXCEPT !.next = a, !.backup = b], ni)
           /\ Like(Clean([ni EXCEPT !.main = a, !.next = b]), ni)
  BY StepTypes, LikeOne, LikeTwo, LikeClean

\* The walk for another table goes on one block earlier.
LEMMA EarlierType ==
    ASSUME TypeInv, NEW for \in Writes, Earlier(for)
    PROVE  TypeInv'
  <1> DEFINE b == wr.from - 1
  <1>1. pc = "full" /\ b >= ni.next /\ StartWrite(ni, b, ni.top, for) /\ Going
    BY DEF Earlier, Full
  <1>2. ni \in Instance /\ Like(ni, ni) /\ wr.from \in Blocks
    BY StepTypes
  <1>3. ni.next \in Blocks /\ ni.top \in Blocks
    BY <1>2, InstanceFields
  <1>4. b \in Blocks
    BY <1>1, <1>2, <1>3, BlockNumbers DEF Blocks
  <1> HIDE DEF b
  <1> QED
    BY <1>1, <1>2, <1>3, <1>4, WriteGoesOnType

\* The steps of nmbm_rescue_single_info_table.
LEMMA RescueStepsType ==
    ASSUME TypeInv,
           \/ RescueFrontWritten \/ RescueFrontFull \/ RescueNextWritten
           \/ RescueNextEarlier \/ RescueNextFull
    PROVE  TypeInv'
  <1>0. ni \in Instance /\ Like(ni, ni) /\ ni.main \in Blocks /\ ni.next \in Blocks
        /\ ni.top \in Blocks
    BY StepTypes, InstanceFields
  <1>1. CASE RescueFrontWritten
    <2> DEFINE a == ni.main
               b == wr.ba
               c == wr.ba + 1
               r == Clean([ni EXCEPT !.backup = a, !.main = b])
    <2>1. pc = "written" /\ StartErase(r, c, a) /\ Going
      BY <1>1 DEF RescueFrontWritten, Written
    <2>2. b \in Blocks /\ c \in Blocks /\ c \in 0 .. BlockCount
      BY <2>1, StepTypes, BlockNumbers
    <2>3. Like(r, ni)
      <3> HIDE DEF a, b
      <3> QED
        BY <1>0, <2>2, SetTables DEF a
    <2> HIDE DEF r
    <2> QED
      BY <1>0, <2>1, <2>2, <2>3, StartEraseType
  <1>2. CASE RescueFrontFull
    <2>1. pc = "full" /\ \/ Return(ni, FALSE)
                         \/ \E b \in nmbm_try_reserve_blocks(ni, ni.next) :
                               StartWrite(ni, b, ni.top, "rescue next") /\ Going
      BY <1>2 DEF RescueFrontFull, Full
    <2>2. "rescue next" \in Writes
      BY DEF Writes
    <2> QED
      BY <1>0, <2>1, <2>2, ReservedBlocks, ReturnType, WriteGoesOnType
  <1>3. CASE RescueNextWritten
    <2>1. pc = "written" /\ StartErase(ni, ni.next, wr.ba) /\ Going
      BY <1>3 DEF RescueNextWritten, Written
    <2>2. wr.ba \in Blocks /\ wr.ba + 1 \in Blocks
      BY <2>1, StepTypes
    <2> QED
      BY <1>0, <2>1, <2>2, BlockNumbers, StartEraseType
  <1>4. CASE RescueNextEarlier
    BY <1>4, EarlierType DEF RescueNextEarlier, Writes
  <1>5. CASE RescueNextFull
    <2>1. pc = "full" /\ Return(ni, FALSE)
      BY <1>5 DEF RescueNextFull, Full
    <2> QED
      BY <1>0, <2>1, ReturnType
  <1> QED
    BY <1>1, <1>2, <1>3, <1>4, <1>5

\* The erase of the spare blocks has ended.
LEMMA EraseEndsType ==
    ASSUME TypeInv, EraseEnds
    PROVE  TypeInv'
  <1> DEFINE a == wr.tmp
             b == wr.tmp + 1
             r == Clean([ni EXCEPT !.backup = a, !.next = b])
  <1>1. pc = "erase" /\ (Return(ni, TRUE) \/ (wr.for = "rescue next" /\ Return(r, TRUE)))
    BY DEF EraseEnds
  <1>2. CASE Return(ni, TRUE)
    BY <1>1, <1>2, StepTypes, ReturnType
  <1>3. CASE wr.for = "rescue next" /\ Return(r, TRUE)
    <2>1. a \in Blocks /\ b \in Blocks
      BY <1>1, <1>3, StepTypes DEF TypeInv, StepType
    <2>2. Like(r, ni)
      <3> HIDE DEF a, b
      <3> QED
        BY <2>1, SetTables
    <2> HIDE DEF r
    <2> QED
      BY <1>1, <1>3, <2>2, ReturnType
  <1> QED
    BY <1>1, <1>2, <1>3

\* The steps of nmbm_update_single_info_table.
LEMMA SingleStepsType ==
    ASSUME TypeInv,
           SingleMainWritten \/ SingleMainFull \/ SingleBackupWritten \/ SingleBackupFull
    PROVE  TypeInv'
  <1> DEFINE b == wr.ba
             c == wr.ba + 1
             k == ni.backup
  <1>0. ni \in Instance /\ k \in Blocks /\ 0 \in Blocks /\ MgmtStart \in Blocks
        /\ (pc = "written" => b \in Blocks /\ c \in Blocks)
    BY StepTypes, InstanceFields, BlockNumbers
  <1>1. CASE SingleMainWritten
    <2> DEFINE r == Clean([ni EXCEPT !.main = b])
    <2>1. pc = "written" /\ Return(r, TRUE)
      BY <1>1 DEF SingleMainWritten, Written
    <2>2. Like(r, ni)
      <3> HIDE DEF b
      <3> QED
        BY <1>0, <2>1, SetTables
    <2> HIDE DEF r
    <2> QED
      BY <2>1, <2>2, ReturnType
  <1>2. CASE SingleMainFull
    <2> DEFINE r == [ni EXCEPT !.main = k, !.backup = 0]
    <2>1. pc = "full" /\ StartWrite(r, MgmtStart, r.main, "rescue front") /\ Going
      BY <1>2 DEF SingleMainFull, Full, nmbm_rescue_single_info_table
    <2>2. Like(r, ni)
      <3> HIDE DEF k
      <3> QED
        BY <1>0, SetTables
    <2> HIDE DEF r
    <2>3. r.main \in Blocks
      BY <2>2, InstanceFields DEF Like
    <2>4. "rescue front" \in Writes
      BY DEF Writes
    <2> QED
      BY <1>0, <2>1, <2>2, <2>3, <2>4, WriteGoesOnType
  <1>3. CASE SingleBackupWritten
    <2> DEFINE r == Clean([ni EXCEPT !.backup = b, !.next = c])
    <2>1. pc = "written" /\ Return(r, TRUE)
      BY <1>3 DEF SingleBackupWritten, Written
    <2>2. Like(r, ni)
      <3> HIDE DEF b, c
      <3> QED
        BY <1>0, <2>1, SetTables
    <2> HIDE DEF r
    <2> QED
      BY <2>1, <2>2, ReturnType
  <1>4. CASE SingleBackupFull
    <2> DEFINE r == [ni EXCEPT !.next = k, !.backup = 0]
    <2>1. pc = "full" /\ Return(r, FALSE)
      BY <1>4 DEF SingleBackupFull, Full
    <2>2. Like(r, ni)
      <3> HIDE DEF k
      <3> QED
        BY <1>0, SetTables
    <2> HIDE DEF r
    <2> QED
      BY <2>1, <2>2, ReturnType
  <1> QED
    BY <1>1, <1>2, <1>3, <1>4

\* WriteMain.
LEMMA WriteMainType ==
    ASSUME TypeInv, NEW n, Like(n, ni), NEW lim \in Blocks, WriteMain(n, lim), Going, pc # "idle"
    PROVE  TypeInv'
  <1>1. CASE nmbm_rebuild_info_table(n)
    BY <1>1, RebuildType
  <1>2. CASE StartWrite(n, n.main, lim, "once main")
    <2>1. n.main \in Blocks /\ "once main" \in Writes
      BY InstanceFields DEF Like, Writes
    <2> QED
      BY <1>2, <2>1, WriteGoesOnType
  <1> QED
    BY <1>1, <1>2 DEF WriteMain

\* The steps of nmbm_update_info_table_once.
LEMMA OnceStepsType ==
    ASSUME TypeInv, OnceBackupWritten \/ OnceBackupFull \/ OnceMainWritten \/ OnceMainFull
    PROVE  TypeInv'
  <1> DEFINE b == wr.ba
             c == wr.ba + 1
             k == ni.backup
  <1>0. ni \in Instance /\ Like(ni, ni) /\ k \in Blocks /\ 0 \in Blocks /\ ni.next \in Blocks
        /\ ni.top \in Blocks /\ (pc = "written" => b \in Blocks /\ c \in Blocks)
    BY StepTypes, InstanceFields, BlockNumbers
  <1>1. CASE OnceBackupWritten
    <2> DEFINE r == Clean([ni EXCEPT !.backup = b, !.next = c])
    <2>1. pc = "written" /\ WriteMain(r, b) /\ Going
      BY <1>1 DEF OnceBackupWritten, Written
    <2>2. Like(r, ni)
      <3> HIDE DEF b, c
      <3> QED
        BY <1>0, <2>1, SetTables
    <2> HIDE DEF r
    <2> QED
      BY <1>0, <2>1, <2>2, WriteMainType
  <1>2. CASE OnceBackupFull
    <2> DEFINE r == [ni EXCEPT !.next = k, !.backup = 0]
    <2>1. pc = "full" /\ WriteMain(r, ni.top) /\ Going
      BY <1>2 DEF OnceBackupFull, Full
    <2>2. Like(r, ni)
      <3> HIDE DEF k
      <3> QED
        BY <1>0, SetTables
    <2> HIDE DEF r
    <2> QED
      BY <1>0, <2>1, <2>2, WriteMainType
  <1>3. CASE OnceMainWritten
    <2> DEFINE d == IF ni.backup = 0 THEN wr.ba + 1 ELSE ni.next
               r == Clean([ni EXCEPT !.main = b, !.next = d])
    <2>1. pc = "written" /\ Return(r, TRUE)
      BY <1>3 DEF OnceMainWritten, Written
    <2>2. d \in Blocks
      BY <1>0, <2>1
    <2>3. Like(r, ni)
      <3> HIDE DEF b, d
      <3> QED
        BY <1>0, <2>1, <2>2, SetTables
    <2> HIDE DEF r
    <2> QED
      BY <2>1, <2>3, ReturnType
  <1>4. CASE OnceMainFull
    <2> DEFINE r == [ni EXCEPT !.main = k, !.backup = 0]
    <2>1. pc = "full" /\ \/ nmbm_rebuild_info_table(ni) /\ Going
                         \/ Return(r, TRUE)
                         \/ \E a \in nmbm_try_reserve_blocks(ni, ni.next) :
                               StartWrite(ni, a, ni.top, "temporary") /\ Going
      BY <1>4 DEF OnceMainFull, Full, BackupBecomesMain
    <2>2. Like(r, ni)
      <3> HIDE DEF k
      <3> QED
        BY <1>0, SetTables
    <2> HIDE DEF r
    <2>3. CASE nmbm_rebuild_info_table(ni) /\ Going
      BY <1>0, <2>1, <2>3, RebuildType
    <2>4. CASE Return(r, TRUE)
      BY <2>1, <2>2, <2>4, ReturnType
    <2>5. ASSUME NEW a \in nmbm_try_reserve_blocks(ni, ni.next),
                 StartWrite(ni, a, ni.top, "temporary"), Going
          PROVE  TypeInv'
      <3>1. a \in Blocks /\ "temporary" \in Writes
        BY <2>5, ReservedBlocks DEF Writes
      <3> QED
        BY <1>0, <2>1, <2>5, <3>1, WriteGoesOnType
    <2> QED
      BY <2>1, <2>3, <2>4, <2>5
  <1> QED
    BY <1>1, <1>2, <1>3, <1>4

\* The steps of nmbm_rescue_main_info_table.
LEMMA TemporaryStepsType ==
    ASSUME TypeInv,
           \/ TemporaryEarlier \/ TemporaryFull \/ TemporaryWritten
           \/ MainAgainWritten \/ MainAgainFull
    PROVE  TypeInv'
  <1> DEFINE b == wr.ba
             c == wr.ba + 1
             k == ni.backup
             p == wr.tmp
  <1>0. ni \in Instance /\ k \in Blocks /\ 0 \in Blocks /\ p \in Blocks /\ MgmtStart \in Blocks
        /\ (pc = "written" => b \in Blocks /\ c \in Blocks)
    BY StepTypes, InstanceFields, BlockNumbers
  <1>1. CASE TemporaryEarlier
    BY <1>1, EarlierType DEF TemporaryEarlier, Writes
  <1>2. CASE TemporaryFull
    <2> DEFINE r == [ni EXCEPT !.main = k, !.backup = 0]
    <2>1. pc = "full" /\ Return(r, TRUE)
      BY <1>2 DEF TemporaryFull, Full, BackupBecomesMain
    <2>2. Like(r, ni)
      <3> HIDE DEF k
      <3> QED
        BY <1>0, SetTables
    <2> HIDE DEF r
    <2> QED
      BY <2>1, <2>2, ReturnType
  <1>3. CASE TemporaryWritten
    <2> DEFINE r == [ni EXCEPT !.next = c]
    <2>1. /\ pc = "written" /\ ni' = r /\ pc' = "write" /\ Going
          /\ wr' = [ba |-> MgmtStart, lim |-> b, from |-> MgmtStart, tmp |-> b,
                    for |-> "main again"]
      BY <1>3 DEF TemporaryWritten, Written
    <2>2. Like(r, ni)
      <3> HIDE DEF c
      <3> QED
        BY <1>0, <2>1, LikeOne
    <2> HIDE DEF r
    <2>3. UNCHANGED <<flash, marks, acked, lost, saved, faults, env, req>>
      BY <2>1 DEF Going, Memory, chip
    <2>4. wr' \in Span
      <3>1. b \in Blocks
        BY <1>0, <2>1
      <3> HIDE DEF b
      <3> QED
        BY <1>0, <2>1, <3>1, BlockNumbers DEF Span, Writes
    <2>5. ChipType'
      BY <2>3 DEF TypeInv, ChipType
    <2>6. MemoryType'
      BY <2>1, <2>2, <2>3, <2>4 DEF TypeInv, MemoryType, Like, PCs
    <2>7. StepType'
      BY <2>1, <2>2, <2>3 DEF TypeInv, StepType, Like
    <2> QED
      BY <2>5, <2>6, <2>7 DEF TypeInv
  <1>4. CASE MainAgainWritten
    <2> DEFINE r == Clean([ni EXCEPT !.main = b, !.backup = p])
    <2>1. pc = "written" /\ Return(r, TRUE)
      BY <1>4 DEF MainAgainWritten, Written
    <2>2. Like(r, ni)
      <3> HIDE DEF b, p
      <3> QED
        BY <1>0, <2>1, SetTables
    <2> HIDE DEF r
    <2> QED
      BY <2>1, <2>2, ReturnType
  <1>5. CASE MainAgainFull
    <2> DEFINE r == Clean([ni EXCEPT !.main = p, !.backup = 0])
    <2>1. pc = "full" /\ Return(r, TRUE)
      BY <1>5 DEF MainAgainFull, Full
    <2>2. Like(r, ni)
      <3> HIDE DEF p
      <3> QED
        BY <1>0, SetTables
    <2> HIDE DEF r
    <2> QED
      BY <2>1, <2>2, ReturnType
  <1> QED
    BY <1>1, <1>2, <1>3, <1>4, <1>5

\* nmbm_update_info_table.
LEMMA UpdateStepsType ==
    ASSUME TypeInv, UpdateEnds \/ UpdateOnce
    PROVE  TypeInv'
  <1>0. ni \in Instance /\ req \in Call /\ Like(ni, ni)
    BY StepTypes
  <1>1. CASE UpdateEnds
    <2>1. /\ pc = "update" /\ UpdateReturn(ni, TRUE)
          /\ UNCHANGED <<flash, marks, wr, acked, lost, faults, env>>
      BY <1>1 DEF UpdateEnds, Memory, chip
    <2> QED
      BY <1>0, <2>1, UpdateReturnType, GoesOnType
  <1>2. CASE UpdateOnce
    <2> DEFINE n == nmbm_generate_info_table_cache(ni)
    <2>1. /\ pc = "update" /\ nmbm_update_info_table_once(n)
          /\ req' = [req EXCEPT !.table = "update"]
          /\ UNCHANGED <<flash, marks, acked, lost, saved, faults, env>>
      BY <1>2 DEF UpdateOnce, Memory, chip
    <2>2. Like(n, ni)
      BY <1>0, LikeCache
    <2> HIDE DEF n
    <2>3. req' \in Call /\ req'.op = req.op /\ req'.lb = req.lb
      BY <1>0, <2>1 DEF Call
    <2>4. n \in Instance
      BY <2>2 DEF Like
    <2>5. n.main \in Blocks /\ n.backup \in Blocks /\ n.top \in Blocks
      BY <2>4, InstanceFields
    <2>6. CASE nmbm_rebuild_info_table(n)
      <3> DEFINE t == n.top
                 r == [n EXCEPT !.main = 0, !.backup = 0, !.next = t]
      <3>1. Like(r, n)
        <4> HIDE DEF t
        <4> QED
          BY <2>4, <2>5, LikeAll, BlockNumbers DEF t
      <3>2. Like(r, ni)
        BY <2>2, <3>1, LikeLike
      <3>3. StartWrite(r, MgmtStart, n.top, "rebuild main")
        BY <2>6 DEF nmbm_rebuild_info_table
      <3>4. "rebuild main" \in Writes
        BY DEF Writes
      <3> HIDE DEF r
      <3> QED
        BY <2>1, <2>3, <2>5, <3>2, <3>3, <3>4, BlockNumbers, StartWriteType
    <2>7. CASE StartWrite(n, n.main, n.top, "once main")
      <3>1. "once main" \in Writes
        BY DEF Writes
      <3> QED
        BY <2>1, <2>2, <2>3, <2>5, <2>7, <3>1, StartWriteType
    <2>8. CASE StartWrite(n, n.backup, n.top, "once backup")
      <3>1. "once backup" \in Writes
        BY DEF Writes
      <3> QED
        BY <2>1, <2>2, <2>3, <2>5, <2>8, <3>1, StartWriteType
    <2> QED
      BY <2>1, <2>6, <2>7, <2>8 DEF nmbm_update_info_table_once, WriteMain
  <1> QED
    BY <1>1, <1>2

\* The steps of the functions that write tables.
LEMMA TableStepsType ==
    ASSUME TypeInv, TableSteps
    PROVE  TypeInv'
  BY RebuildStepsType, RescueStepsType, EraseEndsType, SingleStepsType, OnceStepsType,
     TemporaryStepsType, UpdateStepsType DEF TableSteps

\* The fields of the range that is written.
LEMMA SpanNext ==
    ASSUME NEW w \in Span, NEW b \in 0 .. BlockCount
    PROVE  /\ [w EXCEPT !.ba = b] \in Span /\ [w EXCEPT !.ba = b].ba = b
           /\ [w EXCEPT !.ba = b].for = w.for /\ [w EXCEPT !.ba = b].tmp = w.tmp
  BY DEF Span

\* The block behind one that can be written, or passed over.
LEMMA BehindType ==
    ASSUME TypeInv, wr.ba < wr.lim
    PROVE  /\ wr.ba \in Blocks
           /\ wr' = [wr EXCEPT !.ba = wr.ba + 1] =>
                 wr' \in Span /\ wr'.for = wr.for /\ wr'.tmp = wr.tmp
  <1> DEFINE b == wr.ba + 1
  <1>1. wr \in Span /\ wr.lim \in Blocks /\ wr.ba \in 0 .. BlockCount
    BY StepTypes
  <1>2. wr.ba \in Blocks /\ b \in 0 .. BlockCount
    BY <1>1, BlockNumbers DEF Blocks
  <1> HIDE DEF b
  <1>3. wr' = [wr EXCEPT !.ba = b] => wr' \in Span /\ wr'.for = wr.for /\ wr'.tmp = wr.tmp
    BY <1>1, <1>2, SpanNext
  <1> QED
    BY <1>2, <1>3 DEF b

\* The content of a block changes.
LEMMA ContentSet ==
    ASSUME NEW f \in [Blocks -> Content], NEW b \in Blocks, NEW c \in Content
    PROVE  [f EXCEPT ![b] = c] \in [Blocks -> Content]
  OBVIOUS

\* What the driver writes.
LEMMA Contents ==
    /\ Empty \in Content /\ Torn \in Content /\ Signature \in Content
    /\ \A t \in Table : t \in Content
    /\ \A lb \in Logical, n \in 0 .. Pages : Data(lb, n) \in Content /\ Page(lb, n) \in Content
  BY DEF Content, Data, Page

\* An erase or program operation fails.
LEMMA FailsType ==
    ASSUME TypeInv, wr.ba \in Blocks, BlockFails
    PROVE  ChipType' /\ Like(ni', ni) /\ saved' = saved /\ acked' = acked
  <1>1. /\ env.wear > 0 /\ env' = [env EXCEPT !.wear = env.wear - 1]
        /\ ni' = nmbm_set_bad(ni, wr.ba) /\ acked' = acked /\ lost' = lost /\ saved' = saved
    BY DEF BlockFails
  <1>2. PICK c \in {Torn, flash[wr.ba]}, m \in {{}, {wr.ba}} :
          /\ flash' = [flash EXCEPT ![wr.ba] = c]
          /\ marks' = marks \cup m
          /\ faults' = faults \cup
                IF m # {} \/ c.kind # "table" THEN {}
                ELSE IF "stale" \in faults THEN {"two stale"} ELSE {"stale"}
    BY DEF BlockFails
  <1>3. Like(ni', ni)
    BY <1>1, StepTypes, LikeBad
  <1>4. flash' \in [Blocks -> Content]
    <2>1. flash \in [Blocks -> Content]
      BY DEF TypeInv, ChipType
    <2>2. c \in Content
      BY <2>1, Contents
    <2> QED
      BY <1>2, <2>1, <2>2, ContentSet
  <1>5. marks' \subseteq Blocks /\ faults' \subseteq Faults
    BY <1>2 DEF TypeInv, ChipType, Faults
  <1>6. env' \in Bounds
    <2> DEFINE w == env.wear - 1
    <2>1. env \in Bounds
      BY DEF TypeInv, ChipType
    <2>2. env.wear \in Nat
      BY <2>1 DEF Bounds
    <2>3. w \in Nat
      BY <1>1, <2>2
    <2> HIDE DEF w
    <2> QED
      BY <1>1, <2>1, <2>3 DEF Bounds, w
  <1> QED
    BY <1>1, <1>3, <1>4, <1>5, <1>6 DEF TypeInv, ChipType

\* The steps of nmbm_write_mgmt_range and nmbm_erase_range.
LEMMA WriteStepsType ==
    ASSUME TypeInv,
           \/ WriteSkips \/ WriteSucceeds \/ WriteFails \/ WriteRunsOut
           \/ EraseSkips \/ EraseSucceeds \/ EraseFails
    PROVE  TypeInv'
  <1>0. ni \in Instance /\ wr \in Span /\ req \in Call /\ Like(ni, ni)
        /\ flash \in [Blocks -> Content]
    BY StepTypes DEF TypeInv, ChipType
  <1>1. CASE WriteSkips \/ EraseSkips
    <2>1. /\ pc \in {"write", "erase"} /\ pc' = pc /\ wr.ba < wr.lim
          /\ ni' = nmbm_set_bad(ni, wr.ba) /\ wr' = [wr EXCEPT !.ba = wr.ba + 1]
          /\ UNCHANGED <<flash, marks, req, acked, lost, saved, faults, env>>
      BY <1>1 DEF WriteSkips, EraseSkips, Skip, chip, seen
    <2>2. wr.ba \in Blocks /\ wr' \in Span /\ wr'.for = wr.for /\ wr'.tmp = wr.tmp
      BY <2>1, BehindType
    <2>3. Like(ni', ni)
      BY <1>0, <2>1, <2>2, LikeBad
    <2>4. ChipType'
      BY <2>1 DEF TypeInv, ChipType
    <2>5. MemoryType'
      BY <2>1, <2>2, <2>3 DEF TypeInv, MemoryType, Like
    <2>6. StepType'
      BY <2>1, <2>2, <2>3 DEF TypeInv, StepType, Like
    <2> QED
      BY <2>4, <2>5, <2>6 DEF TypeInv
  <1>2. CASE WriteSucceeds
    <2>1. /\ pc = "write" /\ pc' = "written" /\ wr.ba < wr.lim
          /\ flash' = [flash EXCEPT ![wr.ba] = ni.cache]
          /\ UNCHANGED <<marks, ni, wr, req, acked, lost, saved, faults, env>>
      BY <1>2 DEF WriteSucceeds, Usable, seen
    <2>2. wr.ba \in Blocks /\ ni.cache \in Content
      BY <1>0, <2>1, BehindType, InstanceFields, Contents
    <2>3. ChipType'
      BY <1>0, <2>1, <2>2, ContentSet DEF TypeInv, ChipType
    <2>4. MemoryType'
      BY <2>1 DEF TypeInv, MemoryType, PCs
    <2>5. StepType'
      BY <2>1 DEF TypeInv, StepType
    <2> QED
      BY <2>3, <2>4, <2>5 DEF TypeInv
  <1>3. CASE WriteFails \/ EraseFails
    <2>1. /\ pc \in {"write", "erase"} /\ pc' = pc /\ wr.ba < wr.lim /\ BlockFails
          /\ wr' = [wr EXCEPT !.ba = wr.ba + 1] /\ req' = req
      BY <1>3 DEF WriteFails, EraseFails, Usable
    <2>2. wr.ba \in Blocks /\ wr' \in Span /\ wr'.for = wr.for /\ wr'.tmp = wr.tmp
      BY <2>1, BehindType
    <2>3. ChipType' /\ Like(ni', ni) /\ saved' = saved /\ acked' = acked
      BY <2>1, <2>2, FailsType
    <2>4. MemoryType'
      BY <2>1, <2>2, <2>3 DEF TypeInv, MemoryType, Like
    <2>5. StepType'
      BY <2>1, <2>2, <2>3 DEF TypeInv, StepType, Like
    <2> QED
      BY <2>3, <2>4, <2>5 DEF TypeInv
  <1>4. CASE WriteRunsOut
    <2>1. /\ pc = "write" /\ pc' = "full"
          /\ UNCHANGED <<flash, marks, ni, wr, req, acked, lost, saved, faults, env>>
      BY <1>4 DEF WriteRunsOut, chip, seen
    <2>2. ChipType'
      BY <2>1 DEF TypeInv, ChipType
    <2>3. MemoryType'
      BY <2>1 DEF TypeInv, MemoryType, PCs
    <2>4. StepType'
      BY <2>1 DEF TypeInv, StepType
    <2> QED
      BY <2>2, <2>3, <2>4 DEF TypeInv
  <1>5. CASE EraseSucceeds
    <2>1. /\ pc = "erase" /\ pc' = pc /\ wr.ba < wr.lim
          /\ flash' = [flash EXCEPT ![wr.ba] = Empty]
          /\ wr' = [wr EXCEPT !.ba = wr.ba + 1]
          /\ UNCHANGED <<marks, ni, req, acked, lost, saved, faults, env>>
      BY <1>5 DEF EraseSucceeds, Usable, seen
    <2>2. wr.ba \in Blocks /\ wr' \in Span /\ wr'.for = wr.for /\ wr'.tmp = wr.tmp
      BY <2>1, BehindType
    <2>3. ChipType'
      BY <1>0, <2>1, <2>2, ContentSet, Contents DEF TypeInv, ChipType
    <2>4. MemoryType'
      BY <2>1, <2>2 DEF TypeInv, MemoryType
    <2>5. StepType'
      BY <2>1, <2>2 DEF TypeInv, StepType
    <2> QED
      BY <2>3, <2>4, <2>5 DEF TypeInv
  <1> QED
    BY <1>1, <1>2, <1>3, <1>4, <1>5

\* No request.
LEMMA NoCall ==
    /\ NoReq \in Call /\ NoReq.op = "none"
    /\ \A t \in {"none", "create", "load", "update"} :
          [NoReq EXCEPT !.table = t] \in Call /\ [NoReq EXCEPT !.table = t].op = "none"
  <1>1. 0 \in Logical /\ 0 \in 0 .. Retries /\ 0 \in Blocks
    BY GeometryAssumption, PagesAssumption, BlockNumbers DEF Logical
  <1>2. NoReq \in Call /\ NoReq.op = "none"
    BY <1>1 DEF NoReq, Call
  <1>3. ASSUME NEW t \in {"none", "create", "load", "update"}
        PROVE  [NoReq EXCEPT !.table = t] \in Call /\ [NoReq EXCEPT !.table = t].op = "none"
    BY <1>2 DEF Call
  <1> QED
    BY <1>2, <1>3

\* nmbm_create_info_table.
LEMMA CreateType ==
    ASSUME ChipType', saved' \subseteq Mapping, wr \in Span, NEW n \in Instance,
           nmbm_create_info_table(n)
    PROVE  TypeInv'
  <1> DEFINE tops == SkipDown(Descending(n, n.sig, MgmtStart), 1)
             q == [NoReq EXCEPT !.table = "create"]
  <1>1. req' = q
    BY DEF nmbm_create_info_table
  <1>2. q \in Call /\ q.op = "none"
    BY NoCall
  <1>3. CASE ni' = n /\ pc' = "dead" /\ wr' = wr
    <2>1. MemoryType'
      BY <1>1, <1>2, <1>3 DEF MemoryType, PCs
    <2>2. StepType'
      BY <1>1, <1>2, <1>3 DEF StepType
    <2> QED
      BY <2>1, <2>2 DEF TypeInv
  <1>4. ASSUME NEW t \in tops,
               nmbm_rebuild_info_table(nmbm_generate_info_table_cache([n EXCEPT !.top = t]))
        PROVE  TypeInv'
    <2> DEFINE r == nmbm_generate_info_table_cache([n EXCEPT !.top = t])
               u == r.top
               z == [r EXCEPT !.main = 0, !.backup = 0, !.next = u]
    <2>1. t \in Blocks
      BY <1>4 DEF SkipDown, Descending
    <2>2. [n EXCEPT !.top = t] \in Instance
      BY <2>1, LikeOne DEF Like
    <2>3. r \in Instance
      BY <2>2, LikeCache DEF Like
    <2>4. u \in Blocks
      <3> HIDE DEF r
      <3> QED
        BY <2>3, InstanceFields
    <2>5. z \in Instance
      <3> HIDE DEF r, u
      <3> QED
        BY <2>3, <2>4, LikeAll, BlockNumbers DEF Like
    <2>6. StartWrite(z, MgmtStart, u, "rebuild main")
      BY <1>4 DEF nmbm_rebuild_info_table
    <2> HIDE DEF r, u, z
    <2>7. ni' = z /\ pc' = "write"
          /\ wr' = [wr EXCEPT !.ba = MgmtStart, !.lim = u, !.from = MgmtStart,
                              !.for = "rebuild main"]
      BY <2>6 DEF StartWrite
    <2>8. wr' \in Span
      BY <2>4, <2>7, BlockNumbers DEF Span, Writes
    <2>9. MemoryType'
      BY <1>1, <1>2, <2>5, <2>7, <2>8 DEF MemoryType, PCs
    <2>10. StepType'
      BY <1>1, <1>2, <2>7 DEF StepType
    <2> QED
      BY <2>9, <2>10 DEF TypeInv
  <1> QED
    BY <1>3, <1>4 DEF nmbm_create_info_table

\* nmbm_write_signature.
LEMMA SignatureStepsType ==
    ASSUME TypeInv, SignatureSucceeds \/ SignatureFails \/ SignatureRunsOut
    PROVE  TypeInv'
  <1> DEFINE b == wr.ba
  <1>0. ni \in Instance /\ wr \in Span /\ req \in Call /\ Like(ni, ni) /\ pc = "signature"
        /\ flash \in [Blocks -> Content] /\ saved \subseteq Mapping /\ b \in Blocks
    BY StepTypes DEF TypeInv, ChipType, MemoryType, StepType, SignatureSucceeds,
                     SignatureFails, SignatureRunsOut
  <1>1. CASE SignatureSucceeds
    <2> DEFINE n == [ni EXCEPT !.sig = b]
    <2>1. /\ flash' = [flash EXCEPT ![b] = Signature] /\ nmbm_create_info_table(n)
          /\ UNCHANGED <<marks, acked, lost, saved, faults, env>>
      BY <1>1 DEF SignatureSucceeds, seen
    <2>2. n \in Instance
      <3> HIDE DEF b
      <3> QED
        BY <1>0, LikeOne DEF Like
    <2>3. ChipType'
      BY <1>0, <2>1, ContentSet, Contents DEF TypeInv, ChipType
    <2> HIDE DEF n
    <2> QED
      BY <1>0, <2>1, <2>2, <2>3, CreateType
  <1>2. CASE SignatureFails
    <2> DEFINE c == b - 1
    <2>1. /\ pc' = pc /\ req' = req /\ b > MgmtStart /\ wr' = [wr EXCEPT !.ba = c]
          /\ \/ UNCHANGED <<flash, marks, ni, acked, lost, saved, faults, env>>
             \/ BlockFails
      BY <1>2 DEF SignatureFails, chip, seen
    <2>2. c \in Blocks /\ c \in 0 .. BlockCount
      BY <1>0, <2>1, BlockNumbers DEF Blocks
    <2>3. ChipType' /\ Like(ni', ni) /\ saved' = saved /\ acked' = acked
      <3>1. CASE UNCHANGED <<flash, marks, ni, acked, lost, saved, faults, env>>
        BY <1>0, <3>1 DEF TypeInv, ChipType
      <3>2. CASE BlockFails
        BY <1>0, <3>2, FailsType
      <3> QED
        BY <2>1, <3>1, <3>2
    <2> HIDE DEF c
    <2>4. wr' \in Span /\ wr'.ba = c /\ wr'.for = wr.for /\ wr'.tmp = wr.tmp
      BY <1>0, <2>1, <2>2, SpanNext
    <2>5. MemoryType'
      BY <1>0, <2>1, <2>3, <2>4 DEF TypeInv, MemoryType, Like
    <2>6. StepType'
      BY <1>0, <2>1, <2>2, <2>3, <2>4 DEF TypeInv, StepType, Like
    <2> QED
      BY <2>3, <2>5, <2>6 DEF TypeInv
  <1>3. CASE SignatureRunsOut
    <2>1. /\ pc' = "dead"
          /\ UNCHANGED <<flash, marks, ni, wr, req, acked, lost, saved, faults, env>>
      BY <1>3 DEF SignatureRunsOut, chip, seen
    <2>2. ChipType'
      BY <2>1 DEF TypeInv, ChipType
    <2>3. MemoryType'
      BY <2>1 DEF TypeInv, MemoryType, PCs
    <2>4. StepType'
      BY <1>0, <2>1 DEF TypeInv, StepType
    <2> QED
      BY <2>2, <2>3, <2>4 DEF TypeInv
  <1> QED
    BY <1>1, <1>2, <1>3

\* bbt_nand_copy copies pages.
LEMMA CopiedContent ==
    ASSUME NEW src \in Content, NEW n \in 0 .. Pages, NEW c \in Copied(src, n)
    PROVE  c \in Content
  <1>1. CASE src.kind = "torn" \/ n = 0
    BY <1>1, Contents DEF Copied
  <1>2. CASE ~(src.kind = "torn" \/ n = 0) /\ src.kind # "data"
    BY <1>2, Contents DEF Copied
  <1>3. CASE ~(src.kind = "torn" \/ n = 0) /\ src.kind = "data"
    <2> DEFINE most == IF src.pages < n THEN src.pages ELSE n
    <2>1. src.lb \in Logical /\ src.pages \in 0 .. Pages
      BY <1>3 DEF Content, Empty, Torn, Signature, Table
    <2>2. most \in 0 .. Pages
      BY <2>1
    <2>3. \E p \in (0 .. most - 1) \cup {most} : c = IF p = 0 THEN Empty ELSE Data(src.lb, p)
      BY <1>3 DEF Copied
    <2>4. \A p \in (0 .. most - 1) \cup {most} : p \in 0 .. Pages
      <3> HIDE DEF most
      <3> QED
        BY <2>2, PagesAssumption
    <2> HIDE DEF most
    <2> QED
      BY <2>1, <2>3, <2>4, Contents
  <1> QED
    BY <1>1, <1>2, <1>3

\* The block a request is mapped to.
LEMMA MappedBlock ==
    ASSUME TypeInv, req.op # "none"
    PROVE  ni.map[req.lb] \in Blocks /\ req.lb \in Logical /\ req.old \in Blocks
  <1>1. req.lb \in Logical /\ req.old \in Blocks /\ ni.map \in Mapping
    BY StepTypes, CallFields, InstanceFields
  <1>2. ni.map[req.lb] # Unmapped
    BY DEF TypeInv, StepType
  <1> QED
    BY <1>1, <1>2 DEF Mapping

\* The wear bound.
LEMMA WearType ==
    ASSUME TypeInv, env.wear > 0, env' = [env EXCEPT !.wear = env.wear - 1]
    PROVE  env' \in Bounds
  <1> DEFINE w == env.wear - 1
  <1>1. env \in Bounds
    BY DEF TypeInv, ChipType
  <1>2. env.wear \in Nat
    BY <1>1 DEF Bounds
  <1>3. w \in Nat
    BY <1>2
  <1> HIDE DEF w
  <1> QED
    BY <1>1, <1>3 DEF Bounds, w

\* The number of pages that are copied.
LEMMA CopyLenType ==
    ASSUME TypeInv, req.op # "none"
    PROVE  CopyLen \in 0 .. Pages
  <1>1. acked[req.lb] \in 0 .. Pages
    BY MappedBlock DEF TypeInv, ChipType
  <1>2. 0 \in 0 .. Pages /\ Pages \in 0 .. Pages
    BY PagesAssumption
  <1> QED
    BY <1>1, <1>2 DEF CopyLen

\* The chip and the request have their types behind a step of a request.
LEMMA RequestStepType ==
    ASSUME TypeInv, ChipType', req' \in Call, req'.op # "none", req'.lb = req.lb,
           UNCHANGED <<ni, wr, saved>>, pc' \in {"idle", "map", "update"},
           req.op # "none", req'.op = "write" => req.op = "write", pc # "idle",
           pc' # "idle" => acked' = acked
    PROVE  TypeInv'
  <1>1. MemoryType'
    BY DEF TypeInv, MemoryType, PCs
  <1>2. StepType'
    BY DEF TypeInv, StepType
  <1> QED
    BY <1>1, <1>2 DEF TypeInv

\* bbt_nand_copy in remap_block_nmbm.
LEMMA CopyStepsType ==
    ASSUME TypeInv, CopySucceeds \/ CopyFails
    PROVE  TypeInv'
  <1> DEFINE pb == ni.map[req.lb]
  <1>1. pc = "copy" /\ pc' = "update" /\ req' = [req EXCEPT !.update = "remap"]
        /\ UNCHANGED <<marks, ni, wr, acked, saved, faults>>
    BY DEF CopySucceeds, CopyFails, Updating, seen
  <1>2. req.op # "none" /\ req \in Call
    BY <1>1, StepTypes DEF TypeInv, StepType
  <1>3. pb \in Blocks /\ req.lb \in Logical /\ flash[req.old] \in Content
        /\ flash \in [Blocks -> Content]
    BY <1>2, MappedBlock DEF TypeInv, ChipType
  <1>4. req' \in Call /\ req'.op = req.op /\ req'.lb = req.lb
    BY <1>1, <1>2 DEF Call
  <1>5. ChipType'
    <2>1. CASE CopySucceeds
      <3>1. PICK c \in Copied(flash[req.old], CopyLen) : flash' = [flash EXCEPT ![pb] = c]
        BY <2>1 DEF CopySucceeds
      <3>2. c \in Content
        BY <1>2, <1>3, <3>1, CopyLenType, CopiedContent
      <3>3. flash' \in [Blocks -> Content]
        BY <1>3, <3>1, <3>2, ContentSet
      <3> QED
        BY <1>1, <2>1, <3>3 DEF TypeInv, ChipType, CopySucceeds, seen
    <2>2. CASE CopyFails
      <3>1. /\ env.wear > 0 /\ env' = [env EXCEPT !.wear = env.wear - 1]
            /\ flash' = [flash EXCEPT ![pb] = Torn] /\ lost' \in {lost, lost \cup {req.lb}}
        BY <2>2 DEF CopyFails
      <3>2. env' \in Bounds
        BY <3>1, WearType
      <3>3. flash' \in [Blocks -> Content]
        BY <1>3, <3>1, Contents, ContentSet
      <3>4. lost' \subseteq Logical
        BY <1>3, <3>1 DEF TypeInv, ChipType
      <3> QED
        BY <1>1, <3>2, <3>3, <3>4 DEF TypeInv, ChipType
    <2> QED
      BY <2>1, <2>2
  <1> QED
    BY <1>1, <1>2, <1>4, <1>5, RequestStepType

\* mtk_bmt_debug_repair behind the update.
LEMMA RepairStepsType ==
    ASSUME TypeInv, Repair \/ RepairFails
    PROVE  TypeInv'
  <1> DEFINE pb == ni.map[req.lb]
  <1>1. pc = "repair" /\ pc' = "idle" /\ UNCHANGED <<marks, ni, wr, req, acked, saved, faults>>
    BY DEF Repair, RepairFails, seen
  <1>2. req.op # "none" /\ req \in Call
    BY <1>1, StepTypes DEF TypeInv, StepType
  <1>3. pb \in Blocks /\ req.lb \in Logical /\ flash[req.old] \in Content
        /\ flash \in [Blocks -> Content]
    BY <1>2, MappedBlock DEF TypeInv, ChipType
  <1>4. ChipType'
    <2>1. CASE Repair
      <3>1. PICK c \in Copied(flash[req.old], Pages) :
               flash' = IF pb = req.old THEN flash ELSE [flash EXCEPT ![pb] = c]
        BY <2>1 DEF Repair
      <3>2. c \in Content
        BY <1>3, <3>1, PagesAssumption, CopiedContent
      <3>3. flash' \in [Blocks -> Content]
        BY <1>3, <3>1, <3>2, ContentSet
      <3> QED
        BY <1>1, <2>1, <3>3 DEF TypeInv, ChipType, Repair, seen
    <2>2. CASE RepairFails
      <3>1. /\ env.wear > 0 /\ env' = [env EXCEPT !.wear = env.wear - 1]
            /\ flash' = [flash EXCEPT ![pb] = Torn] /\ lost' = lost \cup {req.lb}
        BY <2>2 DEF RepairFails
      <3>2. env' \in Bounds
        BY <3>1, WearType
      <3>3. flash' \in [Blocks -> Content]
        BY <1>3, <3>1, Contents, ContentSet
      <3>4. lost' \subseteq Logical
        BY <1>3, <3>1 DEF TypeInv, ChipType
      <3> QED
        BY <1>1, <3>2, <3>3, <3>4 DEF TypeInv, ChipType
    <2> QED
      BY <2>1, <2>2
  <1> QED
    BY <1>1, <1>2, <1>4, RequestStepType

\* The operation of a request: mtk_bmt_read, _write, _mtd_erase, _block_isbad.
LEMMA RequestSucceedsType ==
    ASSUME TypeInv, RequestSucceeds
    PROVE  TypeInv'
  <1> DEFINE lb == req.lb
             pb == ni.map[req.lb]
             n == acked[req.lb] + 1
  <1>1. /\ pc = "request" /\ pc' = "idle" /\ UNCHANGED <<marks, ni, wr, req, saved, faults, env>>
        /\ acked' = acked \/ (req.op = "write" /\ acked' = [acked EXCEPT ![lb] = n])
        /\ lost' = lost \/ lost' = lost \ {lb}
        /\ \/ flash' = flash \/ flash' = [flash EXCEPT ![pb] = Empty]
           \/ req.op = "write" /\ flash' = [flash EXCEPT ![pb] = Data(lb, n)]
    <2>1. pc = "request" /\ pc' = "idle" /\ UNCHANGED <<marks, ni, wr, req, saved, faults, env>>
      BY DEF RequestSucceeds
    <2>2. acked' = acked \/ (req.op = "write" /\ acked' = [acked EXCEPT ![lb] = n])
      BY DEF RequestSucceeds
    <2>3. lost' = lost \/ lost' = lost \ {lb}
      BY DEF RequestSucceeds
    <2>4. \/ flash' = flash \/ flash' = [flash EXCEPT ![pb] = Empty]
          \/ req.op = "write" /\ flash' = [flash EXCEPT ![pb] = Data(lb, n)]
      BY DEF RequestSucceeds
    <2> QED
      BY <2>1, <2>2, <2>3, <2>4
  <1>2. req.op # "none" /\ req \in Call /\ (req.op = "write" => acked[lb] < Pages)
    BY <1>1, StepTypes DEF TypeInv, StepType
  <1>3. pb \in Blocks /\ lb \in Logical /\ flash \in [Blocks -> Content]
        /\ acked \in [Logical -> 0 .. Pages]
    BY <1>2, MappedBlock DEF TypeInv, ChipType
  <1>4. req.op = "write" => n \in 0 .. Pages
    <2>1. acked[lb] \in 0 .. Pages
      BY <1>3
    <2> QED
      BY <1>2, <2>1, PagesAssumption
  <1>5. flash' \in [Blocks -> Content]
    <2> HIDE DEF n, pb, lb
    <2>1. Empty \in Content /\ (req.op = "write" => Data(lb, n) \in Content)
      BY <1>3, <1>4, Contents
    <2> QED
      BY <1>1, <1>3, <2>1, ContentSet
  <1>6. acked' \in [Logical -> 0 .. Pages] /\ lost' \subseteq Logical
    <2> HIDE DEF n, pb, lb
    <2>1. lost \subseteq Logical
      BY DEF TypeInv, ChipType
    <2>2. req.op = "write" => [acked EXCEPT ![lb] = n] \in [Logical -> 0 .. Pages]
      BY <1>3, <1>4
    <2> QED
      BY <1>1, <1>3, <2>1, <2>2
  <1>7. ChipType'
    BY <1>1, <1>5, <1>6 DEF TypeInv, ChipType
  <1> QED
    BY <1>1, <1>2, <1>7, RequestStepType

\* A block of a request is to be replaced.
LEMMA RequestMapsType ==
    ASSUME TypeInv, ReadFindsBitflips \/ RequestFails \/ BlockIsBad
    PROVE  TypeInv'
  <1> DEFINE pb == ni.map[req.lb]
  <1>1. pc = "request" /\ pc' = "map" /\ UNCHANGED <<marks, ni, wr, acked, saved, faults>>
        /\ \/ req' = [req EXCEPT !.old = pb]
           \/ req' = [req EXCEPT !.op = "flips", !.old = pb]
        /\ \/ env' = env
           \/ env.wear > 0 /\ env' = [env EXCEPT !.wear = env.wear - 1]
        /\ \/ flash' = flash \/ \E c \in {flash[pb], Torn} : flash' = [flash EXCEPT ![pb] = c]
        /\ lost' \in {lost, lost \cup {req.lb}}
    BY DEF ReadFindsBitflips, RequestFails, BlockIsBad, seen, chip
  <1>2. req.op # "none" /\ req \in Call
    BY <1>1, StepTypes DEF TypeInv, StepType
  <1>3. pb \in Blocks /\ req.lb \in Logical /\ flash \in [Blocks -> Content]
    BY <1>2, MappedBlock DEF TypeInv, ChipType
  <1> HIDE DEF pb
  <1>4. req' \in Call /\ req'.op \in {req.op, "flips"} /\ req'.lb = req.lb
    <2>1. CASE req' = [req EXCEPT !.old = pb]
      BY <1>2, <1>3, <2>1, CallOld
    <2>2. CASE req' = [req EXCEPT !.op = "flips", !.old = pb]
      BY <1>2, <1>3, <2>2, CallOld
    <2> QED
      BY <1>1, <2>1, <2>2
  <1>5. flash' \in [Blocks -> Content]
    BY <1>1, <1>3, Contents, ContentSet
  <1>6. env' \in Bounds
    BY <1>1, WearType DEF TypeInv, ChipType
  <1>7. ChipType'
    BY <1>1, <1>3, <1>5, <1>6 DEF TypeInv, ChipType
  <1> QED
    BY <1>1, <1>2, <1>4, <1>7, RequestStepType

\* mtk_bmt_block_markbad marks the block.
LEMMA MarkBadType ==
    ASSUME TypeInv, MarkBad
    PROVE  TypeInv'
  <1>1. pc = "mark" /\ pc' = "idle" /\ marks' \in {marks, marks \cup {req.old}}
        /\ UNCHANGED <<flash, ni, wr, req, acked, lost, saved, faults, env>>
    BY DEF MarkBad, seen
  <1>2. req.op # "none" /\ req \in Call
    BY <1>1, StepTypes DEF TypeInv, StepType
  <1>3. ChipType'
    BY <1>1, <1>2, MappedBlock DEF TypeInv, ChipType
  <1> QED
    BY <1>1, <1>2, <1>3, RequestStepType

\* The steps that work on the chip.
LEMMA ChipStepsType ==
    ASSUME TypeInv, ChipSteps
    PROVE  TypeInv'
  BY WriteStepsType, SignatureStepsType, CopyStepsType, RepairStepsType, RequestSucceedsType,
     RequestMapsType, MarkBadType DEF ChipSteps

\* A block is mapped to a replacement from the pool.
LEMMA MapToType ==
    ASSUME NEW n \in Instance, NEW lb \in Logical, NEW pb \in Found(n)
    PROVE  /\ MapTo(n, lb, pb) \in Instance
           /\ \A k \in Logical : MapTo(n, lb, pb).map[k] # Unmapped \/ n.map[k] = Unmapped
  <1> DEFINE map == [n.map EXCEPT ![lb] = pb]
             t == n.top - 1
  <1>1. pb \in Blocks /\ n.next < pb /\ pb <= n.top
    BY DEF Found, SkipDown, Descending
  <1>2. n.map \in Mapping /\ n.top \in Blocks /\ n.next \in Blocks
    BY InstanceFields
  <1>3. t \in Blocks
    BY <1>1, <1>2, BlockNumbers DEF Blocks
  <1>4. map \in Mapping
    BY <1>1, <1>2 DEF Mapping
  <1>5. pb # Unmapped
    BY <1>1, BlockNumbers DEF Unmapped
  <1>6. \A k \in Logical : map[k] # Unmapped \/ n.map[k] = Unmapped
    BY <1>2, <1>5 DEF Mapping
  <1>7. MapTo(n, lb, pb) = [n EXCEPT !.map = map, !.top = t, !.changed = TRUE]
    BY DEF MapTo
  <1> HIDE DEF map, t
  <1>8. /\ [n EXCEPT !.map = map, !.top = t, !.changed = TRUE] \in Instance
        /\ [n EXCEPT !.map = map, !.top = t, !.changed = TRUE].map = map
    BY <1>3, <1>4 DEF Instance
  <1> QED
    BY <1>6, <1>7, <1>8

\* No replacement is found.
LEMMA MapFailsType ==
    ASSUME NEW n \in Instance, req \in Call, MapFails(n), saved' = saved
    PROVE  GoesOn(n) /\ faults' = faults
  <1>1. Like(n, n)
    BY LikeOne, BlockNumbers
  <1>2. CASE MapFailed(n)
    BY <1>1, <1>2, MapFailedType DEF GoesOn, MapFails
  <1>3. CASE ni' = n /\ pc' = "update" /\ req' = [req EXCEPT !.update = "no spare"]
    <2>1. req' \in Call /\ req'.op = req.op /\ req'.lb = req.lb
      BY <1>3 DEF Call
    <2> QED
      BY <1>1, <1>3, <2>1 DEF GoesOn, MapFails
  <1> QED
    BY <1>2, <1>3 DEF MapFails

\* A replacement is found.
LEMMA MapSucceedsType ==
    ASSUME TypeInv, NEW n \in Instance, n.map = ni.map, NEW lb \in Logical, NEW pb,
           MapSucceeds(n, lb, pb), pc' \in {"fill", "copy"}, pc # "idle",
           pc' = "copy" => req.op # "none",
           UNCHANGED <<flash, marks, wr, acked, lost, saved, env>>
    PROVE  TypeInv'
  <1>1. pb \in Found(n) /\ ni' = MapTo(n, lb, pb) /\ req' = req
        /\ (faults' = faults \/ faults' = faults \cup {"hole"})
    BY DEF MapSucceeds
  <1>2. ni' \in Instance /\ \A k \in Logical : ni'.map[k] # Unmapped \/ ni.map[k] = Unmapped
    BY <1>1, MapToType
  <1>3. ChipType'
    BY <1>1 DEF TypeInv, ChipType, Faults
  <1>4. MemoryType'
    BY <1>1, <1>2 DEF TypeInv, MemoryType, PCs
  <1>5. req.lb \in Logical
    BY StepTypes, CallFields
  <1>6. StepType'
    BY <1>1, <1>2, <1>5 DEF TypeInv, StepType
  <1> QED
    BY <1>3, <1>4, <1>6 DEF TypeInv

\* The loop of nmbm_create_info_table.
LEMMA FillType ==
    ASSUME TypeInv, Fill
    PROVE  TypeInv'
  <1>0. ni \in Instance /\ req \in Call /\ Like(ni, ni) /\ ni.size \in 0 .. MgmtStart
    BY StepTypes, InstanceFields
  <1>1. pc = "fill" /\ UNCHANGED <<flash, marks, wr, acked, lost, saved, env>>
    BY DEF Fill, chip
  <1>2. CASE MapFails(ni)
    BY <1>0, <1>1, <1>2, MapFailsType, GoesOnType
  <1>3. ASSUME NEW pb, ni.size < MgmtStart,
               MapSucceeds([ni EXCEPT !.size = ni.size + 1], ni.size, pb), pc' = "fill"
        PROVE  TypeInv'
    <2> DEFINE k == ni.size + 1
               n == [ni EXCEPT !.size = k]
    <2>1. k \in 0 .. MgmtStart /\ ni.size \in Logical
      BY <1>0, <1>3, BlockNumbers DEF Logical
    <2>2. n \in Instance /\ n.map = ni.map
      <3> HIDE DEF k
      <3> QED
        BY <1>0, <2>1 DEF Instance
    <2>3. MapSucceeds(n, ni.size, pb)
      BY <1>3
    <2> HIDE DEF n
    <2> QED
      BY <1>1, <1>3, <2>1, <2>2, <2>3, MapSucceedsType
  <1>4. CASE pc' = "update" /\ req' = [req EXCEPT !.update = "create"] /\ UNCHANGED <<ni, faults>>
    <2>1. req' \in Call /\ req'.op = req.op /\ req'.lb = req.lb
      BY <1>0, <1>4 DEF Call
    <2>2. GoesOn(ni)
      BY <1>0, <1>1, <1>4, <2>1 DEF GoesOn
    <2> QED
      BY <1>0, <1>1, <1>4, <2>2, GoesOnType
  <1> QED
    BY <1>2, <1>3, <1>4 DEF Fill

\* remap_block_nmbm up to the copy.
LEMMA MapType ==
    ASSUME TypeInv, Map
    PROVE  TypeInv'
  <1> DEFINE n == nmbm_set_bad(ni, req.old)
  <1>0. ni \in Instance /\ req \in Call
    BY StepTypes
  <1>1. pc = "map" /\ UNCHANGED <<flash, marks, wr, acked, lost, saved, env>>
        /\ (MapFails(n) \/ \E pb \in Found(n) : MapSucceeds(n, req.lb, pb) /\ pc' = "copy")
    BY DEF Map, chip
  <1>2. req.op # "none"
    BY <1>1 DEF TypeInv, StepType
  <1>3. req.old \in Blocks /\ req.lb \in Logical
    BY <1>2, MappedBlock
  <1>4. Like(n, ni)
    BY <1>0, <1>3, LikeBad
  <1> HIDE DEF n
  <1>5. n \in Instance /\ n.map = ni.map
    BY <1>4 DEF Like
  <1>6. CASE MapFails(n)
    BY <1>0, <1>1, <1>4, <1>5, <1>6, MapFailsType, GoesOnType
  <1>7. ASSUME NEW pb \in Found(n), MapSucceeds(n, req.lb, pb), pc' = "copy"
        PROVE  TypeInv'
    BY <1>1, <1>2, <1>3, <1>5, <1>7, MapSucceedsType
  <1> QED
    BY <1>1, <1>6, <1>7

\* A step of the driver.
LEMMA DriverType ==
    ASSUME TypeInv, Driver
    PROVE  TypeInv'
  BY TableStepsType, ChipStepsType, FillType, MapType DEF Driver

\* A request of the MTD layer begins.
LEMMA BeginType ==
    ASSUME TypeInv, NEW op \in Operations, NEW lb \in Logical,
           Begin(op, lb) \/ BeginMark(op, lb)
    PROVE  TypeInv'
  <1> DEFINE old == ni.map[lb]
  <1>1. /\ NewRequest(op, lb, "none") /\ pc' \in {"request", "map"}
        /\ acked' = acked \/ (op = "erase" /\ acked' = [acked EXCEPT ![lb] = 0])
        /\ UNCHANGED <<flash, marks, ni, wr, lost, saved, faults>>
        /\ (op = "write" => Writable(lb))
    BY DEF Begin, BeginMark, chip, seen
  <1>2. /\ old # Unmapped
        /\ req' = [NoReq EXCEPT !.op = op, !.lb = lb, !.old = old, !.update = "none"]
    BY <1>1 DEF NewRequest
  <1>3. env' \in Bounds
    <2> DEFINE d == env.debug - 1
               r == env.reqs - 1
    <2>1. env \in Bounds
      BY DEF TypeInv, ChipType
    <2>2. env.debug \in Nat /\ env.reqs \in Nat
      BY <2>1 DEF Bounds
    <2>3. \/ env.debug > 0 /\ env' = [env EXCEPT !.debug = d]
          \/ env.reqs > 0 /\ env' = [env EXCEPT !.reqs = r]
      BY <1>1 DEF NewRequest
    <2>4. (env.debug > 0 => d \in Nat) /\ (env.reqs > 0 => r \in Nat)
      BY <2>2
    <2> HIDE DEF d, r
    <2>5. ASSUME NEW i \in Nat
          PROVE  [env EXCEPT !.debug = i] \in Bounds /\ [env EXCEPT !.reqs = i] \in Bounds
      BY <2>1 DEF Bounds
    <2> QED
      BY <2>3, <2>4, <2>5
  <1>4. acked \in [Logical -> 0 .. Pages]
    BY DEF TypeInv, ChipType
  <1>5. acked' \in [Logical -> 0 .. Pages]
    BY <1>1, <1>4, PagesAssumption
  <1>6. ChipType'
    BY <1>1, <1>3, <1>5 DEF TypeInv, ChipType
  <1>7. old \in Blocks
    <2>1. ni.map \in Mapping
      BY StepTypes, InstanceFields
    <2> QED
      BY <1>2, <2>1 DEF Mapping
  <1> HIDE DEF old
  <1>8. req' \in Call /\ req'.op = op /\ req'.lb = lb
    BY <1>2, <1>7, NoCall DEF Call
  <1>9. op # "none"
    BY DEF Operations, Debugfs
  <1>10. MemoryType'
    BY <1>1, <1>8 DEF TypeInv, MemoryType, PCs
  <1>11. op = "write" => acked[lb] < Pages /\ acked' = acked
    BY <1>1 DEF Writable
  <1>12. StepType'
    BY <1>1, <1>2, <1>8, <1>9, <1>11 DEF TypeInv, StepType, old
  <1> QED
    BY <1>6, <1>10, <1>12 DEF TypeInv

\* Memory behind a power cut.
LEMMA FreshType ==
    /\ Fresh \in Instance /\ NoRange \in Span /\ NoReq \in Call /\ NoReq.op = "none"
    /\ \A b \in Blocks : [NoRange EXCEPT !.ba = b] \in Span /\ [NoRange EXCEPT !.ba = b].ba = b
  <1>1. NoMap \in Mapping
    BY DEF NoMap, Mapping
  <1>2. NoTable \in Table
    BY <1>1 DEF NoTable, Table
  <1>3. 0 \in 0 .. MgmtStart /\ 0 \in Blocks
    BY BlockNumbers
  <1>4. Fresh \in Instance
    BY <1>1, <1>2, <1>3 DEF Fresh, Instance
  <1>5. NoRange \in Span
    BY <1>3, BlockNumbers DEF NoRange, Span
  <1>6. ASSUME NEW b \in Blocks
        PROVE  [NoRange EXCEPT !.ba = b] \in Span /\ [NoRange EXCEPT !.ba = b].ba = b
    BY <1>5, BlockNumbers, SpanNext
  <1> QED
    BY <1>4, <1>5, <1>6, NoCall

\* Every block an operation is under way on is a block.
LEMMA TargetType ==
    ASSUME TypeInv, NEW b \in Target
    PROVE  b \in Blocks
  <1>1. CASE pc \in {"write", "erase"}
    BY <1>1, BehindType DEF Target, Usable
  <1>2. CASE pc = "signature"
    BY <1>2 DEF Target, TypeInv, StepType
  <1>3. CASE pc \in {"copy", "repair", "request"}
    <2>1. req.op # "none"
      BY <1>3 DEF TypeInv, StepType
    <2>2. b = ni.map[req.lb]
      BY <1>3 DEF Target
    <2> QED
      BY <2>1, <2>2, MappedBlock
  <1> QED
    BY <1>1, <1>2, <1>3 DEF Target

\* What a power cut leaves in a block.
LEMMA RemainsType ==
    ASSUME TypeInv, NEW b \in Target, NEW c \in Remains(b)
    PROVE  c \in Content
  <1>0. flash \in [Blocks -> Content] /\ b \in Blocks /\ acked \in [Logical -> 0 .. Pages]
    BY TargetType DEF TypeInv, ChipType
  <1>1. CASE c = flash[b]
    BY <1>0, <1>1
  <1>2. CASE pc = "request" /\ req.op = "write" /\ c = Page(req.lb, acked[req.lb] + 1)
    <2> DEFINE n == acked[req.lb] + 1
    <2>1. req.lb \in Logical /\ acked[req.lb] < Pages
      BY <1>2, StepTypes, CallFields DEF TypeInv, StepType
    <2>2. acked[req.lb] \in 0 .. Pages
      BY <1>0, <2>1
    <2>3. n \in 0 .. Pages
      BY <2>1, <2>2, PagesAssumption
    <2>4. c = Page(req.lb, n)
      BY <1>2
    <2> HIDE DEF n
    <2> QED
      BY <2>1, <2>3, <2>4, Contents
  <1>3. CASE pc \in {"copy", "repair"} /\ c \in {Empty, Torn} \cup Copied(flash[req.old], CopyLen)
    <2>1. req.op # "none"
      BY <1>3 DEF TypeInv, StepType
    <2>2. CopyLen \in 0 .. Pages /\ flash[req.old] \in Content
      BY <1>0, <2>1, CopyLenType, MappedBlock
    <2>3. CASE c \in {Empty, Torn}
      BY <2>3, Contents
    <2>4. CASE c \in Copied(flash[req.old], CopyLen)
      BY <2>2, <2>4, CopiedContent
    <2> QED
      BY <1>3, <2>3, <2>4
  <1>4. CASE c \in {Empty, Torn, Signature, ni.cache}
    BY <1>4, StepTypes, InstanceFields, Contents
  <1> QED
    BY <1>1, <1>2, <1>3, <1>4 DEF Remains

\* A power cut.
LEMMA PowerCutType ==
    ASSUME TypeInv, PowerCut
    PROVE  TypeInv'
  <1>1. /\ env.cuts > 0 /\ env' = [env EXCEPT !.cuts = env.cuts - 1]
        /\ ni' = Fresh /\ pc' = "off" /\ wr' = NoRange /\ req' = NoReq
        /\ marks' = marks /\ acked' = acked /\ lost' = lost \cup Forgotten
        /\ (saved' = saved \/ saved' = saved \cup {ni.map})
        /\ (faults' = faults \/ faults' = faults \cup {"bare"})
        /\ (flash' = flash \/ \E b \in Target : \E c \in Remains(b) : flash' = [flash EXCEPT ![b] = c])
    BY DEF PowerCut
  <1>2. flash' \in [Blocks -> Content]
    <2>1. flash \in [Blocks -> Content]
      BY DEF TypeInv, ChipType
    <2>2. ASSUME NEW b \in Target, NEW c \in Remains(b), flash' = [flash EXCEPT ![b] = c]
          PROVE  flash' \in [Blocks -> Content]
      BY <2>1, <2>2, TargetType, RemainsType, ContentSet
    <2> QED
      BY <1>1, <2>1, <2>2
  <1>3. lost' \subseteq Logical
    <2>1. req.lb \in Logical /\ lost \subseteq Logical
      BY StepTypes, CallFields DEF TypeInv, ChipType
    <2> QED
      BY <1>1, <2>1 DEF Forgotten
  <1>4. env' \in Bounds
    <2> DEFINE k == env.cuts - 1
    <2>1. env \in Bounds
      BY DEF TypeInv, ChipType
    <2>2. env.cuts \in Nat
      BY <2>1 DEF Bounds
    <2>3. k \in Nat
      BY <1>1, <2>2
    <2> HIDE DEF k
    <2> QED
      BY <1>1, <2>1, <2>3 DEF Bounds, k
  <1>5. ChipType'
    BY <1>1, <1>2, <1>3, <1>4 DEF TypeInv, ChipType, Faults
  <1>6. saved' \subseteq Mapping
    BY <1>1, StepTypes, InstanceFields DEF TypeInv, MemoryType
  <1>7. MemoryType'
    BY <1>1, <1>6, FreshType DEF MemoryType, PCs
  <1>8. StepType'
    BY <1>1, FreshType DEF StepType
  <1> QED
    BY <1>5, <1>7, <1>8 DEF TypeInv

\* The places a mapping uses are numbers.
LEMMA MapNumbers ==
    ASSUME NEW map \in Mapping, NEW lb \in Logical
    PROVE  map[lb] \in Int /\ (map[lb] \in Blocks \/ map[lb] = Unmapped)
  <1>1. map[lb] \in Blocks \/ map[lb] = Unmapped
    BY DEF Mapping
  <1>2. Unmapped \in Int
    BY DEF Unmapped
  <1> QED
    BY <1>1, <1>2, BlockNumbers

\* What nmbm_load_info_table makes of the tables is an instance.
LEMMA LoadedType ==
    ASSUME NEW m \in Blocks, NEW s \in Blocks, NEW ecc, NEW sig \in Blocks,
           flash[m] \in Table, m < sig - 1, s # 0 => flash[s] \in Table /\ s < sig - 1
    PROVE  Loaded(m, s, ecc, sig) \in Instance
  <1> DEFINE newer == s # 0 /\ flash[s].count > flash[m].count
             t == IF newer THEN flash[s] ELSE flash[m]
             place == IF newer THEN s ELSE m
             before == FoundBad(MgmtStart, m, ecc)
             between == FoundBad(m + 1, IF s = 0 THEN sig - 1 ELSE s, ecc) \ flash[m].bad
             bad == IF newer THEN t.bad ELSE t.bad \cup between
             top == TopOf(t, place, sig)
             next == (IF s = 0 THEN m ELSE s) + 1
             size == IF LastMapped(t.map) = {} THEN MgmtStart
                     ELSE Maximum(LastMapped(t.map)) + 1
             changed == before \cup between # {}
  <1>1. t \in Table /\ place \in Blocks /\ place < sig - 1
    OBVIOUS
  <1>2. t.map \in Mapping /\ t.count \in Nat /\ t.bad \subseteq Blocks
    <2> HIDE DEF t
    <2> QED
      BY <1>1 DEF Table
  <1>3. top \in Blocks
    <2> HIDE DEF t, place
    <2>1. /\ top \in Int /\ top < sig
          /\ \/ top = sig - 1
             \/ \E lb \in Logical : place < t.map[lb] /\ top = t.map[lb] - 1
      BY <1>1, TopOfTable
    <2>2. \A lb \in Logical : t.map[lb] \in Int
      BY <1>2, MapNumbers
    <2>3. place \in Int /\ 0 <= place /\ sig \in Int /\ sig < BlockCount
      BY <1>1, BlockNumbers
    <2> HIDE DEF top
    <2>4. 0 <= top
      BY <1>1, <2>1, <2>2, <2>3
    <2> QED
      BY <2>1, <2>3, <2>4, BlockNumbers DEF Blocks
  <1>4. next \in Blocks
    BY BlockNumbers DEF Blocks
  <1>5. size \in 0 .. MgmtStart
    <2> DEFINE S == LastMapped(t.map)
    <2>1. \A x \in S : x \in Int /\ 0 <= x /\ x < MgmtStart /\ x <= MgmtStart
      BY GeometryAssumption DEF LastMapped, Logical
    <2> HIDE DEF S
    <2>2. S # {} => Maximum(S) \in S
      BY <2>1, MaximumIsGreatest, GeometryAssumption
    <2> QED
      BY <2>1, <2>2, GeometryAssumption DEF S
  <1>6. bad \in SUBSET Blocks /\ changed \in BOOLEAN
    <2>1. between \subseteq Blocks
      BY DEF FoundBad
    <2> HIDE DEF t, between, newer
    <2> QED
      BY <1>2, <2>1
  <1> DEFINE n == [Fresh EXCEPT !.bad = bad, !.map = t.map, !.count = t.count,
                     !.changed = changed, !.main = m, !.backup = s, !.sig = sig,
                     !.top = top, !.next = next, !.size = size]
  <1>7. n \in Instance
    <2> HIDE DEF bad, changed, top, next, size, t
    <2> QED
      BY <1>2, <1>3, <1>4, <1>5, <1>6, FreshType DEF Instance
  <1>8. Loaded(m, s, ecc, sig) = nmbm_generate_info_table_cache(n)
    BY DEF Loaded
  <1> HIDE DEF n
  <1> QED
    BY <1>7, <1>8, LikeCache DEF Like

\* The chip is left alone while the driver attaches.
LEMMA AttachedChip ==
    ASSUME TypeInv, UNCHANGED <<flash, marks, acked, lost, faults, env>>
    PROVE  ChipType'
  BY DEF TypeInv, ChipType

\* nmbm_load_info_table.
LEMMA LoadTablesType ==
    ASSUME TypeInv, NEW ecc, NEW sig \in Blocks, LoadTables(ecc, sig),
           UNCHANGED <<flash, marks, acked, lost, faults, env>>
    PROVE  TypeInv'
  <1> DEFINE mains == Loadable(MgmtStart, {}, sig)
             m == Minimum(mains)
             backups == Loadable(m + 1, flash[m].bad \cup ecc, sig)
             s == IF backups = {} THEN 0 ELSE Minimum(backups)
             n == Loaded(m, s, ecc, sig)
             c == [n EXCEPT !.changed = TRUE]
             p == (n.next = n.top)
             q == [NoReq EXCEPT !.table = "load"]
  <1>1. mains # {} /\ req' = q /\ saved' = {n.map}
    BY DEF LoadTables
  <1>2. \/ StartWrite(n, MgmtStart, n.main, "rescue front")
        \/ StartWrite(c, c.main, c.backup, "single main")
        \/ StartWrite(c, c.backup, c.top, "single backup")
        \/ ni' = [n EXCEPT !.protected = p] /\ pc' = "idle" /\ UNCHANGED wr
    BY DEF LoadTables, nmbm_rescue_single_info_table, nmbm_update_single_info_table
  <1>3. q \in Call /\ q.op = "none" /\ wr \in Span
    BY NoCall, StepTypes
  <1>4. n \in Instance
    <2> HIDE DEF n
    <2>1. /\ m \in Blocks /\ flash[m] \in Table /\ m < sig - 1
          /\ s \in Blocks /\ (s # 0 => flash[s] \in Table /\ s < sig - 1)
      BY <1>1, TablesFound
    <2> HIDE DEF m, s
    <2> QED
      BY <2>1, LoadedType DEF n
  <1> HIDE DEF n
  <1>5. c \in Instance
    BY <1>4, LikeOne, BlockNumbers DEF Like
  <1>6. [n EXCEPT !.protected = p] \in Instance
    <2>1. p \in BOOLEAN
      OBVIOUS
    <2> HIDE DEF p
    <2> QED
      BY <1>4, <2>1, LikeOne, BlockNumbers DEF Like
  <1> HIDE DEF c, q, p
  <1>7. ASSUME NEW r \in Instance, NEW a \in Blocks, NEW lim \in Blocks, NEW for \in Writes,
               StartWrite(r, a, lim, for)
        PROVE  ni' \in Instance /\ pc' = "write" /\ wr' \in Span
    BY <1>3, <1>7, BlockNumbers DEF StartWrite, Span
  <1>8. ni' \in Instance /\ pc' \in {"idle", "write"} /\ wr' \in Span
    <2>1. n.main \in Blocks /\ c.main \in Blocks /\ c.backup \in Blocks /\ c.top \in Blocks
          /\ MgmtStart \in Blocks
      BY <1>4, <1>5, InstanceFields, BlockNumbers
    <2>2. {"rescue front", "single main", "single backup"} \subseteq Writes
      BY DEF Writes
    <2>3. CASE StartWrite(n, MgmtStart, n.main, "rescue front")
      BY <1>4, <1>7, <2>1, <2>2, <2>3
    <2>4. CASE StartWrite(c, c.main, c.backup, "single main")
      BY <1>5, <1>7, <2>1, <2>2, <2>4
    <2>5. CASE StartWrite(c, c.backup, c.top, "single backup")
      BY <1>5, <1>7, <2>1, <2>2, <2>5
    <2>6. CASE ni' = [n EXCEPT !.protected = p] /\ pc' = "idle" /\ UNCHANGED wr
      BY <1>3, <1>6, <2>6
    <2> QED
      BY <1>2, <2>3, <2>4, <2>5, <2>6
  <1>9. MemoryType'
    BY <1>1, <1>3, <1>4, <1>8, InstanceFields DEF MemoryType, PCs
  <1>10. StepType'
    BY <1>1, <1>3, <1>8 DEF StepType
  <1> QED
    BY <1>9, <1>10, AttachedChip DEF TypeInv

\* The instance of a chip without tables.
LEMMA InitialType ==
    ASSUME NEW n \in Instance, marks \subseteq Blocks, NEW map \in Mapping
    PROVE  WithInitialMapping(n, map) \in Instance
  <1> DEFINE bad == n.bad \cup marks
             good == {b \in Logical : b \notin bad}
             size == Cardinality(good)
             changed == n.changed \/ bad # n.bad
  <1>1. size \in 0 .. MgmtStart
    <2>1. IsFiniteSet(Logical) /\ Cardinality(Logical) = MgmtStart
      <3>1. 0 \in Int /\ MgmtStart - 1 \in Int /\ ~(0 > MgmtStart - 1)
        BY GeometryAssumption
      <3>2. IsFiniteSet(Logical)
        BY <3>1, FS_Interval DEF Logical
      <3>3. Cardinality(0 .. MgmtStart - 1) = (MgmtStart - 1) - 0 + 1
        BY <3>1, FS_Interval
      <3>4. (MgmtStart - 1) - 0 + 1 = MgmtStart
        BY GeometryAssumption
      <3> QED
        BY <3>2, <3>3, <3>4 DEF Logical
    <2>2. good \subseteq Logical
      OBVIOUS
    <2>3. IsFiniteSet(good) /\ size <= MgmtStart
      <3> HIDE DEF good
      <3> QED
        BY <2>1, <2>2, FS_Subset
    <2>4. size \in Nat
      BY <2>3, FS_CardinalityType
    <2> HIDE DEF size
    <2> QED
      BY <2>3, <2>4, GeometryAssumption
  <1>2. bad \in SUBSET Blocks /\ changed \in BOOLEAN
    BY InstanceFields
  <1>3. WithInitialMapping(n, map) =
            [n EXCEPT !.bad = bad, !.changed = changed, !.map = map, !.size = size]
    BY DEF WithInitialMapping
  <1> HIDE DEF bad, changed, size
  <1> QED
    BY <1>1, <1>2, <1>3 DEF Instance

\* nmbm_attach.
LEMMA AttachType ==
    ASSUME TypeInv, Attach
    PROVE  TypeInv'
  <1>1. pc = "off" /\ UNCHANGED <<flash, marks, acked, lost, faults, env>>
    BY DEF Attach, chip
  <1>2. ChipType' /\ marks \subseteq Blocks
    BY <1>1, AttachedChip DEF TypeInv, ChipType
  <1>3. CASE Unusable
    <2>1. pc' = "dead" /\ UNCHANGED <<ni, wr, req, saved>>
      BY <1>3 DEF Unusable
    <2>2. MemoryType'
      BY <2>1 DEF TypeInv, MemoryType, PCs
    <2>3. StepType'
      BY <1>1, <2>1 DEF TypeInv, StepType
    <2> QED
      BY <1>2, <2>2, <2>3 DEF TypeInv
  <1>4. ASSUME NEW map \in Mapping, CreateNew(map), UNCHANGED saved
        PROVE  TypeInv'
    <2> DEFINE b == BlockCount - 1
    <2>1. /\ ni' = WithInitialMapping(Fresh, map) /\ pc' = "signature" /\ req' = NoReq
          /\ wr' = [NoRange EXCEPT !.ba = b]
      BY <1>4 DEF CreateNew
    <2>2. ni' \in Instance
      BY <1>2, <2>1, FreshType, InitialType
    <2>3. b \in Blocks
      BY GeometryAssumption DEF Blocks
    <2> HIDE DEF b
    <2>4. wr' \in Span /\ wr'.ba \in Blocks
      BY <2>1, <2>3, FreshType
    <2>5. MemoryType'
      BY <1>4, <2>1, <2>2, <2>4, FreshType DEF TypeInv, MemoryType, PCs
    <2>6. StepType'
      BY <2>1, <2>4, FreshType DEF StepType
    <2> QED
      BY <1>2, <2>5, <2>6 DEF TypeInv
  <1>5. ASSUME NEW ecc, Signatures # {}, LoadTables(ecc, Maximum(Signatures))
        PROVE  TypeInv'
    BY <1>1, <1>5, SignatureFound, LoadTablesType
  <1>6. ASSUME NEW ecc, NEW map \in Mapping, Signatures # {},
               CreateTables(ecc, Maximum(Signatures), map)
        PROVE  TypeInv'
    <2> DEFINE sig == Maximum(Signatures)
               bad == FoundBad(MgmtStart, sig - 1, ecc)
               f == [Fresh EXCEPT !.bad = bad, !.sig = sig, !.changed = bad # {}]
    <2>1. nmbm_create_info_table(WithInitialMapping(f, map)) /\ saved' = {}
      BY <1>6 DEF CreateTables
    <2>2. sig \in Blocks /\ bad \in SUBSET Blocks
      BY <1>6, SignatureFound DEF FoundBad
    <2> HIDE DEF sig, bad
    <2>3. f \in Instance
      BY <2>2, FreshType DEF Instance
    <2> HIDE DEF f
    <2>4. WithInitialMapping(f, map) \in Instance
      BY <1>2, <2>3, InitialType
    <2>5. saved' \subseteq Mapping
      BY <2>1
    <2> QED
      BY <1>2, <2>1, <2>4, <2>5, StepTypes, CreateType
  <1> QED
    BY <1>3, <1>4, <1>5, <1>6 DEF Attach

\* The chips to start from.
LEMMA TypeInitially ==
    ASSUME Init
    PROVE  TypeInv
  <1> DEFINE id == [lb \in Logical |-> lb]
  <1>1. PICK s \in Scenarios :
        /\ Prepared(s.bad) \/ flash = [b \in Blocks |-> Empty]
        /\ marks = s.bad
        /\ env = [force |-> s.force, wear |-> s.wear, cuts |-> s.cuts, reqs |-> s.reqs,
                  debug |-> s.debug]
        /\ saved = IF s.prepared THEN {id} ELSE {}
    BY DEF Init
  <1>2. /\ ni = Fresh /\ pc = "off" /\ wr = NoRange /\ req = NoReq
        /\ acked = [lb \in Logical |-> 0] /\ lost = {} /\ faults = {}
    BY DEF Init
  <1>3. s \in Scenario
    BY <1>1, ScenarioAssumption
  <1>4. id \in Mapping
    <2>1. \A lb \in Logical : lb \in Blocks
      BY GeometryAssumption DEF Logical, Blocks
    <2> QED
      BY <2>1 DEF Mapping
  <1>5. {Signature, Empty, FirstTable(s.bad)} \subseteq Content
    <2>1. FirstTable(s.bad) \in Table
      BY <1>3, <1>4 DEF Scenario, Table, FirstTable, OwnMap
    <2> QED
      BY <2>1, Contents
  <1>6. flash \in [Blocks -> Content]
    <2>1. CASE Prepared(s.bad)
      BY <1>5, <2>1, PreparedChip
    <2>2. CASE flash = [b \in Blocks |-> Empty]
      BY <2>2, Contents
    <2> QED
      BY <1>1, <2>1, <2>2
  <1>7. marks \subseteq Blocks /\ env \in Bounds
    BY <1>1, <1>3 DEF Scenario, Bounds
  <1>8. acked \in [Logical -> 0 .. Pages]
    BY <1>2, PagesAssumption
  <1>9. ChipType
    BY <1>2, <1>6, <1>7, <1>8 DEF ChipType
  <1>10. MemoryType
    BY <1>1, <1>2, <1>4, FreshType DEF MemoryType, PCs
  <1>11. StepType
    BY <1>2, FreshType DEF StepType
  <1> QED
    BY <1>9, <1>10, <1>11 DEF TypeInv

\* No block is given back by the debugfs files mark_good and repair.
NoUnmaps == [][~Unmaps]_vars

\* Every step but an unmapping one.
LEMMA TypeStep ==
    ASSUME TypeInv, [Next]_vars, [~Unmaps]_vars
    PROVE  TypeInv'
  <1>1. CASE UNCHANGED vars
    BY <1>1 DEF TypeInv, ChipType, MemoryType, StepType, vars, chip, seen
  <1>2. CASE Requests /\ ~Unmaps
    <2>1. PICK op \in Operations, lb \in Logical : Begin(op, lb) \/ BeginMark(op, lb)
      BY <1>2 DEF Requests, Unmaps
    <2> QED
      BY <2>1, BeginType
  <1> QED
    BY <1>1, <1>2, AttachType, DriverType, PowerCutType DEF Next

\* The invariant.
LEMMA TypeInvariant == Spec /\ NoUnmaps => []TypeInv
  <1>1. Init => TypeInv
    BY TypeInitially
  <1>2. TypeInv /\ [Next]_vars /\ [~Unmaps]_vars => TypeInv'
    BY TypeStep
  <1> QED
    BY <1>1, <1>2, PTL DEF Spec, NoUnmaps

\* Through any number of power cuts and failing operations, what the driver computes
\* stays within the chip: every block it writes, erases or maps to is one of the chip's,
\* a table holds a mapping of blocks, and a page is written within its block.
THEOREM TypesHold == Spec /\ NoUnmaps => []TypeOK
  <1>1. TypeInv => TypeOK
    BY TypeInvType
  <1> QED
    BY <1>1, TypeInvariant, PTL
=============================================================================
