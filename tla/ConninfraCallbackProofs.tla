----------------------- MODULE ConninfraCallbackProofs -----------------------
(***************************************************************************)
(* Proofs about the callbacks of a chip reset in ConninfraCore: they keep  *)
(* to their phase and are told who triggered.  rst_state is a sum of       *)
(* powers of two, which the provers know for given numbers only: the       *)
(* theorems that rest on it hold for up to five types, the number that the *)
(* code has (CONNDRV_TYPE_MAX, conninfra.h:43-50).                         *)
(***************************************************************************)
EXTENDS ConninfraCoreProofs

\* The types of the code, or fewer.
FewTypes == DrvMax \in 1 .. 5

\* The bit of each type.
LEMMA BitOf ==
    ASSUME FewTypes, NEW d \in Drv
    PROVE  /\ d \in 0 .. 4
           /\ d = 0 => 2 ^ d = 1
           /\ d = 1 => 2 ^ d = 2
           /\ d = 2 => 2 ^ d = 4
           /\ d = 3 => 2 ^ d = 8
           /\ d = 4 => 2 ^ d = 16
  <1>1. d \in 0 .. 4
    BY DEF FewTypes, Drv
  <1>2. 2 ^ 0 = 1 /\ 2 ^ 1 = 2 /\ 2 ^ 2 = 4 /\ 2 ^ 3 = 8 /\ 2 ^ 4 = 16
    OBVIOUS
  <1> QED
    BY <1>1, <1>2

\* subdrv_all_done (conninfra_core.c:351) for each number of types.
LEMMA AllDoneIs ==
    ASSUME FewTypes
    PROVE  /\ DrvMax = 1 => AllDone = 1
           /\ DrvMax = 2 => AllDone = 3
           /\ DrvMax = 3 => AllDone = 7
           /\ DrvMax = 4 => AllDone = 15
           /\ DrvMax = 5 => AllDone = 31
  <1>1. ASSUME NEW n, DrvMax = n PROVE AllDone = 2 ^ n - 1
    BY <1>1 DEF AllDone
  <1>2. 2 ^ 1 = 2 /\ 2 ^ 2 = 4 /\ 2 ^ 3 = 8 /\ 2 ^ 4 = 16 /\ 2 ^ 5 = 32
    OBVIOUS
  <1>3. DrvMax = 1 => AllDone = 2 - 1
    BY <1>1, <1>2
  <1>4. DrvMax = 2 => AllDone = 4 - 1
    BY <1>1, <1>2
  <1>5. DrvMax = 3 => AllDone = 8 - 1
    BY <1>1, <1>2
  <1>6. DrvMax = 4 => AllDone = 16 - 1
    BY <1>1, <1>2
  <1>7. DrvMax = 5 => AllDone = 32 - 1
    BY <1>1, <1>2
  <1> QED
    BY <1>3, <1>4, <1>5, <1>6, <1>7

\* The bits by type.
LEMMA EndBits ==
    /\ EndBit(0) = IF 0 < rsti /\ Quiet(0) THEN 1 ELSE 0
    /\ EndBit(1) = IF 1 < rsti /\ Quiet(1) THEN 2 ELSE 0
    /\ EndBit(2) = IF 2 < rsti /\ Quiet(2) THEN 4 ELSE 0
    /\ EndBit(3) = IF 3 < rsti /\ Quiet(3) THEN 8 ELSE 0
    /\ EndBit(4) = IF 4 < rsti /\ Quiet(4) THEN 16 ELSE 0
  <1>1. 2 ^ 0 = 1 /\ 2 ^ 1 = 2 /\ 2 ^ 2 = 4 /\ 2 ^ 3 = 8 /\ 2 ^ 4 = 16
    OBVIOUS
  <1> QED
    BY <1>1 DEF EndBit

\* rst_state is complete only when every callback has ended
\* (conninfra_core.c:389, 434).
LEMMA CompleteIsQuiet ==
    ASSUME FewTypes, NEW op, InPhase(op), rsti = DrvMax, rstState = AllDone,
           NEW d \in Drv
    PROVE  Quiet(d)
  <1> DEFINE b(n) == EndBit(n)
  <1>1. /\ b(0) = IF 0 < rsti /\ Quiet(0) THEN 1 ELSE 0
        /\ b(1) = IF 1 < rsti /\ Quiet(1) THEN 2 ELSE 0
        /\ b(2) = IF 2 < rsti /\ Quiet(2) THEN 4 ELSE 0
        /\ b(3) = IF 3 < rsti /\ Quiet(3) THEN 8 ELSE 0
        /\ b(4) = IF 4 < rsti /\ Quiet(4) THEN 16 ELSE 0
    BY EndBits
  <1>2. rstState = b(0) + b(1) + b(2) + b(3) + b(4)
    BY DEF InPhase
  <1>3. d \in 0 .. 4 /\ d < DrvMax
    BY DEF FewTypes, Drv
  <1> HIDE DEF b
  <1>4. CASE DrvMax = 1
    BY <1>1, <1>2, <1>3, <1>4, AllDoneIs
  <1>5. CASE DrvMax = 2
    BY <1>1, <1>2, <1>3, <1>5, AllDoneIs
  <1>6. CASE DrvMax = 3
    BY <1>1, <1>2, <1>3, <1>6, AllDoneIs
  <1>7. CASE DrvMax = 4
    BY <1>1, <1>2, <1>3, <1>7, AllDoneIs
  <1>8. CASE DrvMax = 5
    BY <1>1, <1>2, <1>3, <1>8, AllDoneIs
  <1> QED
    BY <1>4, <1>5, <1>6, <1>7, <1>8 DEF FewTypes

-----------------------------------------------------------------------------
(* Phases *)

\* The sum of the bits, and a sum in which one bit is added.
LEMMA SumKept ==
    ASSUME NEW op, InPhase(op), UNCHANGED rstState,
           \A n \in 0 .. 4 : EndBit(n)' = EndBit(n)
    PROVE  rstState' = EndBit(0)' + EndBit(1)' + EndBit(2)' + EndBit(3)' + EndBit(4)'
  BY DEF InPhase

\* A step that leaves the radios' threads, the phase and its loop alone.
LEMMA PhaseFrame ==
    ASSUME CallbackPhases, tpc'[Cb] = tpc[Cb], UNCHANGED <<rsti, rstState, subQ, spc, sop>>,
           tpc[Cb] \in {"rst_pre", "rst_post"} => UNCHANGED rstStatus
    PROVE  CallbackPhases'
  <1>1. \A op : InPhase(op) => InPhase(op)'
    BY DEF InPhase, EndBit, Quiet
  <1>2. \A d \in Drv : Quiet(d)' <=> Quiet(d)
    BY DEF Quiet
  <1>3. InPhase("pre") => InPhase("pre")'
    BY <1>1
  <1>4. InPhase("post") => InPhase("post")'
    BY <1>1
  <1> QED
    BY <1>2, <1>3, <1>4 DEF CallbackPhases

\* A step of conninfra_cb outside of the phases.
LEMMA QuietFrame ==
    ASSUME CallbackPhases, tpc[Cb] \notin {"rst_pre", "rst_post"},
           tpc'[Cb] \notin {"rst_pre", "rst_post"}, UNCHANGED <<subQ, spc>>
    PROVE  CallbackPhases'
  BY DEF CallbackPhases, Quiet

\* A phase begins with rst_state cleared and nobody asked (conninfra_core.c:364-371,
\* 417-420).
LEMMA PhaseBegins ==
    ASSUME CoreType, NEW op, \A d \in Drv : Quiet(d), UNCHANGED <<subQ, spc, sop>>,
           rstState' = 0, rsti' = 0
    PROVE  InPhase(op)'
  <1>1. \A d \in Drv : Quiet(d)' /\ spc'[d] = "idle" /\ subQ'[d] = <<>>
    BY DEF Quiet
  <1>2. \A n \in 0 .. 4 : EndBit(n)' = 0
    BY DEF EndBit
  <1>3. rstState' = EndBit(0)' + EndBit(1)' + EndBit(2)' + EndBit(3)' + EndBit(4)'
    BY <1>2
  <1> QED
    BY <1>1, <1>3 DEF InPhase

\* The next radio is asked to run its callback (conninfra_core.c:371-378, 420-426).
LEMMA PhaseAsks ==
    ASSUME CoreType, NEW op, InPhase(op), rsti < DrvMax, rsti' = rsti + 1,
           subQ' = [subQ EXCEPT ![rsti] = Append(@, op)], UNCHANGED <<rstState, spc, sop>>
    PROVE  InPhase(op)'
  <1>0. PICK i : i = rsti
    OBVIOUS
  <1>1. i \in Drv /\ rsti' = i + 1 /\ rsti' \in 0 .. DrvMax /\ Drv \subseteq Int
    BY <1>0, DrvAssumption DEF CoreType, ResetType, Drv
  <1>2. Quiet(i)
    BY <1>0, <1>1 DEF InPhase
  <1>3. /\ subQ'[i] = <<op>>
        /\ \A d \in Drv \ {i} : subQ'[d] = subQ[d]
    BY <1>0, <1>1, <1>2 DEF Quiet, CoreType, SubType
  <1>4. ~Quiet(i)' /\ \A d \in Drv \ {i} : Quiet(d)' <=> Quiet(d)
    <2>1. <<op>> # <<>>
      OBVIOUS
    <2>2. ~Quiet(i)'
      BY <1>3, <2>1 DEF Quiet
    <2>3. \A d \in Drv \ {i} : Quiet(d)' <=> Quiet(d)
      BY <1>3 DEF Quiet
    <2> QED
      BY <2>2, <2>3
  <1>5. \A d \in Drv :
            /\ d >= rsti' => Quiet(d)'
            /\ subQ'[d] = <<>> \/ (subQ'[d] = <<op>> /\ spc'[d] = "idle")
            /\ spc'[d] # "idle" => sop'[d] = op
    <2> SUFFICES ASSUME NEW d \in Drv
                 PROVE  /\ d >= rsti' => Quiet(d)'
                        /\ subQ'[d] = <<>> \/ (subQ'[d] = <<op>> /\ spc'[d] = "idle")
                        /\ spc'[d] # "idle" => sop'[d] = op
      OBVIOUS
    <2>1. CASE d = i
      BY <1>1, <1>2, <1>3, <2>1 DEF Quiet
    <2>2. CASE d # i
      BY <1>0, <1>1, <1>3, <1>4, <2>2 DEF InPhase
    <2> QED
      BY <2>1, <2>2
  <1>6. \A n \in 0 .. 4 : EndBit(n)' = EndBit(n)
    <2> SUFFICES ASSUME NEW n \in 0 .. 4 PROVE EndBit(n)' = EndBit(n)
      OBVIOUS
    <2>1. CASE n = i
      BY <1>0, <1>1, <1>4, <2>1 DEF EndBit
    <2>2. CASE n # i /\ n \in Drv
      BY <1>0, <1>1, <1>4, <2>2 DEF EndBit
    <2>3. CASE n \notin Drv
      BY <1>0, <1>1, <2>3, DrvAssumption DEF EndBit, Drv
    <2> QED
      BY <2>1, <2>2, <2>3
  <1> QED
    BY <1>5, <1>6, SumKept DEF InPhase

\* A radio's thread takes the request and runs the callback
\* (conninfra_core.c:685-729).
LEMMA PhaseRuns ==
    ASSUME CoreType, NEW op, InPhase(op), NEW d \in Drv,
           SubGetOp(d) \/ SubCallback(d) \/ SubOopses(d)
    PROVE  InPhase(op)'
  <1>1. UNCHANGED <<rsti, rstState>>
    BY DEF SubGetOp, SubCallback, SubOopses, rstVars, cbVars
  <1>2. CASE SubGetOp(d)
    <2>1. subQ[d] = <<op>> /\ spc[d] = "idle"
      BY <1>2 DEF SubGetOp, InPhase
    <2>2. Head(subQ[d]) = op /\ Tail(subQ[d]) = <<>>
      BY <2>1
    <2>3. /\ subQ'[d] = <<>> /\ sop'[d] = op /\ spc'[d] # "idle"
          /\ \A e \in Drv \ {d} : subQ'[e] = subQ[e] /\ spc'[e] = spc[e] /\ sop'[e] = sop[e]
      BY <1>2, <2>2 DEF SubGetOp, CoreType, SubType
    <2>4. ~Quiet(d) /\ ~Quiet(d)' /\ \A e \in Drv \ {d} : Quiet(e)' <=> Quiet(e)
      BY <2>1, <2>3 DEF Quiet
    <2>5. ~(d >= rsti)
      BY <2>4 DEF InPhase
    <2>6. \A e \in Drv :
              /\ e >= rsti' => Quiet(e)'
              /\ subQ'[e] = <<>> \/ (subQ'[e] = <<op>> /\ spc'[e] = "idle")
              /\ spc'[e] # "idle" => sop'[e] = op
      BY <1>1, <2>3, <2>4, <2>5 DEF InPhase
    <2>7. \A n \in 0 .. 4 : EndBit(n)' = EndBit(n)
      <3> SUFFICES ASSUME NEW n \in 0 .. 4 PROVE EndBit(n)' = EndBit(n)
        OBVIOUS
      <3>1. CASE n = d
        BY <2>4, <3>1 DEF EndBit
      <3>2. CASE n # d /\ n \in Drv
        BY <1>1, <2>4, <3>2 DEF EndBit
      <3>3. CASE n \notin Drv
        BY <1>1, <3>3, DrvAssumption DEF EndBit, Drv, CoreType, ResetType
      <3> QED
        BY <3>1, <3>2, <3>3
    <2> QED
      BY <1>1, <2>6, <2>7, SumKept DEF InPhase
  <1>3. CASE SubCallback(d) \/ SubOopses(d)
    <2>1. /\ spc[d] = "call" /\ spc'[d] \in {"done", "dead"} /\ UNCHANGED <<subQ, sop>>
          /\ \A e \in Drv \ {d} : spc'[e] = spc[e]
      BY <1>3 DEF SubCallback, SubOopses, CoreType, SubType
    <2>2. ~Quiet(d) /\ ~Quiet(d)' /\ \A e \in Drv \ {d} : Quiet(e)' <=> Quiet(e)
      BY <2>1 DEF Quiet
    <2>3. ~(d >= rsti)
      BY <2>2 DEF InPhase
    <2>4. \A e \in Drv :
              /\ e >= rsti' => Quiet(e)'
              /\ subQ'[e] = <<>> \/ (subQ'[e] = <<op>> /\ spc'[e] = "idle")
              /\ spc'[e] # "idle" => sop'[e] = op
      BY <1>1, <2>1, <2>2, <2>3 DEF InPhase
    <2>5. \A n \in 0 .. 4 : EndBit(n)' = EndBit(n)
      <3> SUFFICES ASSUME NEW n \in 0 .. 4 PROVE EndBit(n)' = EndBit(n)
        OBVIOUS
      <3>1. CASE n = d
        BY <2>2, <3>1 DEF EndBit
      <3>2. CASE n # d /\ n \in Drv
        BY <1>1, <2>2, <3>2 DEF EndBit
      <3>3. CASE n \notin Drv
        BY <1>1, <3>3, DrvAssumption DEF EndBit, Drv, CoreType, ResetType
      <3> QED
        BY <3>1, <3>2, <3>3
    <2> QED
      BY <1>1, <2>4, <2>5, SumKept DEF InPhase
  <1> QED
    BY <1>2, <1>3

\* The end of a callback adds its bit, which was not there
\* (conninfra_core.c:704, 726).
LEMMA PhaseEnds ==
    ASSUME FewTypes, CoreType, NEW op, InPhase(op), NEW d \in Drv, SubDone(d)
    PROVE  InPhase(op)'
  <1>1. /\ spc[d] = "done" /\ spc'[d] = "idle" /\ UNCHANGED <<subQ, sop, rsti>>
        /\ \A e \in Drv \ {d} : spc'[e] = spc[e]
        /\ rstState' = rstState + 2 ^ d
    BY DEF SubDone, CoreType, SubType, cbVars
  <1>2. subQ[d] = <<>>
    BY <1>1 DEF InPhase
  <1>3. ~Quiet(d) /\ Quiet(d)' /\ \A e \in Drv \ {d} : Quiet(e)' <=> Quiet(e)
    BY <1>1, <1>2 DEF Quiet
  <1>4. d < rsti
    <2>1. ~(d >= rsti)
      BY <1>3 DEF InPhase
    <2> QED
      BY <2>1, DrvAssumption DEF CoreType, ResetType, Drv
  <1>5. \A e \in Drv :
            /\ e >= rsti' => Quiet(e)'
            /\ subQ'[e] = <<>> \/ (subQ'[e] = <<op>> /\ spc'[e] = "idle")
            /\ spc'[e] # "idle" => sop'[e] = op
    BY <1>1, <1>2, <1>3 DEF InPhase
  <1>6. EndBit(d) = 0 /\ EndBit(d)' = 2 ^ d
    BY <1>1, <1>3, <1>4 DEF EndBit
  <1>7. \A n \in 0 .. 4 : n # d => EndBit(n)' = EndBit(n)
    <2> SUFFICES ASSUME NEW n \in 0 .. 4, n # d PROVE EndBit(n)' = EndBit(n)
      OBVIOUS
    <2>1. CASE n \in Drv
      BY <1>1, <1>3, <2>1 DEF EndBit
    <2>2. CASE n \notin Drv
      BY <1>1, <2>2, DrvAssumption DEF EndBit, Drv, CoreType, ResetType
    <2> QED
      BY <2>1, <2>2
  <1>8. \A n \in 0 .. 4 : EndBit(n) \in Int
    BY EndBits
  <1> DEFINE a(n) == EndBit(n)
             b(n) == EndBit(n)'
  <1>9. rstState = a(0) + a(1) + a(2) + a(3) + a(4)
    BY DEF InPhase
  <1>10. /\ \A n \in 0 .. 4 : a(n) \in Int /\ (n # d => b(n) = a(n))
         /\ a(d) = 0 /\ b(d) = 2 ^ d
    BY <1>6, <1>7, <1>8
  <1>11. d \in 0 .. 4 /\ 2 ^ d \in Int
    BY BitOf
  <1> HIDE DEF a, b
  <1>12. rstState' = b(0) + b(1) + b(2) + b(3) + b(4)
    <2>1. CASE d = 0
      BY <1>1, <1>9, <1>10, <1>11, <2>1
    <2>2. CASE d = 1
      BY <1>1, <1>9, <1>10, <1>11, <2>2
    <2>3. CASE d = 2
      BY <1>1, <1>9, <1>10, <1>11, <2>3
    <2>4. CASE d = 3
      BY <1>1, <1>9, <1>10, <1>11, <2>4
    <2>5. CASE d = 4
      BY <1>1, <1>9, <1>10, <1>11, <2>5
    <2> QED
      BY <1>11, <2>1, <2>2, <2>3, <2>4, <2>5
  <1> QED
    BY <1>5, <1>12 DEF InPhase, b

\* opfunc_chip_rst (conninfra_core.c:349-454): it leaves a phase only when every
\* callback of it has ended.
LEMMA ChipRstPhases ==
    ASSUME FewTypes, CoreType, CallbackPhases, ChipRst
    PROVE  CallbackPhases'
  <1>1. Cb \in Threads
    BY DEF Threads
  <1>2. CASE CbGetOp \/ RstNothingOn \/ RstPowerOn \/ RstOpen
    <2>1. tpc[Cb] \in {"idle", "rst_check", "rst_on", "rst_open"} /\ UNCHANGED <<subQ, spc>>
      BY <1>2 DEF CbGetOp, RstNothingOn, RstPowerOn, RstOpen, subVars
    <2>2. tpc'[Cb] \in {"rst_check", "idle", "on_lock", "rst_on"}
      BY <1>1, <1>2, <2>1 DEF CbGetOp, RstNothingOn, RstPowerOn, RstOpen, Goto, CoreType,
                              ThreadType
    <2> QED
      BY <2>1, <2>2, QuietFrame
  <1>3. CASE RstBegin
    <2>1. /\ tpc[Cb] = "rst_check" /\ tpc'[Cb] = "rst_pre"
          /\ rstState' = 0 /\ rsti' = 0 /\ rstStatus' = CHIP_RST_PRE_CB
          /\ UNCHANGED <<subQ, spc, sop>>
      BY <1>1, <1>3 DEF RstBegin, subVars, Goto, CoreType, ThreadType
    <2>2. \A d \in Drv : Quiet(d)
      BY <2>1 DEF CallbackPhases
    <2>3. InPhase("pre")'
      BY <2>1, <2>2, PhaseBegins
    <2> QED
      BY <2>1, <2>3 DEF CallbackPhases
  <1>4. CASE RstPowered
    <2>1. /\ tpc[Cb] = "rst_on" /\ tpc'[Cb] = "rst_post"
          /\ rstState' = 0 /\ rsti' = 0 /\ rstStatus' = CHIP_RST_POST_CB
          /\ UNCHANGED <<subQ, spc, sop>>
      BY <1>1, <1>4 DEF RstPowered, subVars, Goto, CoreType, ThreadType
    <2>2. \A d \in Drv : Quiet(d)
      BY <2>1 DEF CallbackPhases
    <2>3. InPhase("post")'
      BY <2>1, <2>2, PhaseBegins
    <2> QED
      BY <2>1, <2>3 DEF CallbackPhases
  <1>5. CASE RstPre
    <2>1. /\ tpc[Cb] = "rst_pre" /\ UNCHANGED <<tpc, rstStatus, rstState, spc, sop>>
          /\ rsti < DrvMax /\ rsti' = rsti + 1
          /\ subQ' = [subQ EXCEPT ![rsti] = Append(@, "pre")]
      BY <1>5 DEF RstPre, threadVars, rstVars
    <2>2. InPhase("pre") /\ rstStatus = CHIP_RST_PRE_CB
      BY <2>1 DEF CallbackPhases
    <2>3. InPhase("pre")'
      BY <2>1, <2>2, PhaseAsks
    <2> QED
      BY <2>1, <2>2, <2>3 DEF CallbackPhases
  <1>6. CASE RstPost
    <2>1. /\ tpc[Cb] = "rst_post" /\ UNCHANGED <<tpc, rstStatus, rstState, spc, sop>>
          /\ rsti < DrvMax /\ rsti' = rsti + 1
          /\ subQ' = [subQ EXCEPT ![rsti] = Append(@, "post")]
      BY <1>6 DEF RstPost, threadVars, rstVars
    <2>2. InPhase("post") /\ rstStatus = CHIP_RST_POST_CB
      BY <2>1 DEF CallbackPhases
    <2>3. InPhase("post")'
      BY <2>1, <2>2, PhaseAsks
    <2> QED
      BY <2>1, <2>2, <2>3 DEF CallbackPhases
  <1>7. CASE RstWaitPre \/ RstWaitPost
    <2>1. /\ tpc[Cb] \in {"rst_pre", "rst_post"} /\ rsti = DrvMax /\ rstState = AllDone
          /\ UNCHANGED <<subQ, spc>>
      BY <1>7 DEF RstWaitPre, RstWaitPost, subVars
    <2>2. tpc'[Cb] \in {"off_lock", "rst_open"}
      BY <1>1, <1>7 DEF RstWaitPre, RstWaitPost, Goto, CoreType, ThreadType
    <2>3. \E op : InPhase(op)
      BY <2>1 DEF CallbackPhases
    <2>4. \A d \in Drv : Quiet(d)
      BY <2>1, <2>3, CompleteIsQuiet
    <2> QED
      BY <2>1, <2>2, <2>4 DEF CallbackPhases, Quiet
  <1> QED
    BY <1>2, <1>3, <1>4, <1>5, <1>6, <1>7 DEF ChipRst

\* The radios' threads (conninfra_core.c:685-729).
LEMMA SubPhases ==
    ASSUME FewTypes, CoreType, CallbackPhases, NEW d \in Drv, SubNext(d)
    PROVE  CallbackPhases'
  <1>1. UNCHANGED <<tpc, rstStatus>>
    BY DEF SubNext, SubGetOp, SubCallback, SubOopses, SubDone, threadVars, rstVars
  <1>2. ~Quiet(d)
    BY DEF SubNext, SubGetOp, SubCallback, SubOopses, SubDone, Quiet
  <1>3. CASE tpc[Cb] = "rst_pre"
    <2>1. InPhase("pre")
      BY <1>3 DEF CallbackPhases
    <2>2. InPhase("pre")'
      BY <2>1, PhaseRuns, PhaseEnds DEF SubNext
    <2> QED
      BY <1>1, <1>3, <2>2 DEF CallbackPhases
  <1>4. CASE tpc[Cb] = "rst_post"
    <2>1. InPhase("post")
      BY <1>4 DEF CallbackPhases
    <2>2. InPhase("post")'
      BY <2>1, PhaseRuns, PhaseEnds DEF SubNext
    <2> QED
      BY <1>1, <1>4, <2>2 DEF CallbackPhases
  <1> QED
    BY <1>2, <1>3, <1>4 DEF CallbackPhases

\* The phases of a reset, for any drivers that trigger, register and call.
THEOREM CallbackPhasesHold == FewTypes => (Spec => []CallbackPhases)
  <1> SUFFICES ASSUME FewTypes PROVE Spec => []CallbackPhases
    OBVIOUS
  <1>1. Init => CallbackPhases
    BY DEF Init, CallbackPhases, Quiet, Threads
  <1>2. CoreType /\ CallbackPhases /\ [Next]_vars => CallbackPhases'
    <2> SUFFICES ASSUME CoreType, CallbackPhases, [Next]_vars PROVE CallbackPhases'
      OBVIOUS
    <2>1. CASE CoredNext \/ \E t \in Readers : AccessStarts(t) \/ AccessEnds(t)
      <3>1. PICK t \in Threads \ {Cb} :
                PowerStep(t) \/ AccessStarts(t) \/ AccessEnds(t) \/ (t = Cored /\ CoredGetOp)
        BY <2>1, ThreadsAssumption DEF CoredNext, Threads
      <3>2. UNCHANGED <<rstVars, cbVars, subVars>>
        BY <3>1 DEF PowerStep, PowerOn, PowerOnSet, ReadStatus, PowerOff, PowerOffEnd,
                    ForceOff, ForceOffAlreadyOff, ForceOffDrv, ForceOffEnd, AccessStarts,
                    AccessEnds, CoredGetOp
      <3>3. tpc' = tpc \/ \E label : tpc' = [tpc EXCEPT ![t] = label]
        BY <3>1 DEF PowerStep, PowerOn, PowerOnSet, ReadStatus, PowerOff, PowerOffEnd,
                    ForceOff, ForceOffAlreadyOff, ForceOffDrv, ForceOffEnd, AccessStarts,
                    AccessEnds, CoredGetOp, Goto, Return
      <3>4. tpc'[Cb] = tpc[Cb]
        BY <3>3 DEF CoreType, ThreadType, Threads
      <3> QED
        BY <3>2, <3>4, PhaseFrame DEF rstVars, cbVars, subVars
    <2>2. CASE PowerStep(Cb)
      <3>1. tpc[Cb] \in PowerPC /\ UNCHANGED subVars
        BY <2>2 DEF PowerStep, PowerOn, PowerOnSet, ReadStatus, PowerOff, PowerOffEnd,
                    ForceOff, ForceOffAlreadyOff, ForceOffDrv, ForceOffEnd, PowerPC
      <3>2. \/ tpc' = tpc
            \/ \E label \in {"rst_on", "on_set", "off_lock", "off_end", "force"} :
                  tpc' = [tpc EXCEPT ![Cb] = label]
        BY <2>2 DEF PowerStep, PowerOn, PowerOnSet, ReadStatus, PowerOff, PowerOffEnd,
                    ForceOff, ForceOffAlreadyOff, ForceOffDrv, ForceOffEnd, Goto, Return
      <3>3. {tpc[Cb], tpc'[Cb]} \cap {"rst_pre", "rst_post"} = {}
        BY <3>1, <3>2 DEF PowerPC, CoreType, ThreadType, Threads
      <3> QED
        BY <3>1, <3>3, QuietFrame DEF subVars
    <2>3. CASE \E d \in Triggers : LockRst(d)
      <3>1. UNCHANGED <<tpc, rsti, rstState, subQ, spc, sop>> /\ rstStatus = CHIP_RST_NONE
        BY <2>3 DEF LockRst, threadVars, cbVars, subVars
      <3>2. tpc[Cb] \notin {"rst_pre", "rst_post"}
        BY <3>1 DEF CallbackPhases, CHIP_RST_NONE, CHIP_RST_PRE_CB, CHIP_RST_POST_CB
      <3> QED
        BY <3>1, <3>2, PhaseFrame
    <2>4. CASE \/ \E d \in Triggers : TriggerNext(d)
               \/ \E d \in Registrars : Register(d)
               \/ \E c \in Callers : CallerNext(c)
               \/ UNCHANGED vars
      <3>1. UNCHANGED <<tpc, rstStatus, rsti, rstState, subQ, spc, sop>>
        BY <2>4 DEF TriggerNext, MarkTrigger, SendReset, SendResetFails, Register,
                    CallerNext, CheckRst, SendRequest, vars, threadVars, rstVars, cbVars,
                    subVars
      <3> QED
        BY <3>1, PhaseFrame
    <2> QED
      BY <2>1, <2>2, <2>3, <2>4, ChipRstPhases, SubPhases DEF Next, CbNext
  <1> QED
    BY <1>1, <1>2, CoreTypeHolds, PTL DEF Spec

\* Callbacks keep to their phase (conninfra_core.c:371-393, 418-445): no pre callback
\* runs or waits once the power is being cut, no post callback before it is back or
\* after the reset has ended.
THEOREM CallbacksKeepToPhase == FewTypes => (Spec => []CallbackInPhase)
  <1>1. CallbackPhases => CallbackInPhase
    <2> SUFFICES ASSUME CallbackPhases, NEW d \in Drv, NEW op \in {"pre", "post"},
                        \/ spc[d] # "idle" /\ sop[d] = op
                        \/ \E i \in 1 .. Len(subQ[d]) : subQ[d][i] = op
                 PROVE  rstStatus = IF op = "pre" THEN CHIP_RST_PRE_CB ELSE CHIP_RST_POST_CB
      BY DEF CallbackInPhase
    <2>1. ~Quiet(d)
      BY DEF Quiet
    <2>2. ASSUME NEW p \in {"pre", "post"}, InPhase(p) PROVE op = p
      <3>1. CASE spc[d] # "idle" /\ sop[d] = op
        BY <2>2, <3>1 DEF InPhase
      <3>2. CASE \E i \in 1 .. Len(subQ[d]) : subQ[d][i] = op
        <4>1. subQ[d] = <<>> \/ subQ[d] = <<p>>
          BY <2>2 DEF InPhase
        <4> QED
          BY <3>2, <4>1
      <3> QED
        BY <3>1, <3>2
    <2>3. CASE tpc[Cb] = "rst_pre"
      BY <2>2, <2>3 DEF CallbackPhases
    <2>4. CASE tpc[Cb] = "rst_post"
      BY <2>2, <2>4 DEF CallbackPhases
    <2> QED
      BY <2>1, <2>3, <2>4 DEF CallbackPhases
  <1> QED
    BY <1>1, CallbackPhasesHold, PTL

\* Type correctness, rst_state included: it is never negative.
THEOREM CoreTypeCorrect == FewTypes => (Spec => []TypeOK)
  <1> SUFFICES ASSUME FewTypes PROVE Spec => []TypeOK
    OBVIOUS
  <1> DEFINE StateType == rstState \in Nat
  <1>1. Init => StateType
    BY DEF Init
  <1>2. StateType /\ [Next]_vars => StateType'
    <2> SUFFICES ASSUME rstState \in Nat, [Next]_vars PROVE rstState' \in Nat
      OBVIOUS
    <2>1. CASE \E d \in Drv : SubDone(d)
      <3>1. PICK d \in Drv : rstState' = rstState + 2 ^ d
        BY <2>1 DEF SubDone
      <3>2. 2 ^ d \in Nat
        BY BitOf
      <3> QED
        BY <3>1, <3>2
    <2>2. CASE rstState' = 0 \/ rstState' = rstState
      BY <2>2
    <2> QED
      BY <2>1, <2>2
      DEF Next, CoredNext, CbNext, PowerStep, PowerOn, PowerOnSet, ReadStatus, PowerOff,
          PowerOffEnd, ForceOff, ForceOffAlreadyOff, ForceOffDrv, ForceOffEnd, AccessStarts,
          AccessEnds, CoredGetOp, ChipRst, CbGetOp, RstNothingOn, RstBegin, RstPre,
          RstWaitPre, RstPowerOn, RstPowered, RstPost, RstWaitPost, RstOpen, SubNext,
          SubGetOp, SubCallback, SubOopses, LockRst, TriggerNext, MarkTrigger, SendReset,
          SendResetFails, Register, CallerNext, CheckRst, SendRequest, vars, rstVars
  <1>3. CoreType /\ StateType => TypeOK
    BY DEF TypeOK
  <1> HIDE DEF StateType
  <1> QED
    BY <1>1, <1>2, <1>3, CoreTypeHolds, PTL DEF Spec

-----------------------------------------------------------------------------
(* Who triggered *)

\* conninfra_trigger_whole_chip_rst (conninfra.c:152-169, conninfra_core.c:883-930):
\* one driver triggers at a time, so nobody overwrites trg_drv.
LEMMA TriggerKeepsKnown ==
    ASSUME CoreType, OneReset, TriggerKnown, NEW d \in Triggers, LockRst(d) \/ TriggerNext(d)
    PROVE  TriggerKnown'
  <1>1. UNCHANGED <<tpc, cbDrv>>
    BY DEF LockRst, TriggerNext, MarkTrigger, SendReset, SendResetFails, threadVars, cbVars
  <1>2. CASE LockRst(d)
    <2>1. gpc' = [gpc EXCEPT ![d] = "mark"] /\ UNCHANGED <<trgDrv, cbQ>>
      BY <1>2 DEF LockRst
    <2> QED
      BY <1>1, <2>1 DEF TriggerKnown, CoreType, ResetType
  <1>3. CASE TriggerNext(d)
    <2>1. d \in Triggering
      BY <1>3 DEF TriggerNext, MarkTrigger, SendReset, SendResetFails, Triggering
    <2>2. cbQ = <<>> /\ tpc[Cb] = "idle" /\ \A e \in Triggers : e # d => gpc[e] = "idle"
      BY <2>1 DEF OneReset, ResetRuns, Triggering
    <2>3. CASE MarkTrigger(d)
      <3>1. gpc' = [gpc EXCEPT ![d] = "send"] /\ trgDrv' = d /\ UNCHANGED cbQ
        BY <2>3 DEF MarkTrigger
      <3> QED
        BY <1>1, <2>2, <3>1 DEF TriggerKnown, CoreType, ResetType
    <2>4. CASE SendReset(d)
      <3>1. /\ gpc[d] = "send" /\ gpc' = [gpc EXCEPT ![d] = "idle"]
            /\ UNCHANGED trgDrv /\ cbQ' = Append(cbQ, d)
        BY <2>4 DEF SendReset, rstVars
      <3>2. trgDrv = d /\ Head(cbQ') = d
        BY <2>2, <3>1 DEF TriggerKnown
      <3> QED
        BY <1>1, <2>2, <3>1, <3>2 DEF TriggerKnown, CoreType, ResetType
    <2>5. CASE SendResetFails(d)
      <3>1. gpc' = [gpc EXCEPT ![d] = "idle"] /\ UNCHANGED <<trgDrv, cbQ>>
        BY <2>5 DEF SendResetFails, rstVars
      <3> QED
        BY <1>1, <3>1 DEF TriggerKnown, CoreType, ResetType
    <2> QED
      BY <1>3, <2>3, <2>4, <2>5 DEF TriggerNext
  <1> QED
    BY <1>2, <1>3

\* opfunc_chip_rst: the reset it takes is the one trg_drv is about, and trg_drv is
\* forgotten only after the last callback.
LEMMA ChipRstKeepsKnown ==
    ASSUME CoreType, OneReset, TriggerKnown, ChipRst
    PROVE  TriggerKnown'
  <1>1. UNCHANGED gpc /\ Cb \in Threads
    BY DEF ChipRst, CbGetOp, RstNothingOn, RstBegin, RstPre, RstWaitPre, RstPowerOn,
           RstPowered, RstPost, RstWaitPost, RstOpen, Threads
  <1>2. Triggering = {}
    BY DEF ChipRst, CbGetOp, RstNothingOn, RstBegin, RstPre, RstWaitPre, RstPowerOn,
           RstPowered, RstPost, RstWaitPost, RstOpen, OneReset, ResetRuns
  <1>3. \A d \in Triggers : gpc'[d] = "send" => trgDrv' = d
    BY <1>1, <1>2 DEF Triggering
  <1>4. cbQ' = <<>>
    <2>1. CASE CbGetOp
      BY <2>1, TakesLastReset
    <2>2. CASE ~CbGetOp
      BY <2>2 DEF ChipRst, RstNothingOn, RstBegin, RstPre, RstWaitPre, RstPowerOn,
                  RstPowered, RstPost, RstWaitPost, RstOpen, OneReset, ResetRuns
    <2> QED
      BY <2>1, <2>2
  <1>5. tpc'[Cb] \notin {"idle", "rst_open"} => trgDrv' = cbDrv'
    <2>1. CASE CbGetOp
      BY <2>1 DEF CbGetOp, TriggerKnown, rstVars
    <2>2. CASE RstNothingOn \/ RstWaitPost \/ RstOpen
      BY <1>1, <2>2 DEF RstNothingOn, RstWaitPost, RstOpen, Goto, CoreType, ThreadType
    <2>3. CASE RstBegin \/ RstPre \/ RstWaitPre \/ RstPowerOn \/ RstPowered \/ RstPost
      <3>1. tpc[Cb] \notin {"idle", "rst_open"} /\ UNCHANGED <<trgDrv, cbDrv>>
        BY <2>3 DEF RstBegin, RstPre, RstWaitPre, RstPowerOn, RstPowered, RstPost, rstVars
      <3> QED
        BY <3>1 DEF TriggerKnown
    <2> QED
      BY <2>1, <2>2, <2>3 DEF ChipRst
  <1> QED
    BY <1>3, <1>4, <1>5 DEF TriggerKnown

\* Who triggered is known from the trigger to the end of the post callbacks.
THEOREM TriggerKnownHolds == Spec => []TriggerKnown
  <1>1. Init => TriggerKnown
    BY DEF Init, TriggerKnown, Threads
  <1>2. CoreType /\ OneReset /\ TriggerKnown /\ [Next]_vars => TriggerKnown'
    <2> SUFFICES ASSUME CoreType, OneReset, TriggerKnown, [Next]_vars PROVE TriggerKnown'
      OBVIOUS
    <2>1. CASE CoredNext \/ \E t \in Readers : AccessStarts(t) \/ AccessEnds(t)
      <3>1. PICK t \in Threads \ {Cb} :
                PowerStep(t) \/ AccessStarts(t) \/ AccessEnds(t) \/ (t = Cored /\ CoredGetOp)
        BY <2>1, ThreadsAssumption DEF CoredNext, Threads
      <3>2. UNCHANGED <<gpc, cbQ, trgDrv, cbDrv>>
        BY <3>1 DEF PowerStep, PowerOn, PowerOnSet, ReadStatus, PowerOff, PowerOffEnd,
                    ForceOff, ForceOffAlreadyOff, ForceOffDrv, ForceOffEnd, AccessStarts,
                    AccessEnds, CoredGetOp, rstVars, cbVars
      <3>3. tpc' = tpc \/ \E label : tpc' = [tpc EXCEPT ![t] = label]
        BY <3>1 DEF PowerStep, PowerOn, PowerOnSet, ReadStatus, PowerOff, PowerOffEnd,
                    ForceOff, ForceOffAlreadyOff, ForceOffDrv, ForceOffEnd, AccessStarts,
                    AccessEnds, CoredGetOp, Goto, Return
      <3>4. tpc'[Cb] = tpc[Cb]
        BY <3>3 DEF CoreType, ThreadType, Threads
      <3> QED
        BY <3>2, <3>4 DEF TriggerKnown
    <2>2. CASE PowerStep(Cb)
      <3>1. tpc[Cb] \notin {"idle", "rst_open"} /\ UNCHANGED <<gpc, cbQ, trgDrv, cbDrv>>
        BY <2>2 DEF PowerStep, PowerOn, PowerOnSet, ReadStatus, PowerOff, PowerOffEnd,
                    ForceOff, ForceOffAlreadyOff, ForceOffDrv, ForceOffEnd, rstVars, cbVars
      <3> QED
        BY <3>1 DEF TriggerKnown
    <2>3. CASE \/ \E d \in Drv : SubNext(d)
               \/ \E d \in Registrars : Register(d)
               \/ \E c \in Callers : CallerNext(c)
               \/ UNCHANGED vars
      <3>1. UNCHANGED <<tpc, gpc, cbQ, trgDrv, cbDrv>>
        BY <2>3 DEF SubNext, SubGetOp, SubCallback, SubOopses, SubDone, Register, CallerNext, CheckRst,
                    SendRequest, vars, threadVars, rstVars, cbVars
      <3> QED
        BY <3>1 DEF TriggerKnown
    <2> QED
      BY <2>1, <2>2, <2>3, TriggerKeepsKnown, ChipRstKeepsKnown DEF Next, CbNext
  <1> QED
    BY <1>1, <1>2, CoreTypeHolds, OneResetHolds, PTL DEF Spec

\* A pre callback is told who triggered the reset that runs
\* (conninfra_core.c:696, 920, 443).
THEOREM PreAlwaysSeesTrigger == FewTypes => (Spec => []PreSeesTrigger)
  <1>1. CallbackPhases /\ TriggerKnown => PreSeesTrigger
    <2> SUFFICES ASSUME CallbackPhases, TriggerKnown, NEW d \in Drv, spc[d] = "call"
                 PROVE  trgDrv = cbDrv
      BY DEF PreSeesTrigger
    <2>1. tpc[Cb] \in {"rst_pre", "rst_post"}
      BY DEF CallbackPhases, Quiet
    <2> QED
      BY <2>1 DEF TriggerKnown
  <1> QED
    BY <1>1, CallbackPhasesHold, TriggerKnownHolds, PTL
=============================================================================
