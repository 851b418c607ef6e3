------------------------ MODULE DispatchApplyProofs ------------------------
(***************************************************************************)
(* Proofs, for any number of iterations, processors and any queue, that    *)
(* dispatch_apply_f() calls its function once for each index and that no   *)
(* unit uses the stack frame of the caller after it has returned.          *)
(***************************************************************************)
EXTENDS DispatchApply, FiniteSetTheorems, TLAPS

Labels == {"none", "queued", "take", "func", "leave", "signal", "done"}
UnitsAt(S) == {u \in Units : upc[u] \in S}

Active == {"queued", "take", "func", "leave"}
Taking == {"queued", "take", "func"}

\* The units have been pushed.
Parallel == upc # [u \in Units |-> "none"]

\* Index i is taken: its call is done, or exactly one unit is about to make it.
Taken(i) == \/ /\ count[i] = 1
               /\ \A u \in Units : upc[u] = "func" => idx[u] # i
            \/ /\ count[i] = 0
               /\ \E u \in Units : /\ upc[u] = "func" /\ idx[u] = i
                                   /\ \A v \in Units :
                                        upc[v] = "func" /\ idx[v] = i => v = u

Free(i) == count[i] = 0 /\ \A u \in Units : upc[u] = "func" => idx[u] # i

\* What the shared counter, da_thr_cnt and the semaphore say of the units.
Accounts ==
    /\ thrcnt = Cardinality(UnitsAt(Active))
    /\ index <= iterations + MaxThr - Cardinality(UnitsAt(Taking))
    /\ (\E u \in Units : upc[u] \in {"leave", "signal", "done"}) => index >= iterations
    /\ thrcnt > 0 => permits = 0 /\ \A u \in Units : upc[u] # "signal"
    /\ permits <= 1
    /\ permits = 1 => \A u \in Units : upc[u] # "signal"
    /\ \A u, v \in Units : upc[u] = "signal" /\ upc[v] = "signal" => u = v
    /\ \A i \in Indices : IF i < iterations /\ i < index THEN Taken(i) ELSE Free(i)

Inv ==
    /\ ApplyTypeOK
    /\ caller \in {"start", "serial"} =>
           /\ ~Parallel
           /\ thrcnt = Least(iterations, MaxThr)
           /\ index = 0 /\ permits = 0
           /\ \A i \in Indices : count[i] = 0
    /\ caller \in {"unit", "wait"} => Parallel
    /\ Parallel => 0 \in Units /\ upc[0] # "none" /\ Accounts
    /\ EachIndexOnce
    /\ FrameAlive

-----------------------------------------------------------------------------
\* The units are finitely many, and so are those at some labels.
LEMMA CountNat ==
    ASSUME NEW S
    PROVE  /\ IsFiniteSet(UnitsAt(S))
           /\ Cardinality(UnitsAt(S)) \in Nat
           /\ Cardinality(UnitsAt(S)) = 0 <=> UnitsAt(S) = {}
           /\ Cardinality(UnitsAt(S)) <= MaxThr
<1>1. MaxThr \in Nat /\ MaxThr > 0
  BY SizesAssumption DEF MaxThr, Least
<1>2. IsFiniteSet(Units) /\ Cardinality(Units) = MaxThr
  BY <1>1, FS_Interval DEF Units
<1>3. UnitsAt(S) \in SUBSET Units
  BY DEF UnitsAt
<1>4. IsFiniteSet(UnitsAt(S)) /\ Cardinality(UnitsAt(S)) <= Cardinality(Units)
  BY <1>2, <1>3, FS_Subset
<1>5. Cardinality(UnitsAt(S)) \in Nat
  BY <1>4, FS_CardinalityType
<1>6. Cardinality(UnitsAt(S)) = 0 <=> UnitsAt(S) = {}
  BY <1>4, FS_EmptySet
<1> QED
  BY <1>2, <1>4, <1>5, <1>6

\* A unit that stays inside S, or outside, does not change the number; one that
\* leaves S takes one away.
LEMMA CountMove ==
    ASSUME NEW u \in Units, NEW l, NEW S, upc \in [Units -> Labels],
           upc' = [upc EXCEPT ![u] = l]
    PROVE  /\ (l \in S <=> upc[u] \in S) =>
                  Cardinality(UnitsAt(S))' = Cardinality(UnitsAt(S))
           /\ l \notin S /\ upc[u] \in S =>
                  Cardinality(UnitsAt(S))' = Cardinality(UnitsAt(S)) - 1
<1>1. ASSUME l \in S <=> upc[u] \in S
      PROVE Cardinality(UnitsAt(S))' = Cardinality(UnitsAt(S))
  <2>1. UnitsAt(S)' = UnitsAt(S)
    BY <1>1 DEF UnitsAt
  <2> QED
    BY <2>1
<1>2. ASSUME l \notin S, upc[u] \in S
      PROVE Cardinality(UnitsAt(S))' = Cardinality(UnitsAt(S)) - 1
  <2>1. UnitsAt(S)' = UnitsAt(S) \ {u} /\ u \in UnitsAt(S)
    BY <1>2 DEF UnitsAt
  <2>2. Cardinality(UnitsAt(S) \ {u}) = Cardinality(UnitsAt(S)) - 1
    BY <2>1, CountNat, FS_RemoveElement
  <2> QED
    BY <2>1, <2>2
<1> QED
  BY <1>1, <1>2

\* The counter does not wrap round as long as it stays below the word size.
LEMMA NoWrap ==
    ASSUME NEW a \in Nat, NEW b \in Nat, a < b
    PROVE  a % b = a
  OBVIOUS

\* The invariant holds before the call.
LEMMA InitInv == ApplyInit => Inv
<1> SUFFICES ASSUME ApplyInit PROVE Inv
  OBVIOUS
<1>1. ApplyTypeOK
  BY SizesAssumption DEF ApplyInit, ApplyTypeOK, Least, MaxThr, Units, Indices
<1>2. ~Parallel
  BY DEF ApplyInit, Parallel
<1>3. EachIndexOnce /\ FrameAlive
  BY DEF ApplyInit, EachIndexOnce, FrameAlive
<1> QED
  BY <1>1, <1>2, <1>3 DEF ApplyInit, Inv

-----------------------------------------------------------------------------
\* Pushing the units establishes the accounts.
LEMMA PushInv == Inv /\ dispatch_apply_f => Inv'
<1> SUFFICES ASSUME Inv, dispatch_apply_f PROVE Inv'
  OBVIOUS
<1> USE DEF dispatch_apply_f, args
<1>0. /\ MaxThr \in Nat /\ MaxThr > 0 /\ ApplyTypeOK /\ ~Parallel /\ index = 0 /\ permits = 0
      /\ thrcnt = Least(iterations, MaxThr) /\ \A i \in Indices : count[i] = 0
      /\ iterations \in Nat /\ MaxIterations \in Nat
  BY SizesAssumption DEF Inv, MaxThr, Least, ApplyTypeOK
<1>1. CASE iterations = 0
  <2>1. ApplyTypeOK' /\ ~Parallel'
    BY <1>0, <1>1 DEF ApplyTypeOK, Parallel
  <2>2. EachIndexOnce' /\ FrameAlive'
    BY <1>0, <1>1 DEF EachIndexOnce, FrameAlive, Parallel, ApplyTypeOK
  <2> QED
    BY <1>0, <1>1, <2>1, <2>2 DEF Inv
<1>2. CASE iterations # 0 /\ (dq.width <= 2 \/ thrcnt <= 1)
  <2>1. ApplyTypeOK' /\ ~Parallel'
    BY <1>0, <1>2 DEF ApplyTypeOK, Parallel
  <2>2. EachIndexOnce' /\ FrameAlive'
    BY <1>0, <1>2 DEF EachIndexOnce, FrameAlive, Inv
  <2> QED
    BY <1>0, <1>2, <2>1, <2>2 DEF Inv, Least
<1>3. CASE iterations # 0 /\ ~(dq.width <= 2 \/ thrcnt <= 1)
  <2>0. PushUnits /\ UNCHANGED <<args, idx, index, thrcnt, permits, count>>
    BY <1>3
  <2>1. thrcnt \in Nat /\ thrcnt > 1 /\ thrcnt <= MaxThr
    BY <1>0, <1>3 DEF Least, ApplyTypeOK
  <2>2. \A u \in Units : upc'[u] \in {"none", "queued", "take"}
    BY <2>0 DEF PushUnits
  <2>3. ApplyTypeOK'
    BY <1>0, <2>0, <2>2 DEF ApplyTypeOK, PushUnits
  <2>4. 0 \in Units /\ upc'[0] # "none" /\ Parallel'
    BY <1>0, <2>0, <2>1 DEF Units, Parallel, PushUnits
  <2>5. UnitsAt(Active)' = 0 .. thrcnt - 1
    BY <1>0, <2>0, <2>1 DEF UnitsAt, Active, Units, PushUnits
  <2>6. Cardinality(0 .. thrcnt - 1) = thrcnt
    BY <2>1, FS_Interval
  <2>7. thrcnt' = Cardinality(UnitsAt(Active))'
    BY <2>0, <2>5, <2>6
  <2>8. UnitsAt(Taking)' = UnitsAt(Active)'
    BY <2>2 DEF UnitsAt, Taking, Active
  <2>9. index' <= iterations' + MaxThr - Cardinality(UnitsAt(Taking))'
    BY <1>0, <2>0, <2>1, <2>7, <2>8
  <2>10. \A i \in Indices : Free(i)' /\ ~(i < index')
    BY <1>0, <2>0, <2>2 DEF Free, Indices
  <2>11. Accounts'
    BY <1>0, <2>0, <2>2, <2>7, <2>9, <2>10 DEF Accounts
  <2>12. EachIndexOnce' /\ FrameAlive'
    BY <1>0, <2>0 DEF EachIndexOnce, FrameAlive, PushUnits
  <2> QED
    BY <2>0, <2>3, <2>4, <2>11, <2>12 DEF Inv, PushUnits
<1> QED
  BY <1>1, <1>2, <1>3

\* The serial loop calls the function for each index.
LEMMA SerialInv == Inv /\ ApplySerial => Inv'
<1> SUFFICES ASSUME Inv, ApplySerial PROVE Inv'
  OBVIOUS
<1>1. ApplyTypeOK' /\ ~Parallel'
  BY DEF Inv, ApplyTypeOK, ApplySerial, args, Parallel
<1>2. iterations \in 0 .. MaxIterations /\ MaxIterations \in Nat
  BY SizesAssumption DEF Inv, ApplyTypeOK
<1>3. EachIndexOnce'
  BY <1>2 DEF Inv, ApplyTypeOK, ApplySerial, args, EachIndexOnce, Indices
<1>4. FrameAlive'
  BY DEF Inv, ApplySerial, FrameAlive, Parallel
<1> QED
  BY <1>1, <1>3, <1>4 DEF Inv, ApplySerial

\* The caller returns only when every unit is done.
LEMMA WaitInv == Inv /\ CallerWait => Inv'
<1> SUFFICES ASSUME Inv, CallerWait PROVE Inv'
  OBVIOUS
<1> USE DEF CallerWait, args
<1>1. Parallel /\ Accounts /\ ApplyTypeOK /\ 0 \in Units /\ upc[0] # "none"
  BY DEF Inv
<1>2. permits = 1 /\ thrcnt = 0 /\ \A u \in Units : upc[u] # "signal"
  BY <1>1 DEF Accounts, ApplyTypeOK
<1>3. UnitsAt(Active) = {}
  BY <1>1, <1>2, CountNat DEF Accounts
<1>4. \A u \in Units : upc[u] \in {"none", "done"}
  BY <1>1, <1>2, <1>3 DEF UnitsAt, Active, ApplyTypeOK
<1>5. index >= iterations
  BY <1>1, <1>4 DEF Accounts
<1>6. \A i \in 0 .. iterations - 1 : count[i] = 1
  <2> SUFFICES ASSUME NEW i \in 0 .. iterations - 1 PROVE count[i] = 1
    OBVIOUS
  <2>1. iterations \in 0 .. MaxIterations /\ MaxIterations \in Nat /\ index \in Nat
    BY <1>1, SizesAssumption DEF ApplyTypeOK
  <2>2. i \in Indices /\ i < iterations /\ i < index
    BY <1>5, <2>1 DEF Indices
  <2>3. Taken(i)
    BY <1>1, <2>2 DEF Accounts
  <2>4. \A u \in Units : upc[u] # "func"
    BY <1>4
  <2> QED
    BY <2>3, <2>4 DEF Taken
<1>7. ApplyTypeOK'
  BY <1>1, <1>2 DEF ApplyTypeOK
<1>8. EachIndexOnce' /\ FrameAlive'
  BY <1>4, <1>6 DEF EachIndexOnce, FrameAlive, Inv
<1>9. Parallel' /\ upc' = upc
  BY <1>1 DEF Parallel
<1>10. Accounts'
  BY <1>1, <1>2, <1>9 DEF Accounts, ApplyTypeOK, UnitsAt, Taken, Free
<1> QED
  BY <1>1, <1>7, <1>8, <1>9, <1>10 DEF Inv

\* The caller finishes the unit it runs itself.
LEMMA UnitDoneInv == Inv /\ CallerUnitDone => Inv'
<1> SUFFICES ASSUME Inv, CallerUnitDone PROVE Inv'
  OBVIOUS
<1> USE DEF CallerUnitDone, args
<1>1. Parallel /\ Accounts /\ ApplyTypeOK /\ 0 \in Units /\ upc[0] # "none"
  BY DEF Inv
<1>2. Parallel' /\ Accounts' /\ ApplyTypeOK'
  BY <1>1 DEF Parallel, Accounts, UnitsAt, Taken, Free, ApplyTypeOK
<1>3. EachIndexOnce' /\ FrameAlive'
  BY DEF EachIndexOnce, FrameAlive, Inv
<1> QED
  BY <1>1, <1>2, <1>3 DEF Inv

-----------------------------------------------------------------------------
\* The steps of a unit.
LEMMA UnitInv == ASSUME NEW u \in Units PROVE Inv /\ Unit(u) => Inv'
<1> SUFFICES ASSUME Inv, Unit(u) PROVE Inv'
  OBVIOUS
<1> USE DEF args
<1>0. /\ ApplyTypeOK /\ upc \in [Units -> Labels] /\ MaxThr \in Nat /\ iterations \in Nat
      /\ upc[u] \in {"queued", "take", "func", "leave", "signal"}
      /\ iterations <= MaxIterations /\ MaxIterations \in Nat /\ WordSize \in Nat
  <2>1. upc[u] \in {"queued", "take", "func", "leave", "signal"}
    BY DEF Unit, StartUnit, TakeIndex, CallFunc, LeaveUnit, Signal
  <2>2. MaxThr \in Nat
    BY SizesAssumption DEF MaxThr, Least
  <2>3. ApplyTypeOK /\ upc \in [Units -> Labels]
    BY DEF Inv, ApplyTypeOK, Labels
  <2>4. iterations \in Nat /\ iterations <= MaxIterations
    BY <2>3, SizesAssumption DEF ApplyTypeOK
  <2> QED
    BY <2>1, <2>2, <2>3, <2>4, SizesAssumption
<1>1. Parallel /\ Accounts /\ 0 \in Units /\ upc[0] # "none"
  BY <1>0 DEF Inv, Parallel
<1>2. caller \in {"unit", "wait"}
  BY <1>0, <1>1 DEF Inv, FrameAlive, ApplyTypeOK
<1>3. ASSUME NEW l \in {"take", "func", "leave", "signal", "done"}, caller' = caller,
             upc' = [upc EXCEPT ![u] = l], ApplyTypeOK', Accounts',
             \A i \in Indices : count'[i] <= 1
      PROVE Inv'
  <2>1. upc'[0] # "none" /\ Parallel'
    BY <1>0, <1>1, <1>3 DEF Parallel
  <2>2. EachIndexOnce' /\ FrameAlive'
    BY <1>2, <1>3 DEF EachIndexOnce, FrameAlive
  <2> QED
    BY <1>1, <1>2, <1>3, <2>1, <2>2 DEF Inv
<1>4. \A i \in Indices : count[i] <= 1
  BY DEF Inv, EachIndexOnce
<1>5. CASE StartUnit(u)
  <2> USE <1>5 DEF StartUnit
  <2>1. ApplyTypeOK'
    BY <1>0 DEF ApplyTypeOK
  <2>2. Cardinality(UnitsAt(Active))' = Cardinality(UnitsAt(Active))
    BY <1>0, CountMove DEF Active
  <2>3. Cardinality(UnitsAt(Taking))' = Cardinality(UnitsAt(Taking))
    BY <1>0, CountMove DEF Taking
  <2>4. \A i \in Indices : (Taken(i) => Taken(i)') /\ (Free(i) => Free(i)')
    BY <1>0 DEF Taken, Free
  <2>5. Accounts'
    BY <1>0, <1>1, <2>2, <2>3, <2>4 DEF Accounts
  <2> QED
    BY <1>3, <1>4, <2>1, <2>5
<1>6. CASE TakeIndex(u)
  <2> USE <1>6 DEF TakeIndex
  <2>1. Cardinality(UnitsAt(Taking)) \in Nat /\ Cardinality(UnitsAt(Taking)) > 0
        /\ Cardinality(UnitsAt(Taking)) <= MaxThr
    <3>1. u \in UnitsAt(Taking)
      BY DEF UnitsAt, Taking
    <3> QED
      BY <3>1, CountNat
  <2>2. index \in Nat /\ index + 1 < WordSize
    BY <1>0, <1>1, <2>1, WordAssumption DEF Accounts, ApplyTypeOK
  <2>3. index' = index + 1
    BY <1>0, <2>2, NoWrap
  <2>4. CASE index < iterations
    <3>1. upc' = [upc EXCEPT ![u] = "func"] /\ idx' = [idx EXCEPT ![u] = index]
      BY <2>4
    <3>2. ApplyTypeOK'
      BY <1>0, <2>2, <2>3, <2>4, <3>1 DEF ApplyTypeOK
    <3>3. Cardinality(UnitsAt(Active))' = Cardinality(UnitsAt(Active))
      BY <1>0, <3>1, CountMove DEF Active
    <3>4. Cardinality(UnitsAt(Taking))' = Cardinality(UnitsAt(Taking))
      BY <1>0, <3>1, CountMove DEF Taking
    <3>6. ASSUME NEW i \in Indices, i = index PROVE Taken(i)'
      <4>1. Free(i)
        BY <1>1, <2>2, <3>6 DEF Accounts
      <4>2. upc'[u] = "func" /\ idx'[u] = i /\ count'[i] = 0
        BY <4>1, <1>0, <3>1, <3>6 DEF Free, ApplyTypeOK
      <4>3. \A v \in Units : upc'[v] = "func" /\ idx'[v] = i => v = u
        BY <4>1, <1>0, <3>1, <3>6 DEF Free, ApplyTypeOK
      <4> QED
        BY <4>2, <4>3 DEF Taken
    <3>7. \A i \in Indices : i # index => (Taken(i) => Taken(i)') /\ (Free(i) => Free(i)')
      BY <1>0, <3>1 DEF Taken, Free, ApplyTypeOK
    <3>8. \A i \in Indices : IF i < iterations /\ i < index' THEN Taken(i)' ELSE Free(i)'
      <4> SUFFICES ASSUME NEW i \in Indices
                   PROVE  IF i < iterations /\ i < index' THEN Taken(i)' ELSE Free(i)'
        OBVIOUS
      <4>1. i \in Nat /\ (i < index' <=> i < index \/ i = index)
        BY <2>2, <2>3 DEF Indices
      <4>2. IF i < iterations /\ i < index THEN Taken(i) ELSE Free(i)
        BY <1>1 DEF Accounts
      <4>3. CASE i = index
        BY <4>3, <4>1, <2>4, <3>6
      <4>4. CASE i # index
        BY <4>1, <4>2, <4>4, <3>7
      <4> QED
        BY <4>3, <4>4
    <3>9. Accounts'
      BY <1>0, <1>1, <2>1, <2>2, <2>3, <2>4, <3>1, <3>3, <3>4, <3>8, SMTT(40) DEF Accounts, ApplyTypeOK
    <3> QED
      BY <1>3, <1>4, <3>1, <3>2, <3>9
  <2>5. CASE ~(index < iterations)
    <3>1. upc' = [upc EXCEPT ![u] = "leave"] /\ UNCHANGED idx
      BY <2>5
    <3>2. ApplyTypeOK'
      BY <1>0, <2>2, <2>3, <3>1 DEF ApplyTypeOK
    <3>3. Cardinality(UnitsAt(Active))' = Cardinality(UnitsAt(Active))
      BY <1>0, <3>1, CountMove DEF Active
    <3>4. Cardinality(UnitsAt(Taking))' = Cardinality(UnitsAt(Taking)) - 1
      <4>1. "leave" \notin Taking /\ upc[u] \in Taking
        BY DEF Taking
      <4> QED
        BY <1>0, <3>1, <4>1, CountMove
    <3>5. \A i \in Indices : (Taken(i) => Taken(i)') /\ (Free(i) => Free(i)')
      BY <1>0, <3>1 DEF Taken, Free, ApplyTypeOK
    <3>6. \A i \in Indices : IF i < iterations /\ i < index' THEN Taken(i)' ELSE Free(i)'
      BY <1>0, <1>1, <2>2, <2>3, <2>5, <3>5 DEF Accounts, Indices
    <3>7. Accounts'
      BY <1>0, <1>1, <2>1, <2>2, <2>3, <2>5, <3>1, <3>3, <3>4, <3>6, SMTT(40)
           DEF Accounts, ApplyTypeOK
    <3> QED
      BY <1>3, <1>4, <3>1, <3>2, <3>7
  <2> QED
    BY <2>4, <2>5
<1>7. CASE CallFunc(u)
  <2> USE <1>7 DEF CallFunc
  <2>1. idx[u] \in Indices /\ idx[u] < iterations
    BY <1>0 DEF ApplyTypeOK, Indices
  <2>2. idx[u] < index /\ Taken(idx[u])
    BY <1>0, <1>1, <2>1 DEF Accounts, Free
  <2>3. count[idx[u]] = 0 /\ \A v \in Units : upc[v] = "func" /\ idx[v] = idx[u] => v = u
    BY <2>2 DEF Taken
  <2>4. ApplyTypeOK'
    BY <1>0, <2>1 DEF ApplyTypeOK
  <2>5. Cardinality(UnitsAt(Active))' = Cardinality(UnitsAt(Active))
    BY <1>0, CountMove DEF Active
  <2>6. Cardinality(UnitsAt(Taking))' = Cardinality(UnitsAt(Taking))
    BY <1>0, CountMove DEF Taking
  <2>7. Taken(idx[u])'
    BY <1>0, <2>1, <2>3 DEF Taken, ApplyTypeOK
  <2>8. \A i \in Indices : i # idx[u] => (Taken(i) => Taken(i)') /\ (Free(i) => Free(i)')
    BY <1>0, <2>1 DEF Taken, Free, ApplyTypeOK
  <2>9. \A i \in Indices : IF i < iterations /\ i < index THEN Taken(i)' ELSE Free(i)'
    BY <1>0, <1>1, <2>1, <2>2, <2>7, <2>8 DEF Accounts
  <2>10. Accounts'
    BY <1>0, <1>1, <2>5, <2>6, <2>9 DEF Accounts
  <2>11. \A i \in Indices : count'[i] <= 1
    BY <1>0, <1>4, <2>1, <2>3 DEF ApplyTypeOK
  <2> QED
    BY <1>3, <2>4, <2>10, <2>11
<1>8. CASE LeaveUnit(u)
  <2> USE <1>8 DEF LeaveUnit
  <2>1. Cardinality(UnitsAt(Active)) \in Nat /\ Cardinality(UnitsAt(Active)) > 0
    <3>1. u \in UnitsAt(Active)
      BY DEF UnitsAt, Active
    <3> QED
      BY <3>1, CountNat
  <2>2. thrcnt \in Nat /\ thrcnt > 0 /\ permits = 0 /\ \A v \in Units : upc[v] # "signal"
    BY <1>1, <2>1 DEF Accounts
  <2> DEFINE l == IF thrcnt' = 0 THEN "signal" ELSE "done"
  <2>3. l \in {"signal", "done"} /\ upc' = [upc EXCEPT ![u] = l]
    OBVIOUS
  <2> HIDE DEF l
  <2>4. ApplyTypeOK'
    BY <1>0, <2>2, <2>3 DEF ApplyTypeOK
  <2>5. Cardinality(UnitsAt(Active))' = Cardinality(UnitsAt(Active)) - 1
    <3>1. l \notin Active /\ upc[u] \in Active
      BY <2>3 DEF Active
    <3>2. upc \in [Units -> Labels]
      BY <1>0
    <3> QED
      BY <2>3, <3>1, <3>2, CountMove
  <2>6. Cardinality(UnitsAt(Taking))' = Cardinality(UnitsAt(Taking))
    <3>1. l \notin Taking /\ upc[u] \notin Taking
      BY <2>3 DEF Taking
    <3>2. l \in Taking <=> upc[u] \in Taking
      BY <3>1
    <3>3. upc \in [Units -> Labels]
      BY <1>0
    <3> QED
      BY <2>3, <3>2, <3>3, CountMove, ZenonT(40)
  <2>7. \A i \in Indices : (Taken(i) => Taken(i)') /\ (Free(i) => Free(i)')
    BY <1>0, <2>3, SMTT(40) DEF Taken, Free
  <2>8. thrcnt' > 0 => l = "done"
    BY DEF l
  <2>9. Accounts'
    BY <1>0, <1>1, <2>2, <2>3, <2>5, <2>6, <2>7, <2>8, SMTT(40) DEF Accounts
  <2> QED
    BY <1>3, <1>4, <2>3, <2>4, <2>9
<1>9. CASE Signal(u)
  <2> USE <1>9 DEF Signal
  <2>1. thrcnt = 0 /\ permits = 0 /\ \A v \in Units : upc[v] = "signal" => v = u
    BY <1>0, <1>1 DEF Accounts, ApplyTypeOK
  <2>2. ApplyTypeOK'
    BY <1>0 DEF ApplyTypeOK
  <2>3. Cardinality(UnitsAt(Active))' = Cardinality(UnitsAt(Active))
    <3>1. "done" \notin Active /\ upc[u] \notin Active
      BY DEF Active
    <3> QED
      BY <1>0, <3>1, CountMove
  <2>4. Cardinality(UnitsAt(Taking))' = Cardinality(UnitsAt(Taking))
    <3>1. "done" \notin Taking /\ upc[u] \notin Taking
      BY DEF Taking
    <3> QED
      BY <1>0, <3>1, CountMove
  <2>5. \A i \in Indices : (Taken(i) => Taken(i)') /\ (Free(i) => Free(i)')
    BY <1>0 DEF Taken, Free
  <2>6. Accounts'
    <3>1. \A v \in Units : upc'[v] # "signal" /\ (v # u => upc'[v] = upc[v])
      BY <1>0, <2>1
    <3>2. index >= iterations /\ permits' = 1
      BY <1>1, <2>1 DEF Accounts
    <3>3. \A i \in Indices : IF i < iterations /\ i < index THEN Taken(i)' ELSE Free(i)'
      BY <1>1, <2>5 DEF Accounts
    <3>4. thrcnt' = Cardinality(UnitsAt(Active))'
      BY <1>1, <2>3 DEF Accounts
    <3>5. index' <= iterations' + MaxThr - Cardinality(UnitsAt(Taking))'
      BY <1>1, <2>4 DEF Accounts
    <3>6. thrcnt' = 0 /\ index' >= iterations'
      BY <2>1, <3>2
    <3> QED
      BY <3>1, <3>2, <3>3, <3>4, <3>5, <3>6 DEF Accounts
  <2> QED
    BY <1>3, <1>4, <2>2, <2>6
<1> QED
  BY <1>5, <1>6, <1>7, <1>8, <1>9 DEF Unit

\* Every step preserves the invariant.
LEMMA NextInv == Inv /\ [ApplyNext]_applyVars => Inv'
<1> SUFFICES ASSUME Inv, [ApplyNext]_applyVars PROVE Inv'
  OBVIOUS
<1>1. CASE UNCHANGED applyVars
  BY <1>1 DEF applyVars, args, Inv, ApplyTypeOK, Parallel, Accounts, UnitsAt, Taken, Free,
       EachIndexOnce, FrameAlive
<1> QED
  BY <1>1, PushInv, SerialInv, WaitInv, UnitDoneInv, UnitInv DEF ApplyNext

\* The inductive invariant holds in every reachable state.
THEOREM Invariance == ApplySpec => []Inv
  BY InitInv, NextInv, PTL DEF ApplySpec

\* dispatch_apply_f() calls its function exactly once for each index.
THEOREM IndexOnce == ApplySpec => []EachIndexOnce
<1>1. Inv => EachIndexOnce
  BY DEF Inv
<1> QED
  BY Invariance, <1>1, PTL

\* No unit of _dispatch_apply2() outlives the stack frame it works on.
THEOREM FrameSafe == ApplySpec => []FrameAlive
<1>1. Inv => FrameAlive
  BY DEF Inv
<1> QED
  BY Invariance, <1>1, PTL
=============================================================================
