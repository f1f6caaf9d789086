--------------------------- MODULE BenchRunProofs ---------------------------
(***************************************************************************)
(* Theorems about benchmark::run, for any number of workers, of operations *)
(* and of errors that are put up with, and for every storage interface:    *)
(* what a phase reports, and what holes in the written keys do to the reads*)
(* that follow.                                                            *)
(***************************************************************************)
EXTENDS BenchRun, FiniteSetTheorems, TLAPS

Ops == {"write", "read"}
Places == {"init", "signal", "reset", "finish"} \union Loops \union Ended

\* The variables keep their types.
BTypeOK ==
  /\ conf \in Confs
  /\ pc \in [Workers -> Places]
  /\ i \in [Workers -> Nat] /\ err \in [Workers -> Nat] /\ key \in [Workers -> Nat]
  /\ expired \in [Workers -> BOOLEAN]
  /\ created \in BOOLEAN /\ store \subseteq Nat
  /\ files \in [Workers -> [Ops -> [lines : Nat, reported : BOOLEAN, ops : Nat]]]
  /\ hist \in [Workers -> [done : [Ops -> Nat], wrote : Nat, complete : BOOLEAN,
                           faults : Nat]]

\* Where a worker is before the loop that is measured for an operation.
BeforeLoop(o) ==
  {"init", "signal", "warm_write"} \union
    (IF o = "write" THEN {} ELSE {"write", "reset", "warm_read"})

\* The counter of a worker: it passes neither end of its loop, and it counts the
\* successful operations of the measured loop.
CountInv(w) ==
  /\ pc[w] \in Loops => i[w] <= Count(pc[w])
  /\ pc[w] \in {"init", "signal", "reset", "finish", "done", "aborted"} => i[w] = 0
  /\ \A o \in Ops :
       /\ pc[w] = o => i[w] = hist[w].done[o]
       /\ pc[w] \in BeforeLoop(o) => hist[w].done[o] = 0
       /\ pc[w] \in BeforeLoop(o) \union {o} => ~files[w][o].reported
       /\ files[w][o].lines >= hist[w].done[o]
       /\ files[w][o].reported => files[w][o].ops = hist[w].done[o]

\* The operations of a complete phase, warm-up included, and those that a loop
\* which time did not cut short has behind it.
WarmedUp == IF WarmUp THEN WarmUpOps ELSE 0
Total == WarmedUp + NumOps
Through(w) == IF pc[w] \in WarmLoops THEN i[w] ELSE WarmedUp + i[w]

\* With sequential keys each attempt takes a key and is an operation or an error;
\* a read phase without warm-up starts with the errors of the writes.
KeysInv(w) ==
  /\ pc[w] \in {"init", "signal"} => key[w] = 0 /\ err[w] = 0
  /\ pc[w] \in {"init", "signal"} \union WriteLoops => ~hist[w].complete
  /\ pc[w] \in WarmLoops => WarmUp
  /\ pc[w] \notin Ended => err[w] <= ErrorMax
  /\ pc[w] \in Loops /\ ~expired[w] =>
       /\ pc[w] \in WriteLoops \/ WarmUp => key[w] = Through(w) + err[w]
       /\ Through(w) <= key[w]
  /\ hist[w].complete => hist[w].wrote <= Total + ErrorMax

\* The keys from a to b that are not in a store.
Holes(s, a, b) == {k \in a .. b - 1 : k \notin s}
Missing(s, a, b) == Cardinality(Holes(s, a, b))

\* The holes: a write phase leaves no more of them than it had errors, and the
\* reads have the room for one failed attempt at each hole that is still ahead.
HolesInv(w) ==
  /\ pc[w] \in WriteLoops /\ ~expired[w] =>
       Missing(store, 0, key[w]) + Through(w) <= key[w]
  /\ pc[w] = "reset" /\ hist[w].complete =>
       Missing(store, 0, hist[w].wrote) + Total <= hist[w].wrote
  /\ pc[w] \in ReadLoops /\ ~expired[w] /\ hist[w].complete /\ hist[w].faults = 0 =>
       key[w] + Missing(store, key[w], hist[w].wrote) + Total
         <= hist[w].wrote + Through(w)

\* What ended a worker.
EndInv(w) ==
  /\ hist[w].complete /\ hist[w].faults = 0 =>
       /\ pc[w] \in ReadLoops \union {"finish", "done"} => key[w] <= hist[w].wrote
       /\ pc[w] = "killed" /\ Backend = "dynamodb" => hist[w].wrote > Total

WorkerInv(w) ==
  /\ CountInv(w)
  /\ Sequential => KeysInv(w)
  /\ Sequential /\ Undisturbed => HolesInv(w) /\ EndInv(w)

\* The inductive invariant.
BInv ==
  /\ BTypeOK
  /\ ~created => store = {}
  /\ \A w \in Workers : WorkerInv(w)
  /\ HolesNeverAbort
  /\ ~Sequential => \A w \in Workers : key[w] = 0

-----------------------------------------------------------------------------
(***************************************************************************)
(* Counting.                                                               *)
(***************************************************************************)

\* The counts of the loops are naturals, none larger than num_ops.
LEMMA Counts ==
  /\ NumOps \in Nat /\ SizeMax \in Nat /\ NumOps <= SizeMax /\ ErrorMax \in Nat
  /\ WarmUpOps \in Nat /\ WarmUpOps <= NumOps
<1>1. NumOps \in Nat /\ WarmUpDivisor \in Nat /\ WarmUpDivisor > 0
  BY BenchAssumption
<1> DEFINE q == NumOps \div WarmUpDivisor
<1>2. q \in Int /\ WarmUpDivisor * q <= NumOps /\ NumOps < WarmUpDivisor * q + WarmUpDivisor
  BY <1>1, SMTT(30)
<1>3. q >= 0
  BY <1>1, SMTT(30)
<1> HIDE DEF q
<1>4. q <= WarmUpDivisor * q
  BY <1>1, <1>2, <1>3, SMTT(30)
<1>5. WarmUpDivisor * q \in Int
  BY <1>1, <1>2
<1>6. q \in Nat /\ q <= NumOps
  BY <1>1, <1>2, <1>3, <1>4, <1>5
<1> QED
  BY <1>6, BenchAssumption DEF WarmUpOps, q

\* The same of the loop a worker is in.
LEMMA LoopCounts ==
  ASSUME NEW l
  PROVE  Count(l) \in Nat /\ Count(l) <= NumOps
  BY Counts DEF Count

\* ++i inside of a loop does not wrap, and it makes good for --i, which may.
LEMMA IncDec ==
  ASSUME NEW n \in Nat, n <= NumOps
  PROVE  /\ n < NumOps => Inc(n) = n + 1
         /\ Inc(Dec(n)) = n
         /\ Dec(n) \in Nat
  BY Counts DEF Inc, Dec

\* Holes are counted by a natural number.
LEMMA HolesFinite ==
  ASSUME NEW s, NEW a \in Nat, NEW b \in Nat
  PROVE  IsFiniteSet(Holes(s, a, b)) /\ Missing(s, a, b) \in Nat
<1>1. IsFiniteSet(a .. b - 1)
  BY FS_Interval
<1>2. Holes(s, a, b) \in SUBSET (a .. b - 1)
  BY DEF Holes
<1>3. IsFiniteSet(Holes(s, a, b))
  BY <1>1, <1>2, FS_Subset
<1> QED
  BY <1>3, FS_CardinalityType DEF Missing

\* A larger store has no more holes.
LEMMA FewerHoles ==
  ASSUME NEW s, NEW t, s \subseteq t, NEW a \in Nat, NEW b \in Nat
  PROVE  Missing(t, a, b) <= Missing(s, a, b)
<1>1. Holes(t, a, b) \in SUBSET Holes(s, a, b)
  BY DEF Holes
<1> QED
  BY <1>1, HolesFinite, FS_Subset DEF Missing

\* One more key behind the end is at most one more hole, and none if it is there.
LEMMA NextWritten ==
  ASSUME NEW s, NEW b \in Nat
  PROVE  /\ Missing(s, 0, b + 1) <= Missing(s, 0, b) + 1
         /\ b \in s => Missing(s, 0, b + 1) = Missing(s, 0, b)
<1>1. CASE b \in s
  <2>1. Holes(s, 0, b + 1) = Holes(s, 0, b)
    BY <1>1 DEF Holes
  <2> QED
    BY <2>1, HolesFinite DEF Missing
<1>2. CASE b \notin s
  <2>1. Holes(s, 0, b + 1) = Holes(s, 0, b) \union {b} /\ b \notin Holes(s, 0, b)
    BY <1>2 DEF Holes
  <2>2. Cardinality(Holes(s, 0, b + 1)) = Cardinality(Holes(s, 0, b)) + 1
    BY <2>1, HolesFinite, FS_AddElement
  <2> QED
    BY <1>2, <2>2, HolesFinite DEF Missing
<1> QED
  BY <1>1, <1>2

\* A read below the end leaves one hole less ahead if the key is missing, and as
\* many if it is there.
LEMMA NextRead ==
  ASSUME NEW s, NEW a \in Nat, NEW b \in Nat, a < b
  PROVE  /\ a \in s => Missing(s, a + 1, b) = Missing(s, a, b)
         /\ a \notin s => Missing(s, a + 1, b) + 1 = Missing(s, a, b)
<1>1. CASE a \in s
  <2>1. Holes(s, a + 1, b) = Holes(s, a, b)
    BY <1>1 DEF Holes
  <2> QED
    BY <1>1, <2>1 DEF Missing
<1>2. CASE a \notin s
  <2>1. Holes(s, a, b) = Holes(s, a + 1, b) \union {a} /\ a \notin Holes(s, a + 1, b)
    BY <1>2 DEF Holes
  <2>2. IsFiniteSet(Holes(s, a + 1, b))
    <3>1. a + 1 \in Nat
      OBVIOUS
    <3> QED
      BY <3>1, HolesFinite
  <2>3. Cardinality(Holes(s, a + 1, b) \union {a}) = Cardinality(Holes(s, a + 1, b)) + 1
    BY <2>1, <2>2, FS_AddElement
  <2>4. Missing(s, a, b) = Missing(s, a + 1, b) + 1
    BY <2>1, <2>3 DEF Missing
  <2> QED
    BY <1>2, <2>4
<1> QED
  BY <1>1, <1>2

\* No key, no hole.
LEMMA NothingMissing ==
  ASSUME NEW s
  PROVE  Missing(s, 0, 0) = 0
<1>1. Holes(s, 0, 0) = {}
  BY DEF Holes
<1> QED
  BY <1>1, FS_EmptySet DEF Missing

-----------------------------------------------------------------------------
(***************************************************************************)
(* Steps.                                                                  *)
(***************************************************************************)

Acts(w) == Step(w) \/ Expire(w) \/ Disconnected(w)

\* The places and the numbers of a worker.
LEMMA Mine ==
  ASSUME BTypeOK, NEW w \in Workers
  PROVE  /\ pc[w] \in Places /\ i[w] \in Nat /\ err[w] \in Nat /\ key[w] \in Nat
         /\ expired[w] \in BOOLEAN
         /\ hist[w].wrote \in Nat /\ hist[w].faults \in Nat
         /\ hist[w].complete \in BOOLEAN /\ hist[w].done \in [Ops -> Nat]
         /\ hist[w] = Past(hist[w].done, hist[w].wrote, hist[w].complete,
                           hist[w].faults)
         /\ \A o \in Ops : /\ files[w][o].lines \in Nat /\ files[w][o].ops \in Nat
                           /\ files[w][o].reported \in BOOLEAN
         /\ Op(w) \in Ops
<1>1. /\ hist[w] \in [done : [Ops -> Nat], wrote : Nat, complete : BOOLEAN,
                      faults : Nat]
      /\ \A o \in Ops : files[w][o] \in [lines : Nat, reported : BOOLEAN, ops : Nat]
  BY DEF BTypeOK
<1>2. Op(w) \in Ops
  BY DEF Op, Ops
<1> QED
  BY <1>1, <1>2 DEF BTypeOK, Past

\* The latency line of an attempt.
LEMMA LogTypes ==
  ASSUME BTypeOK, NEW w \in Workers, LogLatency(w)
  PROVE  /\ files' \in [Workers -> [Ops -> [lines : Nat, reported : BOOLEAN, ops : Nat]]]
         /\ \A v \in Workers \ {w} : files'[v] = files[v]
         /\ \A o \in Ops : /\ files'[w][o].reported = files[w][o].reported
                           /\ files'[w][o].ops = files[w][o].ops
                           /\ files'[w][o].lines >= files[w][o].lines
         /\ pc[w] \notin WarmLoops => files'[w][Op(w)].lines = files[w][Op(w)].lines + 1
<1> DEFINE F == [lines : Nat, reported : BOOLEAN, ops : Nat]
           f == File(files[w][Op(w)].lines + 1, files[w][Op(w)].reported,
                     files[w][Op(w)].ops)
<1>1. CASE pc[w] \in WarmLoops
  BY <1>1, Mine DEF LogLatency, BTypeOK
<1>2. CASE pc[w] \notin WarmLoops
  <2>1. Op(w) \in Ops /\ files[w][Op(w)].lines \in Nat /\ f \in F
    BY Mine DEF File
  <2>2. files' = [files EXCEPT ![w] = [files[w] EXCEPT ![Op(w)] = f]]
    BY <1>2 DEF LogLatency
  <2>3. files \in [Workers -> [Ops -> F]]
    BY DEF BTypeOK
  <2>4. files' \in [Workers -> [Ops -> F]] /\ files'[w] = [files[w] EXCEPT ![Op(w)] = f]
    <3> HIDE DEF F, f
    <3> QED
      BY <2>1, <2>2, <2>3
  <2>5. files'[w][Op(w)] = f /\ \A o \in Ops \ {Op(w)} : files'[w][o] = files[w][o]
    <3> HIDE DEF F, f
    <3> QED
      BY <2>1, <2>3, <2>4
  <2>6. \A v \in Workers \ {w} : files'[v] = files[v]
    <3> HIDE DEF F, f
    <3> QED
      BY <2>2, <2>3
  <2>7. /\ f.reported = files[w][Op(w)].reported /\ f.ops = files[w][Op(w)].ops
        /\ f.lines = files[w][Op(w)].lines + 1
    BY DEF File
  <2> HIDE DEF f
  <2> QED
    BY <2>1, <2>4, <2>5, <2>6, <2>7, Mine
<1> QED
  BY <1>1, <1>2

\* The key generator.
LEMMA KeyTypes ==
  ASSUME BTypeOK, NEW w \in Workers, KeyTaken(w)
  PROVE  /\ key' \in [Workers -> Nat]
         /\ \A v \in Workers \ {w} : key'[v] = key[v]
         /\ key'[w] = IF Sequential THEN key[w] + 1 ELSE key[w]
  BY DEF BTypeOK, KeyTaken

\* A successful attempt.
LEMMA Success ==
  ASSUME BTypeOK, NEW w \in Workers, OpSucceeds(w)
  PROVE  /\ pc[w] \in Loops /\ i[w] < Count(pc[w]) /\ ~expired[w]
         /\ hist' \in [Workers -> [done : [Ops -> Nat], wrote : Nat,
                                   complete : BOOLEAN, faults : Nat]]
         /\ \A v \in Workers \ {w} : hist'[v] = hist[v]
         /\ hist'[w].wrote = hist[w].wrote /\ hist'[w].complete = hist[w].complete
         /\ hist'[w].faults = hist[w].faults
         /\ pc[w] \in WarmLoops => hist'[w].done = hist[w].done
         /\ pc[w] \notin WarmLoops =>
              hist'[w].done = [hist[w].done EXCEPT ![Op(w)] = @ + 1]
<1> DEFINE H == [done : [Ops -> Nat], wrote : Nat, complete : BOOLEAN, faults : Nat]
           d == [hist[w].done EXCEPT ![Op(w)] = @ + 1]
           h == Past(d, hist[w].wrote, hist[w].complete, hist[w].faults)
<1>1. hist' = IF pc[w] \in WarmLoops THEN hist ELSE [hist EXCEPT ![w] = h]
  BY DEF OpSucceeds
<1>2. hist \in [Workers -> H]
  BY DEF BTypeOK
<1>3. d \in [Ops -> Nat]
  BY Mine
<1>4. h \in H /\ h.done = d /\ h.wrote = hist[w].wrote
      /\ h.complete = hist[w].complete /\ h.faults = hist[w].faults
  <2> HIDE DEF d
  <2> QED
    BY <1>3, Mine DEF Past
<1>5. pc[w] \in Loops /\ i[w] < Count(pc[w]) /\ ~expired[w]
  BY DEF OpSucceeds, LoopCondition
<1> HIDE DEF H, h
<1>6. CASE pc[w] \in WarmLoops
  BY <1>1, <1>2, <1>5, <1>6 DEF H
<1>7. CASE pc[w] \notin WarmLoops
  <2>1. hist' \in [Workers -> H] /\ hist'[w] = h /\ \A v \in Workers \ {w} : hist'[v] = hist[v]
    BY <1>1, <1>2, <1>4, <1>7
  <2> QED
    BY <1>4, <1>5, <1>7, <2>1 DEF H
<1> QED
  BY <1>6, <1>7

\* A failed attempt.
LEMMA Failure ==
  ASSUME BTypeOK, NEW w \in Workers, Handle(w)
  PROVE  /\ pc[w] \in Loops /\ i[w] < Count(pc[w]) /\ ~expired[w]
         /\ hist' \in [Workers -> [done : [Ops -> Nat], wrote : Nat,
                                   complete : BOOLEAN, faults : Nat]]
         /\ \A v \in Workers \ {w} : hist'[v] = hist[v]
         /\ hist'[w].wrote = hist[w].wrote /\ hist'[w].complete = hist[w].complete
         /\ hist'[w].done = hist[w].done
         /\ \/ hist'[w].faults = hist[w].faults + 1
            \/ /\ hist'[w].faults = hist[w].faults
               /\ Sequential /\ pc[w] \in ReadLoops => ~created \/ key[w] \notin store
         /\ err' \in [Workers -> Nat] /\ err'[w] = err[w] + 1
         /\ \A v \in Workers \ {w} : err'[v] = err[v]
<1> DEFINE H == [done : [Ops -> Nat], wrote : Nat, complete : BOOLEAN, faults : Nat]
           n == hist[w].faults + 1
           h == Past(hist[w].done, hist[w].wrote, hist[w].complete, n)
<1>1. /\ pc[w] \in Loops /\ i[w] < Count(pc[w]) /\ ~expired[w]
      /\ err' = [err EXCEPT ![w] = @ + 1]
  BY DEF Handle, LoopCondition
<1>2. PICK k \in NextKeys(w) :
        hist' = IF TransientRead(w, k) THEN [hist EXCEPT ![w] = h] ELSE hist
  BY DEF Handle
<1>3. /\ err' \in [Workers -> Nat] /\ err'[w] = err[w] + 1
      /\ \A v \in Workers \ {w} : err'[v] = err[v]
  BY <1>1 DEF BTypeOK
<1>4. hist \in [Workers -> H]
  BY DEF BTypeOK
<1>5. h \in H /\ h.done = hist[w].done /\ h.wrote = hist[w].wrote
      /\ h.complete = hist[w].complete /\ h.faults = n
  <2>1. n \in Nat
    BY Mine
  <2> HIDE DEF n
  <2> QED
    BY <2>1, Mine DEF Past
<1> HIDE DEF H, h
<1>6. CASE TransientRead(w, k)
  <2>1. hist' \in [Workers -> H] /\ hist'[w] = h /\ \A v \in Workers \ {w} : hist'[v] = hist[v]
    BY <1>2, <1>4, <1>5, <1>6
  <2> QED
    BY <1>1, <1>3, <1>5, <2>1 DEF H
<1>7. CASE ~TransientRead(w, k)
  <2>1. Sequential /\ pc[w] \in ReadLoops => ~created \/ key[w] \notin store
    BY <1>7 DEF TransientRead, ReadCanSucceed, NextKeys
  <2> QED
    BY <1>1, <1>2, <1>3, <1>4, <1>7, <2>1 DEF H
<1> QED
  BY <1>6, <1>7

\* The end of a loop.
LEMMA LoopEnd ==
  ASSUME BTypeOK, NEW w \in Workers, LoopEnds(w)
  PROVE  /\ files' \in [Workers -> [Ops -> [lines : Nat, reported : BOOLEAN, ops : Nat]]]
         /\ \A v \in Workers \ {w} : files'[v] = files[v]
         /\ \A o \in Ops : files'[w][o].lines = files[w][o].lines
         /\ \A o \in Ops : pc[w] # o => files'[w][o] = files[w][o]
         /\ \A o \in Ops : pc[w] = o => files'[w][o].reported /\ files'[w][o].ops = i[w]
         /\ hist' \in [Workers -> [done : [Ops -> Nat], wrote : Nat,
                                   complete : BOOLEAN, faults : Nat]]
         /\ \A v \in Workers \ {w} : hist'[v] = hist[v]
         /\ hist'[w].done = hist[w].done /\ hist'[w].faults = hist[w].faults
         /\ pc[w] # "write" => hist'[w] = hist[w]
         /\ pc[w] = "write" => /\ hist'[w].wrote = key[w]
                               /\ hist'[w].complete = ~expired[w]
<1>1. pc[w] \in Loops
  BY DEF LoopEnds
<1>2. /\ files' \in [Workers -> [Ops -> [lines : Nat, reported : BOOLEAN, ops : Nat]]]
      /\ \A v \in Workers \ {w} : files'[v] = files[v]
      /\ \A o \in Ops : files'[w][o].lines = files[w][o].lines
      /\ \A o \in Ops : pc[w] # o => files'[w][o] = files[w][o]
      /\ \A o \in Ops : pc[w] = o => files'[w][o].reported /\ files'[w][o].ops = i[w]
  <2> DEFINE F == [lines : Nat, reported : BOOLEAN, ops : Nat]
             f == File(files[w][Op(w)].lines, TRUE, i[w])
  <2>1. files \in [Workers -> [Ops -> F]]
    BY DEF BTypeOK
  <2>2. CASE pc[w] \in WarmLoops
    <3>1. files' = files
      BY <2>2 DEF LoopEnds
    <3> QED
      BY <2>1, <2>2, <3>1 DEF WarmLoops, Ops
  <2>3. CASE pc[w] \notin WarmLoops
    <3>1. Op(w) = pc[w] /\ Op(w) \in Ops
      BY <1>1, <2>3 DEF Op, Ops, Loops, WarmLoops, WriteLoops, ReadLoops
    <3>2. files' = [files EXCEPT ![w] = [files[w] EXCEPT ![Op(w)] = f]]
      BY <2>3 DEF LoopEnds
    <3>3. f \in F /\ f.reported /\ f.ops = i[w] /\ f.lines = files[w][Op(w)].lines
      BY <3>1, Mine DEF File
    <3> HIDE DEF F, f
    <3>4. files' \in [Workers -> [Ops -> F]] /\ files'[w] = [files[w] EXCEPT ![Op(w)] = f]
          /\ \A v \in Workers \ {w} : files'[v] = files[v]
      BY <2>1, <3>1, <3>2, <3>3
    <3>5. files'[w][Op(w)] = f /\ \A o \in Ops \ {Op(w)} : files'[w][o] = files[w][o]
      BY <2>1, <3>1, <3>4
    <3> QED
      BY <3>1, <3>3, <3>4, <3>5 DEF F
  <2> QED
    BY <2>2, <2>3
<1>3. /\ hist' \in [Workers -> [done : [Ops -> Nat], wrote : Nat,
                                complete : BOOLEAN, faults : Nat]]
      /\ \A v \in Workers \ {w} : hist'[v] = hist[v]
      /\ hist'[w].done = hist[w].done /\ hist'[w].faults = hist[w].faults
      /\ pc[w] # "write" => hist'[w] = hist[w]
      /\ pc[w] = "write" => /\ hist'[w].wrote = key[w]
                            /\ hist'[w].complete = ~expired[w]
  <2> DEFINE H == [done : [Ops -> Nat], wrote : Nat, complete : BOOLEAN, faults : Nat]
             h == Past(hist[w].done, key[w], ~expired[w], hist[w].faults)
  <2>1. hist' = IF pc[w] = "write" THEN [hist EXCEPT ![w] = h] ELSE hist
    BY DEF LoopEnds
  <2>2. hist \in [Workers -> H]
    BY DEF BTypeOK
  <2>3. h \in H /\ h.done = hist[w].done /\ h.wrote = key[w]
        /\ h.complete = ~expired[w] /\ h.faults = hist[w].faults
    BY Mine DEF Past
  <2> HIDE DEF H, h
  <2>4. CASE pc[w] = "write"
    <3>1. hist' \in [Workers -> H] /\ hist'[w] = h /\ \A v \in Workers \ {w} : hist'[v] = hist[v]
      BY <2>1, <2>2, <2>3, <2>4
    <3> QED
      BY <2>3, <2>4, <3>1 DEF H
  <2>5. CASE pc[w] # "write"
    BY <2>1, <2>2, <2>5 DEF H
  <2> QED
    BY <2>4, <2>5
<1> QED
  BY <1>2, <1>3

\* What destroy() may leave: some of the keys, and none without the storage.
LEMMA Removal ==
  ASSUME DestroyReturns \/ DestroyKills, created \in BOOLEAN, store \subseteq Nat,
         ~created => store = {}
  PROVE  /\ created' \in BOOLEAN /\ store' \subseteq Nat
         /\ ~created' => store' = {}
<1>1. \/ store' = {} /\ created' = created
      \/ store' = {} /\ created' = FALSE
      \/ store' \in SUBSET store /\ created' = created
      \/ store' = store /\ created' = created
  BY DEF DestroyReturns, DestroyKills, FlushAll, Remove, LeftOver
<1>2. store' \subseteq store
  BY <1>1
<1>3. created' = created \/ (created' = FALSE /\ store' = {})
  BY <1>1
<1> QED
  BY <1>2, <1>3

\* What no step of a worker changes: the arguments and the others; what is in the
\* store stays there unless the storage is removed.
LEMMA Frame ==
  ASSUME BTypeOK, NEW w \in Workers, Acts(w), ~created => store = {}
  PROVE  /\ conf' = conf
         /\ \A v \in Workers \ {w} :
              /\ pc'[v] = pc[v] /\ i'[v] = i[v] /\ err'[v] = err[v] /\ key'[v] = key[v]
              /\ expired'[v] = expired[v] /\ files'[v] = files[v] /\ hist'[v] = hist[v]
         /\ ~created' => store' = {}
         /\ Undisturbed' => Undisturbed /\ store \subseteq store'
<1>0. /\ pc \in [Workers -> Places] /\ i \in [Workers -> Nat] /\ err \in [Workers -> Nat]
      /\ expired \in [Workers -> BOOLEAN] /\ key \in [Workers -> Nat]
      /\ created \in BOOLEAN
  BY DEF BTypeOK
<1>1. CASE InitStorage(w) \/ InitFails(w) \/ SignalRun(w) \/ SignalAbort(w)
  <2>1. /\ UNCHANGED <<conf, i, err, key, expired, store, files, hist>>
        /\ pc[w] # "exited"
        /\ \A v \in Workers \ {w} : pc'[v] = pc[v]
    BY <1>0, <1>1 DEF InitStorage, InitFails, SignalRun, SignalAbort
  <2>2. ~created' => ~created
    BY <1>0, <1>1 DEF InitStorage, InitFails, SignalRun, SignalAbort
  <2> QED
    BY <2>1, <2>2 DEF Undisturbed, Mode
<1>2. CASE OpSucceeds(w)
  <2>1. /\ UNCHANGED <<conf, pc, err, expired, created>> /\ KeyTaken(w) /\ LogLatency(w)
        /\ \A v \in Workers \ {w} : i'[v] = i[v]
    BY <1>0, <1>2 DEF OpSucceeds
  <2>2. store \subseteq store' /\ (~created => store' = store)
    BY <1>2 DEF OpSucceeds, WriteCanSucceed, ReadCanSucceed
  <2> QED
    BY <1>2, <2>1, <2>2, Success, LogTypes, KeyTypes DEF Undisturbed, Mode
<1>3. CASE OpFails(w)
  <2>1. /\ Handle(w) /\ KeyTaken(w) /\ LogLatency(w)
        /\ UNCHANGED <<conf, pc, expired, created, store>>
        /\ \A v \in Workers \ {w} : i'[v] = i[v]
    BY <1>0, <1>3 DEF OpFails, Handle
  <2> QED
    BY <2>1, Failure, LogTypes, KeyTypes DEF Undisturbed, Mode
<1>4. CASE TooManyErrors(w)
  <2>1. /\ Handle(w) /\ KeyTaken(w) /\ UNCHANGED <<conf, expired, files>>
        /\ \A v \in Workers \ {w} : i'[v] = i[v] /\ pc'[v] = pc[v]
        /\ pc'[w] = "exited"
    BY <1>0, <1>4 DEF TooManyErrors, Handle
  <2>2. ~created' => store' = {}
    BY <1>4, Removal DEF TooManyErrors, BTypeOK
  <2>3. ~Undisturbed'
    BY <2>1 DEF Undisturbed
  <2> QED
    BY <2>1, <2>2, <2>3, Failure, KeyTypes
<1>5. CASE MissKills(w) \/ Disconnected(w) \/ Expire(w)
  <2>1. /\ UNCHANGED <<conf, i, err, created, store, files, hist>>
        /\ \A v \in Workers \ {w} : pc'[v] = pc[v] /\ expired'[v] = expired[v]
        /\ pc[w] # "exited"
    BY <1>0, <1>5 DEF MissKills, Disconnected, Expire, Loops, ReadLoops, WriteLoops, Ended
  <2>2. \A v \in Workers \ {w} : key'[v] = key[v]
    BY <1>5, KeyTypes DEF MissKills, Disconnected, Expire
  <2> QED
    BY <2>1, <2>2 DEF Undisturbed, Mode
<1>6. CASE LoopEnds(w)
  <2>1. /\ UNCHANGED <<conf, err, key, expired, created, store>>
        /\ \A v \in Workers \ {w} : pc'[v] = pc[v] /\ i'[v] = i[v]
        /\ pc[w] # "exited"
    BY <1>0, <1>6 DEF LoopEnds, Loops, ReadLoops, WriteLoops
  <2> QED
    BY <1>6, <2>1, LoopEnd DEF Undisturbed, Mode
<1>7. CASE Reset(w)
  <2>1. /\ UNCHANGED <<conf, i, expired, created, store, files, hist>>
        /\ \A v \in Workers \ {w} : pc'[v] = pc[v] /\ err'[v] = err[v] /\ key'[v] = key[v]
        /\ pc[w] # "exited"
    BY <1>0, <1>7 DEF Reset, ReadPhase
  <2> QED
    BY <2>1 DEF Undisturbed, Mode
<1>8. CASE Finish(w) \/ FinishKills(w)
  <2>1. /\ UNCHANGED <<conf, i, err, key, expired, files, hist>>
        /\ \A v \in Workers \ {w} : pc'[v] = pc[v]
        /\ pc[w] # "exited"
    BY <1>0, <1>8 DEF Finish, FinishKills
  <2>2. \/ "destroy" \in Mode /\ (~created' => store' = {})
        \/ "destroy" \notin Mode /\ UNCHANGED <<created, store>>
    BY <1>8, Removal DEF Finish, FinishKills, BTypeOK
  <2> QED
    BY <2>1, <2>2 DEF Undisturbed, Mode
<1> QED
  BY <1>1, <1>2, <1>3, <1>4, <1>5, <1>6, <1>7, <1>8 DEF Acts, Step, Attempt

\* Every step keeps the types.
LEMMA Types ==
  ASSUME BTypeOK, NEW w \in Workers, Acts(w), CountInv(w), ~created => store = {}
  PROVE  BTypeOK'
<1>0. /\ pc \in [Workers -> Places] /\ i \in [Workers -> Nat] /\ err \in [Workers -> Nat]
      /\ expired \in [Workers -> BOOLEAN] /\ key \in [Workers -> Nat]
      /\ created \in BOOLEAN /\ conf' = conf
  BY Frame DEF BTypeOK
<1>1. CASE InitStorage(w) \/ InitFails(w) \/ SignalRun(w) \/ SignalAbort(w)
  <2>1. UNCHANGED <<conf, i, err, key, expired, store, files, hist>>
    BY <1>1 DEF InitStorage, InitFails, SignalRun, SignalAbort
  <2>2. pc' \in [Workers -> Places]
    BY <1>0, <1>1 DEF InitStorage, InitFails, SignalRun, SignalAbort, FirstLoop, Places,
                      Loops, WriteLoops, ReadLoops, Ended
  <2>3. created' \in BOOLEAN
    BY <1>0, <1>1 DEF InitStorage, InitFails, SignalRun, SignalAbort
  <2> QED
    BY <2>1, <2>2, <2>3 DEF BTypeOK
<1>2. CASE OpSucceeds(w)
  <2>1. /\ UNCHANGED <<conf, pc, err, expired, created>> /\ KeyTaken(w) /\ LogLatency(w)
        /\ i' = [i EXCEPT ![w] = Inc(@)]
    BY <1>2 DEF OpSucceeds
  <2>2. i' \in [Workers -> Nat]
    <3>1. Inc(i[w]) \in Nat
      BY <1>0, Counts DEF Inc
    <3> QED
      BY <1>0, <2>1, <3>1
  <2>3. store' \subseteq Nat
    <3>1. PICK k \in NextKeys(w) : store' = store \union {k} \/ store' = store
      BY <1>2 DEF OpSucceeds
    <3>2. k \in Nat
      BY <1>0, Counts DEF NextKeys
    <3> QED
      BY <3>1, <3>2 DEF BTypeOK
  <2>4. key' \in [Workers -> Nat]
    BY <2>1, KeyTypes
  <2> QED
    BY <1>2, <2>1, <2>2, <2>3, <2>4, Success, LogTypes DEF BTypeOK
<1>3. CASE OpFails(w)
  <2>1. /\ Handle(w) /\ KeyTaken(w) /\ LogLatency(w)
        /\ UNCHANGED <<conf, pc, expired, created, store>>
        /\ i' = [i EXCEPT ![w] = Inc(Dec(@))]
    BY <1>3 DEF OpFails, Handle
  <2>2. i' \in [Workers -> Nat]
    <3>1. Inc(Dec(i[w])) \in Nat
      BY <1>0, Counts DEF Inc, Dec
    <3> QED
      BY <1>0, <2>1, <3>1
  <2> QED
    BY <2>1, <2>2, Failure, LogTypes, KeyTypes DEF BTypeOK
<1>4. CASE TooManyErrors(w)
  <2>1. /\ Handle(w) /\ KeyTaken(w) /\ UNCHANGED <<conf, expired, files>>
        /\ i' = [i EXCEPT ![w] = Dec(@)]
        /\ pc' = [pc EXCEPT ![w] = "exited"]
    BY <1>4 DEF TooManyErrors, Handle
  <2>2. store' \subseteq Nat /\ created' \in BOOLEAN
    BY <1>4, Removal DEF TooManyErrors, BTypeOK
  <2>3. pc' \in [Workers -> Places]
    BY <1>0, <2>1 DEF Places, Ended
  <2>4. i' \in [Workers -> Nat]
    <3>1. Dec(i[w]) \in Nat
      BY <1>0, Counts DEF Dec
    <3> QED
      BY <1>0, <2>1, <3>1
  <2> QED
    BY <2>1, <2>2, <2>3, <2>4, Failure, KeyTypes DEF BTypeOK
<1>5. CASE MissKills(w) \/ Disconnected(w) \/ Expire(w)
  <2>1. /\ UNCHANGED <<conf, i, err, created, store, files, hist>>
        /\ pc' \in [Workers -> Places] /\ expired' \in [Workers -> BOOLEAN]
    BY <1>0, <1>5 DEF MissKills, Disconnected, Expire, Places, Ended
  <2>2. key' \in [Workers -> Nat]
    BY <1>0, <1>5, KeyTypes DEF MissKills, Disconnected, Expire
  <2> QED
    BY <2>1, <2>2 DEF BTypeOK
<1>6. CASE LoopEnds(w)
  <2>1. /\ UNCHANGED <<conf, err, key, expired, created, store>>
        /\ i' \in [Workers -> Nat] /\ pc[w] \in Loops
        /\ pc' = [pc EXCEPT ![w] = NextPlace(@)]
    BY <1>0, <1>6 DEF LoopEnds
  <2>2. NextPlace(pc[w]) \in Places
    BY <2>1 DEF NextPlace, Places, Loops, WriteLoops, ReadLoops
  <2>3. pc' \in [Workers -> Places]
    BY <1>0, <2>1, <2>2
  <2> QED
    BY <1>6, <2>1, <2>3, LoopEnd DEF BTypeOK
<1>7. CASE Reset(w)
  <2>1. /\ UNCHANGED <<conf, i, expired, created, store, files, hist>>
        /\ key' \in [Workers -> Nat]
    BY <1>0, <1>7 DEF Reset
  <2>2. pc' \in [Workers -> Places] /\ err' \in [Workers -> Nat]
    BY <1>0, <1>7 DEF Reset, ReadPhase, FirstLoop, Places, Loops, ReadLoops
  <2> QED
    BY <2>1, <2>2 DEF BTypeOK
<1>8. CASE Finish(w) \/ FinishKills(w)
  <2>1. UNCHANGED <<conf, i, err, key, expired, files, hist>>
    BY <1>8 DEF Finish, FinishKills
  <2>2. pc' \in [Workers -> Places]
    BY <1>0, <1>8 DEF Finish, FinishKills, Places, Ended
  <2>3. created' \in BOOLEAN /\ store' \subseteq Nat
    BY <1>8, Removal DEF Finish, FinishKills, BTypeOK
  <2> QED
    BY <2>1, <2>2, <2>3 DEF BTypeOK
<1> QED
  BY <1>1, <1>2, <1>3, <1>4, <1>5, <1>6, <1>7, <1>8 DEF Acts, Step, Attempt

-----------------------------------------------------------------------------
(***************************************************************************)
(* The counter and the report of the worker that takes a step.             *)
(***************************************************************************)

\* A step that counts nothing and that stays in the loop, or leaves for a place
\* outside of the loops.
LEMMA CountStays ==
  ASSUME BTypeOK, NEW w \in Workers, CountInv(w), pc' \in [Workers -> Places],
         i'[w] = i[w] \/ pc'[w] \in {"exited", "killed"},
         files' = files, hist'[w].done = hist[w].done,
         pc'[w] = pc[w] \/ pc'[w] \in Ended \ {"done", "aborted"}
  PROVE  CountInv(w)'
<1>1. CASE pc'[w] = pc[w] /\ i'[w] = i[w]
  BY <1>1 DEF CountInv
<1>2. CASE pc'[w] \in {"exited", "killed"}
  BY <1>2 DEF CountInv, Loops, WriteLoops, ReadLoops, BeforeLoop, Ops
<1> QED
  BY <1>1, <1>2 DEF Ended

\* The steps of a worker keep its counter right.
LEMMA CountKeeps ==
  ASSUME BTypeOK, NEW w \in Workers, Acts(w), CountInv(w), ~created => store = {}
  PROVE  CountInv(w)'
<1>0. /\ pc \in [Workers -> Places] /\ i \in [Workers -> Nat] /\ BTypeOK'
      /\ pc' \in [Workers -> Places]
  BY Types DEF BTypeOK
<1>1. CASE InitStorage(w) \/ InitFails(w) \/ SignalRun(w) \/ SignalAbort(w)
  <2>1. /\ i' = i /\ files' = files /\ hist' = hist /\ pc[w] \in {"init", "signal"}
        /\ pc'[w] \in {"signal", "killed", "warm_write", "write", "reset", "aborted"}
    BY <1>0, <1>1 DEF InitStorage, InitFails, SignalRun, SignalAbort, FirstLoop
  <2>2. i[w] = 0 /\ \A o \in Ops : hist[w].done[o] = 0 /\ ~files[w][o].reported
    BY <2>1 DEF CountInv, BeforeLoop
  <2>3. \A l : 0 <= Count(l)
    BY LoopCounts
  <2>4. \A o \in Ops : files[w][o].lines >= hist[w].done[o]
    BY DEF CountInv
  <2> QED
    BY <2>1, <2>2, <2>3, <2>4 DEF CountInv
<1>2. CASE OpSucceeds(w)
  <2>1. pc' = pc /\ i' = [i EXCEPT ![w] = Inc(@)] /\ LogLatency(w)
    BY <1>2 DEF OpSucceeds
  <2>2. pc[w] \in Loops /\ i[w] < Count(pc[w]) /\ i[w] \in Nat
        /\ Count(pc[w]) \in Nat /\ Count(pc[w]) <= NumOps /\ NumOps \in Nat
    BY <1>0, <1>2, Success, LoopCounts, Counts
  <2>3. i'[w] = i[w] + 1 /\ i'[w] <= Count(pc[w])
    BY <1>0, <2>1, <2>2, IncDec
  <2>4. pc[w] \notin {"init", "signal", "reset", "finish", "done", "aborted"}
    BY <2>2 DEF Loops, WriteLoops, ReadLoops
  <2>5. ASSUME NEW o \in Ops
        PROVE  /\ pc[w] = o => i'[w] = hist'[w].done[o]
               /\ pc[w] \in BeforeLoop(o) => hist'[w].done[o] = 0
               /\ pc[w] \in BeforeLoop(o) \union {o} => ~files'[w][o].reported
               /\ files'[w][o].lines >= hist'[w].done[o]
               /\ files'[w][o].reported => files'[w][o].ops = hist'[w].done[o]
    <3>1. /\ files'[w][o].reported = files[w][o].reported
          /\ files'[w][o].ops = files[w][o].ops
          /\ files'[w][o].lines >= files[w][o].lines
          /\ files[w][o].lines \in Nat /\ files'[w][o].lines \in Nat
      BY <1>0, <2>1, LogTypes, Mine
    <3>2. hist[w].done \in [Ops -> Nat] /\ hist[w].done[o] \in Nat
      BY Mine
    <3>3. CASE pc[w] \in WarmLoops
      <4>1. hist'[w].done = hist[w].done /\ pc[w] # o
        BY <1>2, <3>3, Success DEF WarmLoops, Ops
      <4> QED
        BY <3>1, <3>2, <4>1 DEF CountInv
    <3>4. CASE pc[w] \notin WarmLoops /\ Op(w) # o
      <4>1. hist'[w].done[o] = hist[w].done[o] /\ pc[w] # o
        BY <1>2, <2>2, <3>2, <3>4, Success DEF WarmLoops, Ops, Op, Loops, WriteLoops, ReadLoops
      <4> QED
        BY <3>1, <3>2, <4>1 DEF CountInv
    <3>5. CASE pc[w] \notin WarmLoops /\ Op(w) = o
      <4>1. pc[w] = o /\ pc[w] \notin BeforeLoop(o)
        BY <2>2, <3>5 DEF WarmLoops, Ops, Op, Loops, WriteLoops, ReadLoops, BeforeLoop
      <4>2. hist'[w].done[o] = hist[w].done[o] + 1
        BY <1>2, <3>2, <3>5, Success
      <4>3. files'[w][o].lines = files[w][o].lines + 1
        BY <2>1, <3>5, LogTypes
      <4>4. i[w] = hist[w].done[o] /\ ~files[w][o].reported
            /\ files[w][o].lines >= hist[w].done[o]
        BY <4>1 DEF CountInv
      <4> QED
        BY <2>3, <3>1, <3>2, <4>1, <4>2, <4>3, <4>4
    <3> QED
      BY <3>3, <3>4, <3>5
  <2> QED
    BY <2>1, <2>3, <2>4, <2>5 DEF CountInv
<1>3. CASE OpFails(w)
  <2>1. pc' = pc /\ Handle(w) /\ i' = [i EXCEPT ![w] = Inc(Dec(@))] /\ LogLatency(w)
    BY <1>3 DEF OpFails
  <2>2. hist'[w].done = hist[w].done
        /\ i[w] < Count(pc[w]) /\ Count(pc[w]) \in Nat /\ Count(pc[w]) <= NumOps
    BY <2>1, Failure, LoopCounts
  <2>3. i'[w] = i[w]
    BY <1>0, <2>1, <2>2, Counts, IncDec
  <2>4. \A o \in Ops : /\ files'[w][o].reported = files[w][o].reported
                       /\ files'[w][o].ops = files[w][o].ops
                       /\ files'[w][o].lines >= hist[w].done[o]
    <3> SUFFICES ASSUME NEW o \in Ops
                 PROVE  /\ files'[w][o].reported = files[w][o].reported
                        /\ files'[w][o].ops = files[w][o].ops
                        /\ files'[w][o].lines >= hist[w].done[o]
      OBVIOUS
    <3>1. files[w][o].lines \in Nat /\ files'[w][o].lines \in Nat /\ hist[w].done[o] \in Nat
      BY <2>1, LogTypes, Mine
    <3>2. files[w][o].lines >= hist[w].done[o]
      BY DEF CountInv
    <3> QED
      BY <2>1, <3>1, <3>2, LogTypes
  <2> QED
    BY <2>1, <2>2, <2>3, <2>4 DEF CountInv
<1>4. CASE TooManyErrors(w)
  <2>1. /\ Handle(w) /\ files' = files /\ pc'[w] = "exited"
    BY <1>0, <1>4 DEF TooManyErrors
  <2> QED
    BY <1>0, <2>1, Failure, CountStays DEF Ended
<1>5. CASE MissKills(w) \/ Disconnected(w) \/ Expire(w)
  <2>1. /\ i' = i /\ files' = files /\ hist' = hist
        /\ pc'[w] = pc[w] \/ pc'[w] = "killed"
    BY <1>0, <1>5 DEF MissKills, Disconnected, Expire
  <2> QED
    BY <1>0, <2>1, CountStays DEF Ended
<1>6. CASE LoopEnds(w)
  <2>1. i'[w] = 0 /\ pc'[w] = NextPlace(pc[w]) /\ pc[w] \in Loops
    BY <1>0, <1>6 DEF LoopEnds
  <2>2. pc'[w] \in {"write", "read", "reset", "finish"} /\ \A l : 0 <= Count(l)
    BY <2>1, LoopCounts DEF NextPlace, Loops, WriteLoops, ReadLoops
  <2>3. \A o \in Ops : pc'[w] \in BeforeLoop(o) \union {o} =>
                         pc[w] \in BeforeLoop(o) /\ pc[w] # o
    BY <2>1 DEF NextPlace, Loops, WriteLoops, ReadLoops, BeforeLoop, Ops
  <2>4. ASSUME NEW o \in Ops
        PROVE  /\ pc'[w] = o => 0 = hist[w].done[o]
               /\ pc'[w] \in BeforeLoop(o) => hist[w].done[o] = 0
               /\ pc'[w] \in BeforeLoop(o) \union {o} => ~files'[w][o].reported
               /\ files'[w][o].lines >= hist[w].done[o]
               /\ files'[w][o].reported => files'[w][o].ops = hist[w].done[o]
    <3>1. CASE pc[w] # o
      <4>1. files'[w][o] = files[w][o]
        BY <1>6, <3>1, LoopEnd
      <4> QED
        BY <2>3, <4>1 DEF CountInv
    <3>2. CASE pc[w] = o
      <4>1. /\ files'[w][o].reported /\ files'[w][o].ops = i[w]
            /\ files'[w][o].lines = files[w][o].lines
        BY <1>6, <3>2, LoopEnd
      <4>2. i[w] = hist[w].done[o] /\ files[w][o].lines >= hist[w].done[o]
        BY <3>2 DEF CountInv
      <4> QED
        BY <2>3, <3>2, <4>1, <4>2
    <3> QED
      BY <3>1, <3>2
  <2> QED
    BY <1>6, <2>1, <2>2, <2>4, LoopEnd, SMTT(30) DEF CountInv
<1>7. CASE Reset(w)
  <2>1. /\ i' = i /\ files' = files /\ hist' = hist /\ pc[w] = "reset"
        /\ pc'[w] \in {"warm_read", "read", "finish"}
    BY <1>0, <1>7 DEF Reset, ReadPhase, FirstLoop
  <2>2. i[w] = 0 /\ \A l : 0 <= Count(l)
    BY <2>1, LoopCounts DEF CountInv
  <2>3. \A o \in Ops : pc'[w] \in BeforeLoop(o) \union {o} => pc[w] \in BeforeLoop(o)
    BY <2>1 DEF BeforeLoop, Ops
  <2>4. \A o \in Ops : pc[w] # o
    BY <2>1 DEF Ops
  <2> QED
    BY <2>1, <2>2, <2>3, <2>4 DEF CountInv
<1>8. CASE Finish(w) \/ FinishKills(w)
  <2>1. /\ i' = i /\ files' = files /\ hist' = hist /\ pc[w] = "finish"
        /\ pc'[w] \in {"done", "killed"}
    BY <1>0, <1>8 DEF Finish, FinishKills
  <2>2. /\ i[w] = 0 /\ pc'[w] \notin Loops
        /\ \A o \in Ops : pc'[w] \notin BeforeLoop(o) \union {o}
    BY <2>1 DEF CountInv, BeforeLoop, Ops, Loops, WriteLoops, ReadLoops
  <2> QED
    BY <2>1, <2>2 DEF CountInv
<1> QED
  BY <1>1, <1>2, <1>3, <1>4, <1>5, <1>6, <1>7, <1>8 DEF Acts, Step, Attempt

-----------------------------------------------------------------------------
(***************************************************************************)
(* Keys, operations and errors of the worker that takes a step.            *)
(***************************************************************************)

\* What the warm-up and a phase ask for are natural numbers.
LEMMA Totals ==
  ASSUME BTypeOK, NEW w \in Workers
  PROVE  /\ WarmedUp \in Nat
         /\ WarmUp => WarmedUp = WarmUpOps
         /\ ~WarmUp => WarmedUp = 0
         /\ Total \in Nat /\ Total = WarmedUp + NumOps /\ Through(w) \in Nat
         /\ pc[w] \in WarmLoops => Through(w) = i[w]
         /\ pc[w] \notin WarmLoops => Through(w) = WarmedUp + i[w]
  BY Counts, Mine DEF WarmedUp, Total, Through

\* A loop that was not cut short has all its operations behind it.
LEMMA LoopThrough ==
  ASSUME BTypeOK, NEW w \in Workers, LoopEnds(w), CountInv(w), ~expired[w]
  PROVE  i[w] = IF pc[w] \in WarmLoops THEN WarmUpOps ELSE NumOps
<1>1. pc[w] \in Loops /\ ~(i[w] < Count(pc[w])) /\ i[w] <= Count(pc[w])
  BY DEF LoopEnds, LoopCondition, CountInv
<1>2. i[w] \in Nat /\ Count(pc[w]) \in Nat
  BY Mine, LoopCounts
<1>3. i[w] = Count(pc[w])
  BY <1>1, <1>2
<1> QED
  BY <1>3 DEF Count

\* The arguments do not change, so that neither does what is asked for.
LEMMA SameTotals ==
  ASSUME conf' = conf
  PROVE  /\ WarmUp' = WarmUp /\ Sequential' = Sequential /\ Backend' = Backend
         /\ WarmedUp' = WarmedUp /\ Total' = Total /\ Mode' = Mode
  BY DEF WarmUp, Sequential, Backend, WarmedUp, Total, Mode

\* A successful attempt is one operation and one key further.
LEMMA SuccessCounts ==
  ASSUME BTypeOK, NEW w \in Workers, OpSucceeds(w), Sequential
  PROVE  /\ i'[w] = i[w] + 1 /\ key'[w] = key[w] + 1
         /\ Through(w)' = Through(w) + 1 /\ Through(w) \in Nat
<1>1. /\ pc' = pc /\ conf' = conf /\ i' = [i EXCEPT ![w] = Inc(@)] /\ KeyTaken(w)
      /\ i[w] < Count(pc[w]) /\ i \in [Workers -> Nat]
  BY Success DEF OpSucceeds, BTypeOK
<1>2. Count(pc[w]) \in Nat /\ Count(pc[w]) <= NumOps /\ i[w] \in Nat /\ NumOps \in Nat
  BY <1>1, LoopCounts, Counts
<1>3. Inc(i[w]) = i[w] + 1
  BY <1>1, <1>2, IncDec
<1>4. i'[w] = i[w] + 1 /\ key'[w] = key[w] + 1
  BY <1>1, <1>3, KeyTypes
<1>5. WarmedUp' = WarmedUp /\ WarmedUp \in Nat
  BY <1>1, SameTotals, Totals
<1> QED
  BY <1>1, <1>2, <1>4, <1>5 DEF Through

\* A failed one is one key further and no operation.
LEMMA FailureCounts ==
  ASSUME BTypeOK, NEW w \in Workers, OpFails(w), Sequential
  PROVE  /\ i'[w] = i[w] /\ key'[w] = key[w] + 1
         /\ Through(w)' = Through(w) /\ Through(w) \in Nat
<1>1. /\ pc' = pc /\ conf' = conf /\ i' = [i EXCEPT ![w] = Inc(Dec(@))] /\ KeyTaken(w)
      /\ i[w] < Count(pc[w]) /\ i \in [Workers -> Nat]
  BY Failure DEF OpFails, Handle, BTypeOK
<1>2. Count(pc[w]) \in Nat /\ Count(pc[w]) <= NumOps /\ i[w] \in Nat /\ NumOps \in Nat
  BY <1>1, LoopCounts, Counts
<1>3. Inc(Dec(i[w])) = i[w]
  BY <1>1, <1>2, IncDec
<1>4. i'[w] = i[w] /\ key'[w] = key[w] + 1
  BY <1>1, <1>3, KeyTypes
<1>5. WarmedUp' = WarmedUp /\ WarmedUp \in Nat
  BY <1>1, SameTotals, Totals
<1> QED
  BY <1>1, <1>2, <1>4, <1>5 DEF Through

\* A warm-up that was not cut short hands its operations over.
LEMMA WarmUpHandsOver ==
  ASSUME BTypeOK, NEW w \in Workers, LoopEnds(w), CountInv(w), ~expired[w],
         pc[w] \in WarmLoops, WarmUp
  PROVE  Through(w)' = Through(w)
<1>1. /\ i'[w] = 0 /\ pc'[w] = NextPlace(pc[w]) /\ conf' = conf
  BY DEF LoopEnds, BTypeOK
<1>2. pc'[w] \notin WarmLoops
  BY <1>1 DEF NextPlace, WarmLoops
<1>3. i[w] = WarmUpOps
  BY LoopThrough
<1>4. WarmedUp' = WarmedUp /\ WarmedUp = WarmUpOps /\ WarmedUp \in Nat
  BY <1>1, SameTotals, Totals
<1> QED
  BY <1>1, <1>2, <1>3, <1>4 DEF Through

\* The steps of a worker keep its keys and its errors together.
LEMMA KeysKeep ==
  ASSUME BTypeOK, NEW w \in Workers, Acts(w), CountInv(w), ~created => store = {},
         Sequential, KeysInv(w)
  PROVE  KeysInv(w)'
<1>0. /\ pc \in [Workers -> Places] /\ i \in [Workers -> Nat] /\ conf' = conf
      /\ expired \in [Workers -> BOOLEAN] /\ key \in [Workers -> Nat]
      /\ err \in [Workers -> Nat]
  BY Frame DEF BTypeOK
<1>1. /\ WarmUp' = WarmUp /\ WarmedUp' = WarmedUp /\ Total' = Total
      /\ WarmedUp \in Nat /\ Total = WarmedUp + NumOps /\ Total \in Nat
      /\ NumOps \in Nat /\ ErrorMax \in Nat
  BY <1>0, SameTotals, Totals, Counts
<1>2. CASE InitStorage(w) \/ InitFails(w) \/ SignalRun(w) \/ SignalAbort(w)
  <2>1. /\ UNCHANGED <<i, err, key, expired, hist>> /\ pc[w] \in {"init", "signal"}
        /\ \/ pc'[w] \in {"signal", "killed", "reset", "aborted"}
           \/ pc'[w] = "warm_write" /\ WarmUp
           \/ pc'[w] = "write" /\ ~WarmUp
    BY <1>0, <1>2 DEF InitStorage, InitFails, SignalRun, SignalAbort, FirstLoop
  <2>2. key[w] = 0 /\ err[w] = 0 /\ ~hist[w].complete /\ i[w] = 0
    BY <2>1 DEF KeysInv, CountInv
  <2>3. pc'[w] \in Loops => Through(w)' = 0
    BY <1>1, <2>1, <2>2 DEF Through, WarmedUp, WarmLoops, Loops, ReadLoops, WriteLoops
  <2> QED
    BY <1>1, <2>1, <2>2, <2>3
       DEF KeysInv, Loops, WriteLoops, ReadLoops, WarmLoops, Ended
<1>3. CASE OpSucceeds(w)
  <2>1. pc' = pc /\ err' = err /\ expired' = expired
    BY <1>3 DEF OpSucceeds
  <2>2. pc[w] \in Loops /\ i[w] < Count(pc[w]) /\ ~expired[w]
        /\ hist'[w].complete = hist[w].complete /\ hist'[w].wrote = hist[w].wrote
    BY <1>3, Success
  <2>3. key'[w] = key[w] + 1 /\ Through(w)' = Through(w) + 1 /\ Through(w) \in Nat
    BY <1>3, SuccessCounts
  <2>5. /\ pc[w] \in WriteLoops \/ WarmUp => key[w] = Through(w) + err[w]
        /\ Through(w) <= key[w]
    BY <2>2 DEF KeysInv
  <2>6. key[w] \in Nat /\ err[w] \in Nat
    BY <1>0
  <2>7. /\ pc[w] \in WriteLoops \/ WarmUp => key'[w] = Through(w)' + err[w]
        /\ Through(w)' <= key'[w]
    BY <2>3, <2>5, <2>6
  <2>8. pc[w] \notin {"init", "signal"}
    BY <2>2 DEF Loops, WriteLoops, ReadLoops
  <2> QED
    BY <1>1, <2>1, <2>2, <2>7, <2>8 DEF KeysInv
<1>4. CASE OpFails(w)
  <2>1. /\ pc' = pc /\ expired' = expired /\ Handle(w) /\ err'[w] <= ErrorMax
    BY <1>4 DEF OpFails, Handle
  <2>2. /\ pc[w] \in Loops /\ i[w] < Count(pc[w]) /\ ~expired[w]
        /\ hist'[w].complete = hist[w].complete /\ hist'[w].wrote = hist[w].wrote
        /\ err'[w] = err[w] + 1
    BY <2>1, Failure
  <2>3. key'[w] = key[w] + 1 /\ Through(w)' = Through(w) /\ Through(w) \in Nat
    BY <1>4, FailureCounts
  <2>5. /\ pc[w] \in WriteLoops \/ WarmUp => key[w] = Through(w) + err[w]
        /\ Through(w) <= key[w]
    BY <2>2 DEF KeysInv
  <2>6. key[w] \in Nat /\ err[w] \in Nat
    BY <1>0
  <2>7. /\ pc[w] \in WriteLoops \/ WarmUp => key'[w] = Through(w)' + err'[w]
        /\ Through(w)' <= key'[w]
    BY <2>2, <2>3, <2>5, <2>6
  <2>8. pc[w] \notin {"init", "signal"}
    BY <2>2 DEF Loops, WriteLoops, ReadLoops
  <2> QED
    BY <1>1, <2>1, <2>2, <2>7, <2>8 DEF KeysInv
<1>5. CASE TooManyErrors(w)
  <2>1. Handle(w) /\ pc'[w] = "exited"
    BY <1>0, <1>5 DEF TooManyErrors
  <2>2. hist'[w].complete = hist[w].complete /\ hist'[w].wrote = hist[w].wrote
    BY <2>1, Failure
  <2> QED
    BY <1>1, <2>1, <2>2 DEF KeysInv, Loops, WriteLoops, ReadLoops, WarmLoops, Ended
<1>6. CASE MissKills(w) \/ Disconnected(w) \/ Finish(w) \/ FinishKills(w)
  <2>1. hist' = hist /\ pc'[w] \in {"done", "killed"}
    BY <1>0, <1>6 DEF MissKills, Disconnected, Finish, FinishKills
  <2> QED
    BY <1>1, <2>1 DEF KeysInv, Loops, WriteLoops, ReadLoops, WarmLoops, Ended
<1>7. CASE Expire(w)
  <2>1. UNCHANGED <<pc, i, err, key, hist>> /\ expired'[w]
    BY <1>0, <1>7 DEF Expire
  <2> QED
    BY <1>1, <2>1 DEF KeysInv
<1>8. CASE LoopEnds(w)
  <2>1. /\ i'[w] = 0 /\ pc'[w] = NextPlace(pc[w]) /\ pc[w] \in Loops
        /\ UNCHANGED <<err, key, expired>>
    BY <1>0, <1>8 DEF LoopEnds
  <2>2. pc[w] \notin Ended /\ pc[w] \notin {"init", "signal"} /\ err[w] <= ErrorMax
        /\ err[w] \in Nat /\ key[w] \in Nat
    BY <1>0, <2>1 DEF KeysInv, Loops, WriteLoops, ReadLoops, Ended
  <2>3. CASE pc[w] \in WarmLoops
    <3>1. WarmUp /\ hist'[w] = hist[w]
      BY <1>8, <2>3, LoopEnd DEF KeysInv, WarmLoops
    <3>2. pc'[w] \in {"write", "read"} /\ (pc'[w] \in WriteLoops <=> pc[w] \in WriteLoops)
      BY <2>1, <2>3 DEF NextPlace, WarmLoops, WriteLoops
    <3>3. ~expired[w] => Through(w)' = Through(w)
      BY <1>8, <2>3, <3>1, WarmUpHandsOver
    <3> QED
      BY <1>1, <2>1, <2>2, <3>1, <3>2, <3>3
         DEF KeysInv, Loops, WriteLoops, ReadLoops, WarmLoops, Ended
  <2>4. CASE pc[w] = "write"
    <3>1. pc'[w] = "reset" /\ hist'[w].wrote = key[w] /\ hist'[w].complete = ~expired[w]
      BY <1>8, <2>1, <2>4, LoopEnd DEF NextPlace
    <3>2. ~expired[w] => Through(w) = Total
      BY <1>8, <1>1, <2>4, LoopThrough DEF Through, WarmLoops
    <3>3. ~expired[w] => key[w] = Through(w) + err[w]
      BY <2>1, <2>4 DEF KeysInv, WriteLoops
    <3>4. ~expired[w] => key[w] <= Total + ErrorMax
      BY <1>1, <2>2, <3>2, <3>3
    <3>5. hist'[w].complete => hist'[w].wrote <= Total + ErrorMax
      BY <3>1, <3>4
    <3> QED
      BY <1>1, <2>1, <2>2, <3>1, <3>5
         DEF KeysInv, Loops, WriteLoops, ReadLoops, WarmLoops, Ended
  <2>5. CASE pc[w] = "read"
    <3>1. pc'[w] = "finish" /\ hist'[w] = hist[w]
      BY <1>8, <2>1, <2>5, LoopEnd DEF NextPlace
    <3> QED
      BY <1>1, <2>1, <2>2, <3>1
         DEF KeysInv, Loops, WriteLoops, ReadLoops, WarmLoops, Ended
  <2> QED
    BY <2>1, <2>3, <2>4, <2>5 DEF Loops, WriteLoops, ReadLoops, WarmLoops
<1>9. CASE Reset(w)
  <2>1. /\ i' = i /\ hist' = hist /\ expired' = expired /\ pc[w] = "reset"
        /\ key'[w] = 0
        /\ \/ pc'[w] = "warm_read" /\ WarmUp /\ err'[w] = 0
           \/ pc'[w] = "read" /\ ~WarmUp /\ err' = err
           \/ pc'[w] = "finish" /\ err' = err
    BY <1>0, <1>9 DEF Reset, ReadPhase, FirstLoop
  <2>2. i[w] = 0 /\ err[w] <= ErrorMax
    BY <2>1 DEF CountInv, KeysInv, Ended
  <2>3. pc'[w] \in Loops => Through(w)' = 0
    BY <1>1, <2>1, <2>2 DEF Through, WarmedUp, WarmLoops, Loops, ReadLoops, WriteLoops
  <2> QED
    BY <1>1, <2>1, <2>2, <2>3
       DEF KeysInv, Loops, WriteLoops, ReadLoops, WarmLoops, Ended
<1> QED
  BY <1>2, <1>3, <1>4, <1>5, <1>6, <1>7, <1>8, <1>9 DEF Acts, Step, Attempt

-----------------------------------------------------------------------------
(***************************************************************************)
(* Holes.                                                                  *)
(***************************************************************************)

\* A read after complete writes, and with no other failures than holes, is one of
\* a key that the writes went through.
LEMMA ReadInRange ==
  ASSUME BTypeOK, NEW w \in Workers, HolesInv(w), pc[w] \in ReadLoops, ~expired[w],
         i[w] < Count(pc[w]), hist[w].complete, hist[w].faults = 0
  PROVE  /\ key[w] < hist[w].wrote
         /\ key[w] + Missing(store, key[w], hist[w].wrote) + Total
              <= hist[w].wrote + Through(w)
<1>1. key[w] \in Nat /\ hist[w].wrote \in Nat /\ i[w] \in Nat
  BY Mine
<1>2. PICK m \in Nat : m = Missing(store, key[w], hist[w].wrote)
  BY <1>1, HolesFinite
<1>3. key[w] + m + Total <= hist[w].wrote + Through(w)
  BY <1>2 DEF HolesInv
<1>4. Through(w) < Total /\ Through(w) \in Nat /\ Total \in Nat
  BY <1>1, Totals, Counts DEF Count
<1>5. key[w] < hist[w].wrote
  BY <1>1, <1>3, <1>4
<1> QED
  BY <1>2, <1>3, <1>5

\* A failed read of a hole.
LEMMA HoleAhead ==
  ASSUME BTypeOK, NEW w \in Workers, HolesInv(w), pc[w] \in ReadLoops, ~expired[w],
         i[w] < Count(pc[w]), hist[w].complete, hist[w].faults = 0,
         key[w] \notin store
  PROVE  /\ key[w] + 1 <= hist[w].wrote
         /\ Missing(store, key[w] + 1, hist[w].wrote) \in Nat
         /\ key[w] + 1 + Missing(store, key[w] + 1, hist[w].wrote) + Total
              <= hist[w].wrote + Through(w)
<1>1. key[w] \in Nat /\ hist[w].wrote \in Nat /\ key[w] + 1 \in Nat
  BY Mine
<1>2. /\ key[w] < hist[w].wrote
      /\ key[w] + Missing(store, key[w], hist[w].wrote) + Total
              <= hist[w].wrote + Through(w)
  BY ReadInRange
<1>3. PICK m \in Nat : m = Missing(store, key[w] + 1, hist[w].wrote)
  BY <1>1, HolesFinite
<1>4. m + 1 = Missing(store, key[w], hist[w].wrote)
  BY <1>1, <1>2, <1>3, NextRead
<1>5. Total \in Nat /\ Through(w) \in Nat
  BY Totals
<1>6. key[w] + 1 + m + Total <= hist[w].wrote + Through(w)
  BY <1>1, <1>2, <1>4, <1>5
<1> QED
  BY <1>1, <1>2, <1>3, <1>6

\* A worker that ends, or is at a place where nothing is said about holes.
LEMMA HolesElsewhere ==
  ASSUME NEW w \in Workers, pc'[w] \notin Loops \union {"reset"}
  PROVE  HolesInv(w)'
  BY DEF HolesInv, Loops, WriteLoops, ReadLoops

\* Before the read phase nothing is said about the end.
LEMMA EndIsLater ==
  ASSUME NEW w \in Workers, ~hist'[w].complete
  PROVE  EndInv(w)'
  BY DEF EndInv

\* A successful attempt leaves no new hole behind, and reads no hole.
LEMMA HolesOfSuccess ==
  ASSUME BTypeOK, NEW w \in Workers, OpSucceeds(w), Sequential, KeysInv(w),
         HolesInv(w), EndInv(w)
  PROVE  HolesInv(w)' /\ EndInv(w)'
<1>1. /\ pc' = pc /\ expired' = expired /\ conf' = conf
      /\ \E k \in NextKeys(w) :
           IF pc[w] \in WriteLoops
           THEN WriteCanSucceed /\ store' = store \union {k}
           ELSE ReadCanSucceed(k) /\ store' = store
  BY DEF OpSucceeds
<1>2. NextKeys(w) = {key[w]}
  BY DEF NextKeys
<1>3. /\ pc[w] \in Loops /\ ~expired[w] /\ i[w] < Count(pc[w])
      /\ hist'[w].wrote = hist[w].wrote /\ hist'[w].complete = hist[w].complete
      /\ hist'[w].faults = hist[w].faults
  BY Success
<1>4. key'[w] = key[w] + 1 /\ Through(w)' = Through(w) + 1 /\ Through(w) \in Nat
  BY SuccessCounts
<1>5. key[w] \in Nat /\ hist[w].wrote \in Nat /\ Total \in Nat /\ Total' = Total
  BY <1>1, Mine, Totals, SameTotals
<1>6. CASE pc[w] \in WriteLoops
  <2>1. ~hist[w].complete
    BY <1>6 DEF KeysInv
  <2>2. store' = store \union {key[w]}
    BY <1>1, <1>2, <1>6
  <2>3. PICK m \in Nat : m = Missing(store, 0, key[w])
    BY <1>5, HolesFinite
  <2>4. PICK n \in Nat : n = Missing(store', 0, key[w] + 1)
    BY <1>5, HolesFinite
  <2>5. n <= m
    <3>1. Missing(store', 0, key[w] + 1) = Missing(store', 0, key[w])
      BY <1>5, <2>2, NextWritten
    <3>2. Missing(store', 0, key[w]) <= Missing(store, 0, key[w])
      BY <1>5, <2>2, FewerHoles
    <3> QED
      BY <2>3, <2>4, <3>1, <3>2
  <2>6. m + Through(w) <= key[w]
    BY <1>3, <1>6, <2>3 DEF HolesInv
  <2>7. n + Through(w)' <= key'[w]
    BY <1>4, <1>5, <2>5, <2>6
  <2>8. pc[w] \notin ReadLoops \union {"reset"}
    BY <1>6 DEF WriteLoops, ReadLoops
  <2>9. HolesInv(w)'
    BY <1>1, <1>4, <2>4, <2>7, <2>8 DEF HolesInv
  <2> QED
    BY <1>3, <2>1, <2>9, EndIsLater
<1>7. CASE pc[w] \in ReadLoops
  <2>1. pc[w] \notin WriteLoops \union {"reset", "killed"} /\ pc'[w] = pc[w]
    BY <1>1, <1>7 DEF WriteLoops, ReadLoops
  <2>2. store' = store /\ key[w] \in store
    BY <1>1, <1>2, <2>1 DEF ReadCanSucceed
  <2>3. ASSUME hist[w].complete, hist[w].faults = 0
        PROVE  /\ key'[w] <= hist[w].wrote
               /\ key'[w] + Missing(store', key'[w], hist[w].wrote) + Total
                    <= hist[w].wrote + Through(w)'
    <3>1. /\ key[w] < hist[w].wrote
          /\ key[w] + Missing(store, key[w], hist[w].wrote) + Total
               <= hist[w].wrote + Through(w)
      BY <1>3, <1>7, <2>3, ReadInRange
    <3>2. PICK m \in Nat : m = Missing(store, key[w], hist[w].wrote)
      BY <1>5, HolesFinite
    <3>3. Missing(store', key'[w], hist[w].wrote) = m
      BY <1>4, <1>5, <2>2, <3>1, <3>2, NextRead
    <3>4. (key[w] + 1) + m + Total <= hist[w].wrote + (Through(w) + 1)
      BY <1>4, <1>5, <3>1, <3>2
    <3> QED
      BY <1>4, <1>5, <3>1, <3>3, <3>4
  <2>4. HolesInv(w)'
    BY <1>3, <1>5, <2>1, <2>3 DEF HolesInv
  <2>5. EndInv(w)'
    BY <1>3, <2>1, <2>3 DEF EndInv
  <2> QED
    BY <2>4, <2>5
<1> QED
  BY <1>3, <1>6, <1>7 DEF Loops

\* A failed attempt is one hole more, or one hole less to read.
LEMMA HolesOfFailure ==
  ASSUME BTypeOK, NEW w \in Workers, OpFails(w), Sequential, KeysInv(w),
         HolesInv(w), EndInv(w), ~created => store = {}
  PROVE  HolesInv(w)' /\ EndInv(w)'
<1>1. pc' = pc /\ expired' = expired /\ conf' = conf /\ store' = store /\ Handle(w)
  BY DEF OpFails
<1>2. key'[w] = key[w] + 1 /\ Through(w)' = Through(w) /\ Through(w) \in Nat
  BY FailureCounts
<1>3. /\ pc[w] \in Loops /\ ~expired[w] /\ i[w] < Count(pc[w])
      /\ hist'[w].wrote = hist[w].wrote /\ hist'[w].complete = hist[w].complete
      /\ \/ hist'[w].faults = hist[w].faults + 1
         \/ /\ hist'[w].faults = hist[w].faults
            /\ pc[w] \in ReadLoops => key[w] \notin store
  BY <1>1, Failure
<1>4. key[w] \in Nat /\ hist[w].wrote \in Nat /\ hist[w].faults \in Nat
      /\ Total \in Nat /\ Total' = Total
  BY <1>1, Mine, Totals, SameTotals
<1>5. CASE pc[w] \in WriteLoops
  <2>1. ~hist[w].complete
    BY <1>5 DEF KeysInv
  <2>2. PICK m \in Nat : m = Missing(store, 0, key[w])
    BY <1>4, HolesFinite
  <2>3. PICK n \in Nat : n = Missing(store, 0, key[w] + 1)
    BY <1>4, HolesFinite
  <2>4. n <= m + 1
    BY <1>4, <2>2, <2>3, NextWritten
  <2>5. m + Through(w) <= key[w]
    BY <1>3, <1>5, <2>2 DEF HolesInv
  <2>6. n + Through(w)' <= key'[w]
    BY <1>2, <1>4, <2>4, <2>5
  <2>7. pc[w] \notin ReadLoops \union {"reset"}
    BY <1>5 DEF WriteLoops, ReadLoops
  <2>8. HolesInv(w)'
    BY <1>1, <1>2, <2>3, <2>6, <2>7 DEF HolesInv
  <2> QED
    BY <1>3, <2>1, <2>8, EndIsLater
<1>6. CASE pc[w] \in ReadLoops
  <2>1. pc[w] \notin WriteLoops \union {"reset", "killed"} /\ pc'[w] = pc[w]
    BY <1>1, <1>6 DEF WriteLoops, ReadLoops
  <2>2. ASSUME hist[w].complete, hist'[w].faults = 0
        PROVE  /\ key'[w] <= hist[w].wrote
               /\ key'[w] + Missing(store', key'[w], hist[w].wrote) + Total
                    <= hist[w].wrote + Through(w)'
    <3>1. hist[w].faults = 0 /\ key[w] \notin store
      BY <1>3, <1>4, <1>6, <2>2
    <3>2. /\ key[w] + 1 <= hist[w].wrote
          /\ key[w] + 1 + Missing(store, key[w] + 1, hist[w].wrote) + Total
               <= hist[w].wrote + Through(w)
      BY <1>3, <1>6, <2>2, <3>1, HoleAhead
    <3> QED
      BY <1>1, <1>2, <3>2
  <2>3. HolesInv(w)'
    BY <1>3, <1>4, <2>1, <2>2 DEF HolesInv
  <2>4. EndInv(w)'
    BY <1>3, <2>1, <2>2 DEF EndInv
  <2> QED
    BY <2>3, <2>4
<1> QED
  BY <1>3, <1>5, <1>6 DEF Loops

\* An item that cannot be found: the writes left a hole.
LEMMA HolesOfMiss ==
  ASSUME BTypeOK, NEW w \in Workers, MissKills(w), Sequential, KeysInv(w), HolesInv(w)
  PROVE  HolesInv(w)' /\ EndInv(w)'
<1>1. /\ pc'[w] = "killed" /\ hist' = hist /\ conf' = conf
      /\ ~expired[w] /\ i[w] < Count(pc[w]) /\ pc[w] \in Loops
  BY DEF MissKills, LoopCondition, BTypeOK
<1>2. pc[w] \in ReadLoops /\ key[w] \notin store
  <2>1. PICK k \in NextKeys(w) : NotFound(w, k)
    BY DEF MissKills
  <2> QED
    BY <2>1 DEF NotFound, NextKeys
<1>3. key[w] \in Nat /\ hist[w].wrote \in Nat /\ Total \in Nat /\ Total' = Total
      /\ Through(w) \in Nat /\ Through(w) <= key[w]
  BY <1>1, Mine, Totals, SameTotals DEF KeysInv
<1>4. ASSUME hist[w].complete, hist[w].faults = 0 PROVE hist[w].wrote > Total
  <2>1. /\ Missing(store, key[w] + 1, hist[w].wrote) \in Nat
        /\ key[w] + 1 + Missing(store, key[w] + 1, hist[w].wrote) + Total
             <= hist[w].wrote + Through(w)
    BY <1>1, <1>2, <1>4, HoleAhead
  <2> QED
    BY <1>3, <2>1
<1>5. HolesInv(w)'
  BY <1>1, HolesElsewhere DEF Loops, WriteLoops, ReadLoops
<1>6. EndInv(w)'
  BY <1>1, <1>3, <1>4 DEF EndInv, ReadLoops
<1> QED
  BY <1>5, <1>6

\* The end of a loop: complete writes leave as many holes as errors at most.
LEMMA HolesOfLoopEnd ==
  ASSUME BTypeOK, NEW w \in Workers, LoopEnds(w), Sequential, CountInv(w), KeysInv(w),
         HolesInv(w), EndInv(w)
  PROVE  HolesInv(w)' /\ EndInv(w)'
<1>1. /\ pc'[w] = NextPlace(pc[w]) /\ pc[w] \in Loops
      /\ UNCHANGED <<conf, key, expired, store>>
  BY DEF LoopEnds, BTypeOK
<1>2. Total' = Total /\ Backend' = Backend
  BY <1>1, SameTotals
<1>3. CASE pc[w] \in WarmLoops
  <2>1. WarmUp /\ hist'[w] = hist[w]
    BY <1>3, LoopEnd DEF KeysInv, WarmLoops
  <2>2. ~expired[w] => Through(w)' = Through(w)
    BY <1>3, <2>1, WarmUpHandsOver
  <2>3. \/ pc[w] = "warm_write" /\ pc'[w] = "write"
        \/ pc[w] = "warm_read" /\ pc'[w] = "read"
    BY <1>1, <1>3 DEF NextPlace, WarmLoops
  <2>4. HolesInv(w)'
    BY <1>1, <1>2, <2>1, <2>2, <2>3 DEF HolesInv, WriteLoops, ReadLoops
  <2>5. EndInv(w)'
    <3>1. hist[w].complete => pc[w] = "warm_read" /\ pc'[w] = "read"
      BY <2>3 DEF KeysInv, WriteLoops
    <3> QED
      BY <1>1, <1>2, <2>1, <3>1 DEF EndInv, ReadLoops
  <2> QED
    BY <2>4, <2>5
<1>4. CASE pc[w] = "write"
  <2>1. /\ pc'[w] = "reset" /\ hist'[w].wrote = key[w]
        /\ hist'[w].complete = ~expired[w]
    BY <1>1, <1>4, LoopEnd DEF NextPlace
  <2>2. ~expired[w] => Through(w) = Total
    BY <1>4, LoopThrough, Totals DEF WarmLoops
  <2>3. ~expired[w] => Missing(store, 0, key[w]) + Through(w) <= key[w]
    BY <1>4 DEF HolesInv, WriteLoops
  <2>4. HolesInv(w)'
    BY <1>1, <1>2, <2>1, <2>2, <2>3 DEF HolesInv, WriteLoops, ReadLoops
  <2>5. EndInv(w)'
    BY <2>1 DEF EndInv, ReadLoops
  <2> QED
    BY <2>4, <2>5
<1>5. CASE pc[w] = "read"
  <2>1. pc'[w] = "finish" /\ hist'[w] = hist[w]
    BY <1>1, <1>5, LoopEnd DEF NextPlace
  <2>2. HolesInv(w)'
    BY <2>1, HolesElsewhere DEF Loops, WriteLoops, ReadLoops
  <2>3. EndInv(w)'
    BY <1>1, <1>5, <2>1 DEF EndInv, ReadLoops
  <2> QED
    BY <2>2, <2>3
<1> QED
  BY <1>1, <1>3, <1>4, <1>5 DEF Loops, WriteLoops, ReadLoops, WarmLoops

\* The reads start at key 0 with the holes that the writes have left.
LEMMA HolesOfReset ==
  ASSUME BTypeOK, NEW w \in Workers, Reset(w), CountInv(w), HolesInv(w)
  PROVE  HolesInv(w)' /\ EndInv(w)'
<1>1. /\ UNCHANGED <<conf, i, hist, store>> /\ pc[w] = "reset" /\ key'[w] = 0
      /\ \/ pc'[w] = "warm_read" /\ WarmUp
         \/ pc'[w] = "read" /\ ~WarmUp
         \/ pc'[w] = "finish"
  BY DEF Reset, ReadPhase, FirstLoop, BTypeOK
<1>2. i[w] = 0 /\ hist[w].wrote \in Nat /\ WarmedUp' = WarmedUp /\ Total' = Total
      /\ Total \in Nat
  BY <1>1, Mine, Totals, SameTotals DEF CountInv
<1>3. pc'[w] \in ReadLoops => Through(w)' = 0
  BY <1>1, <1>2 DEF Through, WarmedUp, WarmLoops, ReadLoops
<1>4. PICK m \in Nat : m = Missing(store, 0, hist[w].wrote)
  BY <1>2, HolesFinite
<1>5. hist[w].complete => m + Total <= hist[w].wrote
  BY <1>1, <1>4 DEF HolesInv
<1>6. hist[w].complete => 0 + m + Total <= hist[w].wrote + 0
  BY <1>2, <1>5
<1>7. HolesInv(w)'
  BY <1>1, <1>2, <1>3, <1>4, <1>6 DEF HolesInv, WriteLoops, ReadLoops
<1>8. EndInv(w)'
  BY <1>1, <1>2 DEF EndInv, ReadLoops
<1> QED
  BY <1>7, <1>8

\* All steps, as long as nobody removes the storage.
LEMMA HolesKeep ==
  ASSUME BTypeOK, NEW w \in Workers, Acts(w), CountInv(w), ~created => store = {},
         Sequential, KeysInv(w), HolesInv(w), EndInv(w), Undisturbed'
  PROVE  HolesInv(w)' /\ EndInv(w)'
<1>0. pc \in [Workers -> Places] /\ expired \in [Workers -> BOOLEAN] /\ conf' = conf
  BY Frame DEF BTypeOK
<1>1. Total' = Total /\ Backend' = Backend /\ Mode' = Mode /\ WarmedUp' = WarmedUp
  BY <1>0, SameTotals
<1>2. CASE InitStorage(w) \/ InitFails(w) \/ SignalRun(w) \/ SignalAbort(w)
  <2>1. /\ UNCHANGED <<i, key, expired, store, hist>> /\ pc[w] \in {"init", "signal"}
        /\ \/ pc'[w] \in {"signal", "killed", "reset", "aborted"}
           \/ pc'[w] = "warm_write" /\ WarmUp
           \/ pc'[w] = "write" /\ ~WarmUp
    BY <1>0, <1>2 DEF InitStorage, InitFails, SignalRun, SignalAbort, FirstLoop
  <2>2. key[w] = 0 /\ ~hist[w].complete /\ i[w] = 0
    BY <2>1 DEF KeysInv, CountInv
  <2>3. pc'[w] \in WriteLoops => Through(w)' = 0
    BY <1>1, <2>1, <2>2 DEF Through, WarmedUp, WarmLoops, WriteLoops
  <2>4. Missing(store, 0, 0) + 0 <= 0
    BY NothingMissing
  <2>5. HolesInv(w)'
    BY <2>1, <2>2, <2>3, <2>4 DEF HolesInv, WriteLoops, ReadLoops
  <2> QED
    BY <2>1, <2>2, <2>5, EndIsLater
<1>3. CASE TooManyErrors(w)
  <2>1. pc'[w] = "exited"
    BY <1>0, <1>3 DEF TooManyErrors
  <2> QED
    BY <2>1 DEF Undisturbed
<1>4. CASE Disconnected(w)
  <2>1. pc'[w] = "killed" /\ Backend = "redis"
    BY <1>0, <1>4 DEF Disconnected
  <2> QED
    BY <1>1, <2>1, HolesElsewhere DEF Loops, WriteLoops, ReadLoops, EndInv
<1>5. CASE Finish(w) \/ FinishKills(w)
  <2>1. "destroy" \notin Mode
    BY <1>1 DEF Undisturbed
  <2>2. pc[w] = "finish" /\ pc'[w] = "done" /\ key' = key /\ hist' = hist
    BY <1>0, <1>5, <2>1 DEF Finish, FinishKills
  <2>3. HolesInv(w)'
    BY <2>2, HolesElsewhere DEF Loops, WriteLoops, ReadLoops
  <2>4. EndInv(w)'
    BY <1>1, <2>2 DEF EndInv
  <2> QED
    BY <2>3, <2>4
<1>6. CASE Expire(w)
  <2>1. UNCHANGED <<pc, i, key, store, hist>> /\ expired'[w]
    BY <1>0, <1>6 DEF Expire
  <2> QED
    BY <1>1, <2>1 DEF HolesInv, EndInv
<1> QED
  BY <1>2, <1>3, <1>4, <1>5, <1>6, HolesOfSuccess, HolesOfFailure, HolesOfMiss,
     HolesOfLoopEnd, HolesOfReset DEF Acts, Step, Attempt

\* A worker that takes no step: its holes can only get fewer.
LEMMA OthersKeep ==
  ASSUME BTypeOK, NEW w \in Workers, Acts(w), ~created => store = {},
         NEW v \in Workers \ {w}, WorkerInv(v)
  PROVE  WorkerInv(v)'
<1>1. /\ conf' = conf /\ pc'[v] = pc[v] /\ i'[v] = i[v] /\ err'[v] = err[v]
      /\ key'[v] = key[v] /\ expired'[v] = expired[v] /\ files'[v] = files[v]
      /\ hist'[v] = hist[v]
      /\ Undisturbed' => Undisturbed /\ store \subseteq store'
  BY Frame
<1>2. /\ WarmUp' = WarmUp /\ Sequential' = Sequential /\ Backend' = Backend
      /\ WarmedUp' = WarmedUp /\ Total' = Total
  BY <1>1, SameTotals
<1>3. Through(v)' = Through(v)
  BY <1>1, <1>2 DEF Through
<1>4. CountInv(v)'
  BY <1>1 DEF WorkerInv, CountInv
<1>5. Sequential => KeysInv(v)'
  BY <1>1, <1>2, <1>3 DEF WorkerInv, KeysInv
<1>6. ASSUME Sequential, Undisturbed' PROVE HolesInv(v)' /\ EndInv(v)'
  <2>1. HolesInv(v) /\ EndInv(v) /\ store \subseteq store'
    BY <1>1, <1>6 DEF WorkerInv
  <2>2. key[v] \in Nat /\ hist[v].wrote \in Nat /\ Total \in Nat /\ Through(v) \in Nat
        /\ 0 \in Nat
    BY Mine, Totals
  <2>3. ASSUME NEW a \in Nat, NEW b \in Nat, NEW x \in Nat, NEW y \in Nat, NEW z \in Nat
        PROVE  /\ Missing(store, a, b) + x <= y => Missing(store', a, b) + x <= y
               /\ z + Missing(store, a, b) + x <= y => z + Missing(store', a, b) + x <= y
    <3>1. PICK m \in Nat : m = Missing(store, a, b)
      BY HolesFinite
    <3>2. PICK n \in Nat : n = Missing(store', a, b)
      BY HolesFinite
    <3>3. n <= m
      BY <2>1, <3>1, <3>2, FewerHoles
    <3>4. (m + x <= y => n + x <= y) /\ (z + m + x <= y => z + n + x <= y)
      BY <3>3
    <3> QED
      BY <3>1, <3>2, <3>4
  <2>4. hist[v].wrote + Through(v) \in Nat
    BY <2>2
  <2>5. HolesInv(v)'
    <3>1. (pc[v] \in WriteLoops /\ ~expired[v] =>
             Missing(store, 0, key[v]) + Through(v) <= key[v])'
      BY <1>1, <1>2, <1>3, <2>1, <2>2, <2>3, SMTT(20) DEF HolesInv
    <3>2. (pc[v] = "reset" /\ hist[v].complete =>
             Missing(store, 0, hist[v].wrote) + Total <= hist[v].wrote)'
      BY <1>1, <1>2, <1>3, <2>1, <2>2, <2>3, SMTT(20) DEF HolesInv
    <3>3. (pc[v] \in ReadLoops /\ ~expired[v] /\ hist[v].complete
             /\ hist[v].faults = 0 =>
             key[v] + Missing(store, key[v], hist[v].wrote) + Total
               <= hist[v].wrote + Through(v))'
      BY <1>1, <1>2, <1>3, <2>1, <2>2, <2>3, <2>4, SMTT(20) DEF HolesInv
    <3> QED
      BY <3>1, <3>2, <3>3 DEF HolesInv
  <2>6. EndInv(v)'
    BY <1>1, <1>2, <2>1 DEF EndInv
  <2> QED
    BY <2>5, <2>6
<1> QED
  BY <1>2, <1>4, <1>5, <1>6 DEF WorkerInv

\* The worker that takes the step.
LEMMA ActorKeeps ==
  ASSUME BTypeOK, NEW w \in Workers, Acts(w), ~created => store = {}, WorkerInv(w)
  PROVE  WorkerInv(w)'
<1>1. conf' = conf /\ (Undisturbed' => Undisturbed)
  BY Frame
<1>2. Sequential' = Sequential
  BY <1>1, SameTotals
<1>3. CountInv(w)'
  BY CountKeeps DEF WorkerInv
<1>4. Sequential => KeysInv(w)'
  BY KeysKeep DEF WorkerInv
<1>5. Sequential /\ Undisturbed' => HolesInv(w)' /\ EndInv(w)'
  BY <1>1, HolesKeep DEF WorkerInv
<1> QED
  BY <1>2, <1>3, <1>4, <1>5 DEF WorkerInv

\* With warm-up, reads that fail at holes only stay within the errors of the
\* writes, and these were put up with.
LEMMA HolesAreFew ==
  ASSUME BTypeOK, NEW w \in Workers, TooManyErrors(w), ~created => store = {},
         WarmUp, Sequential, KeysInv(w), HolesInv(w),
         hist'[w].complete, hist'[w].faults = 0
  PROVE  FALSE
<1>1. Handle(w) /\ err'[w] > ErrorMax
  BY DEF TooManyErrors
<1>2. /\ pc[w] \in Loops /\ i[w] < Count(pc[w]) /\ ~expired[w]
      /\ hist[w].complete
      /\ \/ hist'[w].faults = hist[w].faults + 1
         \/ /\ hist'[w].faults = hist[w].faults
            /\ pc[w] \in ReadLoops => key[w] \notin store
      /\ err'[w] = err[w] + 1
  BY <1>1, Failure
<1>3. /\ key[w] \in Nat /\ err[w] \in Nat /\ hist[w].wrote \in Nat
      /\ hist[w].faults \in Nat /\ Total \in Nat /\ Through(w) \in Nat /\ ErrorMax \in Nat
  BY Mine, Totals, Counts
<1>4. pc[w] \in ReadLoops
  BY <1>2 DEF KeysInv, Loops
<1>5. hist[w].faults = 0 /\ key[w] \notin store
  BY <1>2, <1>3, <1>4
<1>6. PICK m \in Nat : key[w] + 1 + m + Total <= hist[w].wrote + Through(w)
  BY <1>2, <1>4, <1>5, HoleAhead
<1>7. key[w] = Through(w) + err[w] /\ hist[w].wrote <= Total + ErrorMax
  BY <1>2 DEF KeysInv
<1> QED
  BY <1>1, <1>2, <1>3, <1>6, <1>7

\* No step of a worker ends a run on account of holes.
LEMMA AbortKeeps ==
  ASSUME BInv, NEW w \in Workers, Acts(w)
  PROVE  HolesNeverAbort'
<1>1. /\ BTypeOK /\ WorkerInv(w) /\ (~created => store = {}) /\ HolesNeverAbort
  BY DEF BInv
<1>2. /\ conf' = conf
      /\ \A v \in Workers \ {w} : pc'[v] = pc[v] /\ hist'[v] = hist[v]
  BY <1>1, Frame
<1>3. WarmUp' = WarmUp /\ Sequential' = Sequential /\ Mode' = Mode
  BY <1>2, SameTotals
<1>4. pc[w] # "exited"
  BY DEF Acts, Step, Attempt, InitStorage, InitFails, SignalRun, SignalAbort, OpSucceeds,
         OpFails, TooManyErrors, Handle, MissKills, LoopEnds, Reset, Finish, FinishKills,
         Expire, Disconnected, Loops, WriteLoops, ReadLoops, Ended
<1> SUFFICES ASSUME WarmUp, Sequential, "destroy" \notin Mode,
                    NEW v \in Workers, pc'[v] = "exited",
                    hist'[v].complete, hist'[v].faults = 0
             PROVE  \E u \in Workers \ {v} : pc'[u] = "exited"
  BY <1>3 DEF HolesNeverAbort
<1>5. CASE v # w
  <2>1. pc[v] = "exited" /\ hist[v].complete /\ hist[v].faults = 0
    BY <1>2, <1>5
  <2>2. PICK u \in Workers \ {v} : pc[u] = "exited"
    BY <1>1, <2>1 DEF HolesNeverAbort
  <2>3. pc'[u] = "exited"
    BY <1>2, <1>4, <2>2
  <2> QED
    BY <2>3
<1>6. CASE v = w
  <2> SUFFICES ASSUME \A u \in Workers \ {w} : pc'[u] # "exited"
               PROVE  FALSE
    BY <1>6
  <2>1. \A u \in Workers : pc[u] # "exited"
    BY <1>2, <1>4
  <2>2. Undisturbed
    BY <2>1 DEF Undisturbed
  <2>3. TooManyErrors(w)
    <3>1. pc \in [Workers -> Places] /\ pc[w] # "exited"
      BY <1>1, <1>4 DEF BTypeOK
    <3>2. LoopEnds(w) => pc'[w] # "exited"
      BY <3>1 DEF LoopEnds, NextPlace, Loops, WriteLoops, ReadLoops
    <3>3. InitStorage(w) \/ InitFails(w) \/ SignalRun(w) \/ SignalAbort(w) \/ Reset(w)
            => pc'[w] # "exited"
      BY <3>1 DEF InitStorage, InitFails, SignalRun, SignalAbort, FirstLoop, Reset, ReadPhase
    <3>4. OpSucceeds(w) \/ OpFails(w) \/ MissKills(w) \/ Finish(w) \/ FinishKills(w)
            \/ Expire(w) \/ Disconnected(w) => pc'[w] # "exited"
      BY <3>1 DEF OpSucceeds, OpFails, MissKills, Finish, FinishKills, Expire, Disconnected
    <3> QED
      BY <1>6, <3>2, <3>3, <3>4 DEF Acts, Step, Attempt
  <2>4. KeysInv(w) /\ HolesInv(w)
    BY <1>1, <2>2 DEF WorkerInv
  <2> QED
    BY <1>1, <1>6, <2>3, <2>4, HolesAreFew
<1> QED
  BY <1>5, <1>6

-----------------------------------------------------------------------------
(***************************************************************************)
(* The inductive invariant, and what follows from it.                      *)
(***************************************************************************)

\* At the start nothing is stored and nothing is counted.
LEMMA BInvInit == Init => BInv
<1> SUFFICES ASSUME Init PROVE BInv
  OBVIOUS
<1>1. BTypeOK
  <2>1. [o \in {"write", "read"} |-> 0] \in [Ops -> Nat]
    BY DEF Ops
  <2>2. Past([o \in {"write", "read"} |-> 0], 0, FALSE, 0)
          \in [done : [Ops -> Nat], wrote : Nat, complete : BOOLEAN, faults : Nat]
    BY <2>1 DEF Past
  <2>3. File(0, FALSE, 0) \in [lines : Nat, reported : BOOLEAN, ops : Nat]
    BY DEF File
  <2>4. hist \in [Workers -> [done : [Ops -> Nat], wrote : Nat, complete : BOOLEAN,
                              faults : Nat]]
    BY <2>2 DEF Init
  <2>5. files \in [Workers -> [Ops -> [lines : Nat, reported : BOOLEAN, ops : Nat]]]
    BY <2>3 DEF Init, Ops
  <2>6. /\ pc \in [Workers -> Places] /\ created \in BOOLEAN /\ store \subseteq Nat
        /\ i \in [Workers -> Nat] /\ err \in [Workers -> Nat] /\ key \in [Workers -> Nat]
        /\ expired \in [Workers -> BOOLEAN] /\ conf \in Confs
    BY DEF Init, Places
  <2> QED
    BY <2>4, <2>5, <2>6 DEF BTypeOK
<1>2. ASSUME NEW w \in Workers PROVE WorkerInv(w) /\ key[w] = 0
  <2>1. pc[w] = "init" /\ i[w] = 0 /\ err[w] = 0 /\ key[w] = 0
    BY DEF Init
  <2>2. ~hist[w].complete /\ \A o \in Ops : hist[w].done[o] = 0
    BY DEF Init, Past, Ops
  <2>3. \A o \in Ops : ~files[w][o].reported /\ files[w][o].lines = 0
    BY DEF Init, File, Ops
  <2>4. CountInv(w)
    BY <2>1, <2>2, <2>3 DEF CountInv, Loops, WriteLoops, ReadLoops, Ops
  <2>5. KeysInv(w)
    BY <2>1, <2>2, Counts DEF KeysInv, Loops, WriteLoops, ReadLoops, WarmLoops
  <2>6. HolesInv(w) /\ EndInv(w)
    BY <2>1, <2>2 DEF HolesInv, EndInv, WriteLoops, ReadLoops
  <2> QED
    BY <2>1, <2>4, <2>5, <2>6 DEF WorkerInv
<1>3. HolesNeverAbort /\ store = {}
  BY DEF Init, HolesNeverAbort
<1> QED
  BY <1>1, <1>2, <1>3 DEF BInv

\* Every step of a worker keeps the invariant.
LEMMA BInvStep == BInv /\ [Next]_vars => BInv'
<1> SUFFICES ASSUME BInv, [Next]_vars PROVE BInv'
  OBVIOUS
<1>1. ASSUME NEW w \in Workers, Acts(w) PROVE BInv'
  <2>1. /\ BTypeOK /\ (~created => store = {}) /\ WorkerInv(w) /\ CountInv(w)
        /\ \A v \in Workers : WorkerInv(v)
    BY DEF BInv, WorkerInv
  <2>2. BTypeOK' /\ (~created' => store' = {}) /\ Sequential' = Sequential
    BY <1>1, <2>1, Types, Frame, SameTotals
  <2>3. ASSUME NEW v \in Workers PROVE WorkerInv(v)'
    BY <1>1, <2>1, ActorKeeps, OthersKeep
  <2>4. HolesNeverAbort'
    BY <1>1, AbortKeeps
  <2>5. ASSUME ~Sequential, NEW v \in Workers PROVE key'[v] = 0
    <3>1. key[v] = 0 /\ key[w] = 0 /\ key \in [Workers -> Nat]
      BY <2>5 DEF BInv, BTypeOK
    <3>2. CASE v # w
      BY <1>1, <2>1, <3>1, <3>2, Frame
    <3>3. CASE v = w
      <4>1. KeyTaken(w) => key'[w] = 0
        BY <2>1, <2>5, <3>1, KeyTypes
      <4> QED
        BY <1>1, <3>1, <3>3, <4>1
           DEF Acts, Step, Attempt, InitStorage, InitFails, SignalRun, SignalAbort,
               OpSucceeds, OpFails, TooManyErrors, Handle, MissKills, LoopEnds, Reset,
               Finish, FinishKills, Expire, Disconnected
    <3> QED
      BY <3>2, <3>3
  <2> QED
    BY <2>2, <2>3, <2>4, <2>5 DEF BInv
<1>2. CASE UNCHANGED vars
  BY <1>2 DEF vars, BInv, BTypeOK, WorkerInv, CountInv, KeysInv, HolesInv, EndInv,
     Through, WarmedUp, Total, HolesNeverAbort, Undisturbed, WarmUp, Sequential, Mode,
     Backend
<1> QED
  BY <1>1, <1>2 DEF Next, Acts, Terminated

\* The invariant holds in every behaviour.
LEMMA AlwaysBInv == Spec => []BInv
  BY BInvInit, BInvStep, PTL DEF Spec

\* What a finished phase reports is what happened, and the size_t counter keeps
\* no wrapped value in a worker that goes on.
THEOREM HonestReport == Spec => []ReportIsHonest
<1>1. BInv => ReportIsHonest
  <2> SUFFICES ASSUME BInv, NEW w \in Workers
               PROVE  /\ pc[w] \notin {"exited", "killed"} => i[w] <= NumOps
                      /\ \A o \in Ops :
                           files[w][o].reported =>
                             /\ files[w][o].ops = hist[w].done[o]
                             /\ files[w][o].lines >= files[w][o].ops
    BY DEF ReportIsHonest, Ops
  <2>1. CountInv(w) /\ BTypeOK
    BY DEF BInv, WorkerInv
  <2>2. pc[w] \notin {"exited", "killed"} => i[w] <= NumOps
    <3>1. pc[w] \in Places /\ i[w] \in Nat /\ NumOps \in Nat
      BY <2>1, Mine, Counts
    <3>2. Count(pc[w]) \in Nat /\ Count(pc[w]) <= NumOps
      BY LoopCounts
    <3>3. CASE pc[w] \in Loops
      BY <2>1, <3>1, <3>2, <3>3 DEF CountInv
    <3>4. CASE pc[w] \notin Loops
      BY <2>1, <3>1, <3>4 DEF CountInv, Places, Ended
    <3> QED
      BY <3>3, <3>4
  <2> QED
    BY <2>1, <2>2 DEF CountInv
<1> QED
  BY <1>1, AlwaysBInv, PTL

\* Failed writes cost the reads one attempt each and no more.
THEOREM ReadsInRange == Spec => []ReadsStayInWrittenRange
<1>1. BInv => ReadsStayInWrittenRange
  <2> SUFFICES ASSUME BInv, Undisturbed, NEW w \in Workers,
                      pc[w] \in ReadLoops \union {"finish", "done"},
                      hist[w].complete, hist[w].faults = 0
               PROVE  key[w] <= hist[w].wrote
    BY DEF ReadsStayInWrittenRange
  <2>1. CASE Sequential
    BY <2>1 DEF BInv, WorkerInv, EndInv
  <2>2. CASE ~Sequential
    <3>1. key[w] = 0 /\ hist[w].wrote \in Nat
      BY <2>2, Mine DEF BInv
    <3> QED
      BY <3>1
  <2> QED
    BY <2>1, <2>2
<1> QED
  BY <1>1, AlwaysBInv, PTL

\* With warm-up, holes alone never end a run.
THEOREM HolesTolerated == Spec => []HolesNeverAbort
<1>1. BInv => HolesNeverAbort
  BY DEF BInv
<1> QED
  BY <1>1, AlwaysBInv, PTL

\* After complete writes a dynamodb run is killed by a hole only.
THEOREM HoleKilled == Spec => []KilledOnlyByHole
<1>1. BInv => KilledOnlyByHole
  BY DEF BInv, WorkerInv, EndInv, KilledOnlyByHole, Total, WarmedUp
<1> QED
  BY <1>1, AlwaysBInv, PTL

=============================================================================
