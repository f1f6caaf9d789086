------------------------ MODULE ControlBarrierProofs ------------------------
(***************************************************************************)
(* Theorems about ControlBarrier, for any number of workers and waves, any *)
(* set of invocations (any events delivered twice) and any deaths.         *)
(***************************************************************************)
EXTENDS Deployment, TLAPS, FiniteSetTheorems

\* The number of places is a positive natural number.
LEMMA NumWorkersPositive == NumWorkers \in Nat /\ NumWorkers > 0
<1>. DEFINE W == WorkersPerTrigger
           T == TriggerCount
<1>1. W \in Nat /\ T \in Nat /\ W >= 1 /\ T >= 1
  BY CountAssumption
<1>. HIDE DEF W, T
<1>2. W * T \in Nat /\ W * T >= 1
  BY <1>1
<1>. QED
  BY <1>2 DEF NumWorkers, W, T

\* The size of an interval, the empty one included.
LEMMA IntervalSize ==
  ASSUME NEW a \in Int, NEW b \in Int, a <= b + 1
  PROVE  IsFiniteSet(a .. b) /\ Cardinality(a .. b) = b - a + 1
<1>1. /\ IsFiniteSet(a .. b)
      /\ Cardinality(a .. b) = IF a > b THEN 0 ELSE b - a + 1
  BY FS_Interval
<1>. QED
  BY <1>1

\* A function that climbs from 1 .. n onto all of 0 .. n - 1 has no choice: it is
\* injective, so that at most k values are below or at f[k] and at most n + 1 - k
\* at or above it.
LEMMA ClimbsByOne ==
  ASSUME NEW n \in Nat, NEW f \in [1 .. n -> 0 .. n - 1],
         \A i \in 0 .. n - 1 : \E k \in 1 .. n : f[k] = i,
         \A j, k \in 1 .. n : j < k => f[j] <= f[k]
  PROVE  \A k \in 1 .. n : f[k] = k - 1
<1>1. IsFiniteSet(1 .. n) /\ Cardinality(1 .. n) = n
  BY IntervalSize
<1>2. IsFiniteSet(0 .. n - 1) /\ Cardinality(0 .. n - 1) = n
  <2>1. IsFiniteSet(0 .. n - 1) /\ Cardinality(0 .. n - 1) = (n - 1) - 0 + 1
    BY IntervalSize
  <2>. QED  BY <2>1
<1>3. f \in Surjection(1 .. n, 0 .. n - 1)
  BY DEF Surjection
<1>4. f \in Injection(1 .. n, 0 .. n - 1)
  BY <1>1, <1>2, <1>3, FS_Surjection
<1>5. \A j, k \in 1 .. n : f[j] = f[k] => j = k
  BY <1>4 DEF Injection, IsInjective
<1>. SUFFICES ASSUME NEW k \in 1 .. n PROVE f[k] = k - 1
  OBVIOUS
<1>6. PICK v \in 0 .. n - 1 : v = f[k]
  OBVIOUS
<1>7. v \in Int /\ k \in Int /\ 0 <= v /\ v <= n - 1 /\ 1 <= k /\ k <= n
  OBVIOUS
<1>8. k <= v + 1
  <2>. DEFINE g == [j \in 1 .. k |-> f[j]]
  <2>1. \A j \in 1 .. k : f[j] \in 0 .. v
    BY <1>6
  <2>2. g \in [1 .. k -> 0 .. v]
    BY <2>1
  <2>3. \A i, j \in 1 .. k : g[i] = g[j] => i = j
    BY <1>5
  <2>4. g \in Injection(1 .. k, 0 .. v)
    BY <2>2, <2>3 DEF Injection, IsInjective
  <2>. HIDE DEF g
  <2>5. IsFiniteSet(0 .. v) /\ Cardinality(0 .. v) = v - 0 + 1
    BY <1>7, IntervalSize
  <2>6. Cardinality(1 .. k) = k - 1 + 1
    BY <1>7, IntervalSize
  <2>7. Cardinality(1 .. k) <= Cardinality(0 .. v)
    BY <2>4, <2>5, FS_Injection
  <2>. QED
    BY <1>7, <2>5, <2>6, <2>7
<1>9. n - k + 1 <= n - v
  <2>. DEFINE g == [j \in k .. n |-> f[j]]
  <2>1. \A j \in k .. n : f[j] \in v .. n - 1
    BY <1>6
  <2>2. g \in [k .. n -> v .. n - 1]
    BY <2>1
  <2>3. \A i, j \in k .. n : g[i] = g[j] => i = j
    BY <1>5
  <2>4. g \in Injection(k .. n, v .. n - 1)
    BY <2>2, <2>3 DEF Injection, IsInjective
  <2>. HIDE DEF g
  <2>5. IsFiniteSet(v .. n - 1) /\ Cardinality(v .. n - 1) = (n - 1) - v + 1
    BY <1>7, IntervalSize
  <2>6. Cardinality(k .. n) = n - k + 1
    BY <1>7, IntervalSize
  <2>7. Cardinality(k .. n) <= Cardinality(v .. n - 1)
    BY <2>4, <2>5, FS_Injection
  <2>. QED
    BY <1>7, <2>5, <2>6, <2>7
<1>. QED
  BY <1>6, <1>7, <1>8, <1>9

\* ready.sort() when every id has exactly one place: the k-th place is the one of
\* id k - 1.
LEMMA SortedPlaces ==
  ASSUME NEW s \in Seq(Ids \X Invocations),
         \A j, k \in 1 .. Len(s) : s[j][1] = s[k][1] => j = k,
         \A i \in Ids : \E k \in 1 .. Len(s) : s[k][1] = i
  PROVE  /\ Len(s) = NumWorkers
         /\ SortById(s) \in [1 .. NumWorkers -> {s[k] : k \in 1 .. NumWorkers}]
         /\ {SortById(s)[k] : k \in 1 .. NumWorkers} = {s[k] : k \in 1 .. NumWorkers}
         /\ \A k \in 1 .. NumWorkers : SortById(s)[k][1] = k - 1
<1>. DEFINE n == NumWorkers
           S == {s[k] : k \in 1 .. n}
           IsSort(p) == /\ {p[k] : k \in 1 .. n} = S
                        /\ \A j, k \in 1 .. n : j < k => p[j][1] <= p[k][1]
<1>1. n \in Nat /\ Ids = 0 .. n - 1
  BY NumWorkersPositive DEF Ids
<1>2. \A k \in 1 .. Len(s) : s[k] \in Ids \X Invocations
  OBVIOUS
<1>3. Len(s) = n
  <2>. DEFINE f == [k \in 1 .. Len(s) |-> s[k][1]]
  <2>1. f \in Surjection(1 .. Len(s), Ids) /\ f \in Injection(1 .. Len(s), Ids)
    BY <1>2 DEF Surjection, Injection, IsInjective
  <2>. HIDE DEF f
  <2>2. Len(s) \in Nat
    OBVIOUS
  <2>3. IsFiniteSet(1 .. Len(s)) /\ Cardinality(1 .. Len(s)) = Len(s)
    BY <2>2, IntervalSize
  <2>4. Cardinality(Ids) = n
    <3>1. Cardinality(0 .. n - 1) = (n - 1) - 0 + 1
      <4>. HIDE DEF n
      <4>. QED  BY <1>1, IntervalSize
    <3>. QED  BY <1>1, <3>1
  <2>. QED
    BY <2>1, <2>3, <2>4, FS_Surjection
<1>4. \E p \in [1 .. n -> S] : IsSort(p)
  <2>. DEFINE at(i) == CHOOSE k \in 1 .. n : s[k][1] = i
             q == [k \in 1 .. n |-> s[at(k - 1)]]
  <2>1. \A i \in Ids : at(i) \in 1 .. n /\ s[at(i)][1] = i
    BY <1>3
  <2>2. \A k \in 1 .. n : k - 1 \in Ids
    BY <1>1
  <2>3. \A k \in 1 .. n : s[k][1] \in Ids /\ at(s[k][1]) = k
    BY <1>2, <1>3, <2>1
  <2>. HIDE DEF at
  <2>4. \A k \in 1 .. n : q[k] \in S /\ q[k][1] = k - 1
    BY <2>1, <2>2
  <2>5. \A k \in 1 .. n : s[k][1] + 1 \in 1 .. n /\ q[s[k][1] + 1] = s[k]
    <3>. SUFFICES ASSUME NEW k \in 1 .. n
                  PROVE  s[k][1] + 1 \in 1 .. n /\ q[s[k][1] + 1] = s[k]
      OBVIOUS
    <3>1. s[k][1] + 1 \in 1 .. n /\ (s[k][1] + 1) - 1 = s[k][1]
      <4>1. PICK i \in 0 .. n - 1 : i = s[k][1]
        BY <1>1, <2>3
      <4>. HIDE DEF n
      <4>2. i + 1 \in 1 .. n /\ (i + 1) - 1 = i
        BY <1>1
      <4>. QED  BY <4>1, <4>2
    <3>. QED
      BY <2>3, <3>1
  <2>6. q \in [1 .. n -> S]
    BY <2>4
  <2>. HIDE DEF q
  <2>7. {q[k] : k \in 1 .. n} = S
    <3>1. \A e \in S : \E k \in 1 .. n : e = q[k]
      BY <2>5
    <3>2. \A k \in 1 .. n : q[k] \in S
      BY <2>4
    <3>. HIDE DEF S, n
    <3>3. \A e : e \in {q[k] : k \in 1 .. n} <=> \E k \in 1 .. n : e = q[k]
      OBVIOUS
    <3>4. \A e : e \in {q[k] : k \in 1 .. n} <=> e \in S
      BY <3>1, <3>2, <3>3
    <3>. QED  BY <3>4
  <2>8. \A j, k \in 1 .. n : j < k => q[j][1] <= q[k][1]
    BY <1>1, <2>4
  <2>. QED
    BY <2>6, <2>7, <2>8
<1>5. SortById(s) = CHOOSE p \in [1 .. n -> S] : IsSort(p)
  BY <1>3 DEF SortById
<1>6. SortById(s) \in [1 .. n -> S] /\ IsSort(SortById(s))
  <2>. HIDE DEF IsSort, n, S
  <2>. QED  BY <1>4, <1>5
<1>7. \A k \in 1 .. n : SortById(s)[k][1] = k - 1
  <2>. DEFINE p == SortById(s)
             f == [k \in 1 .. n |-> p[k][1]]
  <2>1. \A k \in 1 .. n : p[k] \in S /\ p[k][1] \in 0 .. n - 1
    <3>1. \A e \in S : e[1] \in 0 .. n - 1
      BY <1>1, <1>2, <1>3
    <3>2. \A k \in 1 .. n : p[k] \in S
      BY <1>6
    <3>. HIDE DEF S, p, n
    <3>. QED  BY <3>1, <3>2
  <2>2. \A i \in 0 .. n - 1 : \E k \in 1 .. n : p[k][1] = i
    <3>1. \A i \in 0 .. n - 1 : \E e \in S : e[1] = i
      BY <1>1, <1>3
    <3>2. \A e \in S : \E k \in 1 .. n : e = p[k]
      BY <1>6
    <3>. HIDE DEF S, p, n
    <3>. QED  BY <3>1, <3>2
  <2>3. \A j, k \in 1 .. n : j < k => p[j][1] <= p[k][1]
    BY <1>6
  <2>. HIDE DEF p, n
  <2>4. /\ f \in [1 .. n -> 0 .. n - 1]
        /\ \A i \in 0 .. n - 1 : \E k \in 1 .. n : f[k] = i
        /\ \A j, k \in 1 .. n : j < k => f[j] <= f[k]
    BY <2>1, <2>2, <2>3
  <2>5. \A k \in 1 .. n : f[k] = k - 1
    <3>. HIDE DEF f
    <3>. QED  BY <1>1, <2>4, ClimbsByOne, ZenonT(30)
  <2>. QED
    BY <2>5 DEF p
<1>. QED
  BY <1>3, <1>6, <1>7

-----------------------------------------------------------------------------
(***************************************************************************)
(* The inductive invariant.                                                *)
(***************************************************************************)

\* Who has a place has sent READY with that id, and is not answered ABORT.
PlacesAreHeld ==
  \A k \in 1 .. Len(ready) :
    /\ ready[k][1] = IdOf[ready[k][2]]
    /\ ready[k][1] \in ids
    /\ inbox[ready[k][2]] = "read"
    /\ reply[ready[k][2]] # "ABORT"

\* The ids of `ids' have one place each in `ready'.
OnePlacePerId ==
  /\ \A j, k \in 1 .. Len(ready) : ready[j][1] = ready[k][1] => j = k
  /\ \A i \in ids : \E k \in 1 .. Len(ready) : ready[k][1] = i

\* The select loop ends only with all the ids.
LoopCount == ~run => ids = Ids

\* From the sort on, place k is the one of id k - 1.
Sorted ==
  cpc \in {"wave", "sleep", "done", "crashed"} =>
    /\ ~run
    /\ Len(ready) = NumWorkers
    /\ \A k \in 1 .. NumWorkers : ready[k][1] = k - 1

\* RUN has been sent to the first idx places and to nobody else.
RunSoFar ==
  \A w \in Invocations :
    reply[w] = "RUN" <=> \E k \in 1 .. idx : ready[k][2] = w

\* How far the places sent RUN are in the wave.
WaveCount ==
  /\ cpc \in {"select", "batch"} => idx = 0 /\ wave = 0
  /\ cpc \in {"wave", "crashed"} =>
       /\ wave < TriggerCount
       /\ wave * WorkersPerTrigger <= idx
       /\ idx < (wave + 1) * WorkersPerTrigger
  /\ cpc = "sleep" =>
       /\ wave < TriggerCount
       /\ idx = (wave + 1) * WorkersPerTrigger
  /\ cpc = "done" => wave = TriggerCount /\ idx = NumWorkers

\* What the ends of a connection know of each other.
Connections ==
  \A w \in Invocations :
    /\ wpc[w] \in {"init", "connected"} => inbox[w] = "unsent"
    /\ reply[w] = "ABORT" => inbox[w] = "read"
    /\ w \in batch.conns => Readable(w)
    /\ ~ControlGone /\ w \in closed => wpc[w] = "dead" \/ reply[w] = "ABORT"
    /\ ~ControlGone /\ wpc[w] = "aborted" => reply[w] = "ABORT"

\* HolderNotAborted and CrashOnlyAfterLoss, by the number of the place.
Holders ==
  /\ cpc # "crashed" =>
       \A k \in 1 .. Len(ready) : wpc[ready[k][2]] # "aborted"
  /\ cpc = "crashed" =>
       \E k \in 1 .. Len(ready) : wpc[ready[k][2]] = "dead"

CInv ==
  /\ TypeOK
  /\ PlacesAreHeld
  /\ OnePlacePerId
  /\ LoopCount
  /\ Sorted
  /\ RunSoFar
  /\ WaveCount
  /\ Connections
  /\ Holders

\* An entry of `ready' is an id and an invocation.
LEMMA PlaceType ==
  ASSUME TypeOK
  PROVE  /\ Len(ready) \in Nat
         /\ \A k \in 1 .. Len(ready) :
              /\ ready[k] \in Ids \X Invocations
              /\ ready[k][1] \in Ids
              /\ ready[k][2] \in Invocations
  BY DEF TypeOK

\* The arithmetic of the waves.
LEMMA WaveBounds ==
  ASSUME NEW t \in Nat, t < TriggerCount
  PROVE  /\ t * WorkersPerTrigger \in Nat
         /\ (t + 1) * WorkersPerTrigger = t * WorkersPerTrigger + WorkersPerTrigger
         /\ (t + 1) * WorkersPerTrigger <= NumWorkers
<1>. DEFINE W == WorkersPerTrigger
           T == TriggerCount
<1>1. W \in Nat /\ T \in Nat /\ W >= 1 /\ T >= 1 /\ t + 1 <= T /\ NumWorkers = W * T
  BY CountAssumption DEF NumWorkers
<1>. HIDE DEF W, T
<1>2. t * W \in Nat /\ (t + 1) * W = t * W + W
  BY <1>1
<1>3. W * T = (t + 1) * W + (T - (t + 1)) * W
  BY <1>1
<1>4. (T - (t + 1)) * W >= 0
  BY <1>1
<1>5. (T - (t + 1)) * W \in Int /\ (t + 1) * W \in Int
  BY <1>1
<1>6. (t + 1) * W <= NumWorkers
  BY <1>1, <1>3, <1>4, <1>5
<1>. QED
  BY <1>2, <1>6 DEF W

\* At the start there is no connection and no place.
LEMMA InitCInv == Init => CInv
<1>. SUFFICES ASSUME Init PROVE CInv
  OBVIOUS
<1>1. TypeOK
  BY NumWorkersPositive, CountAssumption DEF Init, TypeOK
<1>2. Len(ready) = 0 /\ idx = 0
  BY DEF Init
<1>3. 1 .. 0 = {}
  OBVIOUS
<1>. QED
  BY <1>1, <1>2, <1>3 DEF Init, CInv, PlacesAreHeld, OnePlacePerId, LoopCount,
    Sorted, RunSoFar, WaveCount, Connections, Holders, Readable, ControlGone

\* A worker's own steps: connect, send, read the answer, be killed.
LEMMA WorkerCInv ==
  ASSUME CInv, NEW w \in Invocations, WorkerStep(w) \/ Die(w)
  PROVE  CInv'
<1>. USE DEF CInv
<1>1. /\ UNCHANGED <<reply, closed, inputs, batch, ids, ready, run, wave, idx, cpc>>
      /\ \A v \in Invocations \ {w} : wpc'[v] = wpc[v] /\ inbox'[v] = inbox[v]
  BY DEF WorkerStep, Connect, ConnectRefused, SendReady, ReadReply, Die, TypeOK,
    loopVars
<1>2. TypeOK'
  BY DEF WorkerStep, Connect, ConnectRefused, SendReady, ReadReply, Die, TypeOK,
    loopVars
<1>3. \/ wpc[w] = "init" /\ wpc'[w] = "connected" /\ inbox' = inbox
      \/ wpc[w] = "init" /\ wpc'[w] = "aborted" /\ inbox' = inbox /\ ControlGone
      \/ wpc[w] = "connected" /\ wpc'[w] = "waiting" /\ inbox'[w] = "sent"
      \/ /\ wpc[w] = "waiting" /\ inbox' = inbox
         /\ reply[w] # "none" \/ w \in closed
         /\ wpc'[w] = IF reply[w] = "RUN" THEN "running" ELSE "aborted"
      \/ /\ wpc[w] \in {"init", "connected", "waiting"}
         /\ wpc'[w] = "dead" /\ inbox' = inbox
  BY DEF WorkerStep, Connect, ConnectRefused, SendReady, ReadReply, Die, TypeOK
<1>4. inbox'[w] = inbox[w] \/ inbox[w] = "unsent"
  BY <1>3 DEF Connections
<1>5. PlacesAreHeld'
  BY <1>1, <1>4, PlaceType DEF PlacesAreHeld
<1>6. OnePlacePerId' /\ LoopCount' /\ Sorted' /\ RunSoFar' /\ WaveCount'
  BY <1>1 DEF OnePlacePerId, LoopCount, Sorted, RunSoFar, WaveCount
<1>7. Connections'
  BY <1>1, <1>3 DEF Connections, Readable, ControlGone, TypeOK
<1>8. Holders'
  <2>1. wpc[w] # "dead"
    BY <1>3
  <2>2. ASSUME cpc # "crashed", NEW k \in 1 .. Len(ready)
        PROVE  wpc'[ready[k][2]] # "aborted"
    <3>1. CASE ready[k][2] # w
      BY <1>1, <2>2, <3>1, PlaceType DEF Holders
    <3>2. CASE ready[k][2] = w
      <4>1. inbox[w] = "read" /\ reply[w] # "ABORT"
        BY <2>2, <3>2 DEF PlacesAreHeld
      <4>2. wpc[w] \notin {"init", "connected"}
        BY <4>1 DEF Connections
      <4>3. cpc = "done" => reply[w] = "RUN"
        <5>. SUFFICES ASSUME cpc = "done" PROVE reply[w] = "RUN"
          OBVIOUS
        <5>1. Len(ready) = idx
          BY DEF Sorted, WaveCount
        <5>. QED  BY <2>2, <3>2, <5>1 DEF RunSoFar
      <4>4. ~ControlGone /\ w \in closed => wpc[w] = "dead"
        BY <4>1 DEF Connections
      <4>5. reply[w] \in {"none", "RUN"}
        BY <4>1 DEF TypeOK
      <4>. QED  BY <1>3, <2>1, <2>2, <3>2, <4>2, <4>3, <4>4, <4>5 DEF ControlGone
    <3>. QED  BY <3>1, <3>2
  <2>3. ASSUME cpc = "crashed"
        PROVE  \E k \in 1 .. Len(ready) : wpc'[ready[k][2]] = "dead"
    BY <1>1, <2>1, <2>3, PlaceType DEF Holders
  <2>. QED  BY <1>1, <2>2, <2>3 DEF Holders
<1>. QED
  BY <1>2, <1>5, <1>6, <1>7, <1>8

\* select and accept change the connections only.
LEMMA SelectAcceptCInv ==
  ASSUME CInv, Select \/ Accept
  PROVE  CInv'
<1>. USE DEF CInv
<1>1. /\ UNCHANGED <<wpc, inbox, reply, closed, ids, ready, run, wave, idx, deaths>>
      /\ cpc \in {"select", "batch"} /\ cpc' = "batch"
  BY DEF Select, Accept, workerVars, loopVars
<1>2. TypeOK'
  <2>1. CASE Select
    <3>1. PICK a \in BOOLEAN, c \in SUBSET Invocations :
            batch' = [accept |-> a, conns |-> c]
      <4>1. (backlog # {}) \in BOOLEAN
        OBVIOUS
      <4>2. {w \in inputs : Readable(w)} \in SUBSET Invocations
        BY DEF TypeOK
      <4>. QED  BY <2>1, <4>1, <4>2, Zenon DEF Select
    <3>2. batch' \in [accept : BOOLEAN, conns : SUBSET Invocations]
      BY <3>1
    <3>3. UNCHANGED <<backlog, inputs>>
      BY <2>1 DEF Select
    <3>. QED  BY <1>1, <3>2, <3>3 DEF TypeOK
  <2>2. CASE Accept
    BY <1>1, <2>2 DEF Accept, TypeOK
  <2>. QED  BY <2>1, <2>2
<1>3. \A w \in batch'.conns : Readable(w)
  BY DEF Select, Accept, TypeOK, Connections
<1>4. Connections'
  BY <1>1, <1>3 DEF Connections, Readable, ControlGone
<1>. QED
  BY <1>1, <1>2, <1>4 DEF PlacesAreHeld, OnePlacePerId, LoopCount, Sorted,
    RunSoFar, WaveCount, Holders

\* The first READY of an id: a new place, for somebody who still waits.
LEMMA RecvReadyCInv ==
  ASSUME CInv, NEW w \in Invocations, RecvReady(w)
  PROVE  CInv'
<1>. USE DEF CInv
<1>. DEFINE i == IdOf[w]
           n == Len(ready)
<1>1. /\ UNCHANGED <<wpc, deaths, reply, closed, backlog, inputs, wave, idx, cpc>>
      /\ cpc = "batch" /\ inbox[w] = "sent" /\ i \notin ids
      /\ batch' = [accept |-> batch.accept, conns |-> batch.conns \ {w}]
      /\ inbox' = [inbox EXCEPT ![w] = "read"]
      /\ ids' = ids \union {i}
      /\ ready' = Append(ready, <<i, w>>)
      /\ run' = (run /\ Cardinality(ids') # NumWorkers)
  BY DEF RecvReady, Recv, TakePlace, workerVars
<1>2. i \in Ids
  BY InvocationAssumption
<1>3. TypeOK'
  BY <1>1, <1>2 DEF TypeOK
<1>4. /\ n \in Nat /\ Len(ready') = n + 1
      /\ \A k \in 1 .. n : ready'[k] = ready[k]
      /\ ready'[n + 1] = <<i, w>>
  BY <1>1, <1>2 DEF TypeOK
<1>5. \A k \in 1 .. n : ready[k][2] \in Invocations /\ ready[k][2] # w
  BY <1>1, PlaceType DEF PlacesAreHeld
<1>6. reply[w] # "ABORT" /\ wpc[w] # "aborted"
  BY <1>1 DEF Connections, ControlGone
<1>. HIDE DEF n
<1>7. \A k \in 1 .. n + 1 : k \in 1 .. n \/ k = n + 1
  BY <1>4
<1>8. PlacesAreHeld'
  <2>. SUFFICES ASSUME NEW k \in 1 .. n + 1
                PROVE  /\ ready'[k][1] = IdOf[ready'[k][2]]
                       /\ ready'[k][1] \in ids'
                       /\ inbox'[ready'[k][2]] = "read"
                       /\ reply'[ready'[k][2]] # "ABORT"
    BY <1>4 DEF PlacesAreHeld
  <2>1. CASE k \in 1 .. n
    BY <1>1, <1>4, <1>5, <2>1 DEF PlacesAreHeld, TypeOK, n
  <2>2. CASE k = n + 1
    BY <1>1, <1>4, <1>6, <2>2 DEF TypeOK
  <2>. QED  BY <1>7, <2>1, <2>2
<1>9. OnePlacePerId'
  <2>1. \A k \in 1 .. n : ready'[k][1] \in ids /\ ready'[k][1] # i
    BY <1>1, <1>4 DEF PlacesAreHeld, n
  <2>2. \A j, k \in 1 .. n : ready'[j][1] = ready'[k][1] => j = k
    BY <1>4 DEF OnePlacePerId, n
  <2>3. \A j, k \in 1 .. n + 1 : ready'[j][1] = ready'[k][1] => j = k
    BY <1>4, <1>7, <2>1, <2>2
  <2>4. \A x \in ids' : \E k \in 1 .. n + 1 : ready'[k][1] = x
    <3>. SUFFICES ASSUME NEW x \in ids'
                  PROVE  \E k \in 1 .. n + 1 : ready'[k][1] = x
      OBVIOUS
    <3>1. CASE x = i
      BY <1>4, <3>1
    <3>2. CASE x \in ids
      <4>1. PICK k \in 1 .. n : ready[k][1] = x
        BY <3>2 DEF OnePlacePerId, n
      <4>. QED  BY <1>4, <4>1
    <3>. QED  BY <1>1, <3>1, <3>2
  <2>. QED  BY <1>4, <2>3, <2>4 DEF OnePlacePerId
<1>10. LoopCount'
  <2>1. CASE ~run
    BY <1>1, <1>2, <2>1 DEF LoopCount
  <2>2. CASE Cardinality(ids') = NumWorkers
    <3>1. /\ NumWorkers - 1 \in Int /\ 0 <= (NumWorkers - 1) + 1
          /\ (NumWorkers - 1) - 0 + 1 = NumWorkers
      BY NumWorkersPositive
    <3>2. /\ IsFiniteSet(0 .. NumWorkers - 1)
          /\ Cardinality(0 .. NumWorkers - 1) = (NumWorkers - 1) - 0 + 1
      BY <3>1, IntervalSize
    <3>3. IsFiniteSet(Ids) /\ Cardinality(Ids) = NumWorkers
      BY <3>1, <3>2 DEF Ids
    <3>4. ids' \in SUBSET Ids
      BY <1>3 DEF TypeOK
    <3>5. ids' = Ids
      BY <2>2, <3>3, <3>4, FS_Subset
    <3>. QED  BY <3>5 DEF LoopCount, Ids, NumWorkers
  <2>3. CASE run /\ Cardinality(ids') # NumWorkers
    BY <1>1, <2>3 DEF LoopCount
  <2>. QED  BY <2>1, <2>2, <2>3
<1>11. Sorted' /\ WaveCount'
  BY <1>1 DEF Sorted, WaveCount
<1>12. RunSoFar'
  <2>1. idx = 0 /\ idx' = 0 /\ 1 .. 0 = {}
    BY <1>1 DEF WaveCount
  <2>. QED  BY <1>1, <2>1 DEF RunSoFar
<1>13. Connections'
  BY <1>1 DEF Connections, Readable, ControlGone, TypeOK
<1>14. Holders'
  <2>1. \A k \in 1 .. n + 1 : wpc[ready'[k][2]] # "aborted"
    <3>. SUFFICES ASSUME NEW k \in 1 .. n + 1
                  PROVE  wpc[ready'[k][2]] # "aborted"
      OBVIOUS
    <3>1. CASE k \in 1 .. n
      BY <1>1, <1>4, <3>1 DEF Holders, n
    <3>2. CASE k = n + 1
      BY <1>4, <1>6, <3>2
    <3>. QED  BY <1>7, <3>1, <3>2
  <2>. QED  BY <1>1, <1>4, <2>1 DEF Holders
<1>. QED
  BY <1>3, <1>8, <1>9, <1>10, <1>11, <1>12, <1>13, <1>14

\* A duplicate or the end of file: the connection goes, the places stay.
LEMMA RecvOtherCInv ==
  ASSUME CInv, NEW w \in Invocations, RecvDuplicate(w) \/ RecvEof(w)
  PROVE  CInv'
<1>. USE DEF CInv
<1>1. /\ UNCHANGED <<wpc, deaths, backlog, ids, ready, run, wave, idx, cpc>>
      /\ cpc = "batch" /\ w \in batch.conns
      /\ batch' = [accept |-> batch.accept, conns |-> batch.conns \ {w}]
      /\ inputs' = inputs \ {w}
      /\ closed' = closed \union {w}
  BY DEF RecvDuplicate, RecvEof, Recv, workerVars, loopVars
<1>2. \/ /\ inbox[w] = "sent"
         /\ inbox' = [inbox EXCEPT ![w] = "read"]
         /\ reply' = [reply EXCEPT ![w] = "ABORT"]
      \/ wpc[w] = "dead" /\ UNCHANGED <<inbox, reply>>
  BY <1>1 DEF RecvDuplicate, RecvEof, Connections, Readable
<1>3. TypeOK'
  BY <1>1, <1>2 DEF TypeOK
<1>4. PlacesAreHeld'
  <2>1. \A k \in 1 .. Len(ready) :
          /\ ready[k][2] \in Invocations
          /\ inbox'[ready[k][2]] = inbox[ready[k][2]]
          /\ reply'[ready[k][2]] = reply[ready[k][2]]
    BY <1>2, PlaceType DEF PlacesAreHeld, TypeOK
  <2>. QED  BY <1>1, <2>1 DEF PlacesAreHeld
<1>5. OnePlacePerId' /\ LoopCount' /\ Sorted' /\ WaveCount' /\ Holders'
  BY <1>1 DEF OnePlacePerId, LoopCount, Sorted, WaveCount, Holders
<1>6. RunSoFar'
  <2>1. idx = 0 /\ idx' = 0 /\ 1 .. 0 = {}
    BY <1>1 DEF WaveCount
  <2>2. \A v \in Invocations : reply[v] # "RUN"
    BY <2>1 DEF RunSoFar
  <2>3. \A v \in Invocations : reply'[v] # "RUN"
    BY <1>2, <2>2 DEF TypeOK
  <2>. QED  BY <2>1, <2>3 DEF RunSoFar
<1>7. Connections'
  BY <1>1, <1>2 DEF Connections, Readable, ControlGone, TypeOK
<1>. QED
  BY <1>3, <1>4, <1>5, <1>6, <1>7

\* The end of `readable': with all the ids there, the places are sorted.
LEMMA EndOfBatchCInv ==
  ASSUME CInv, EndOfBatch
  PROVE  CInv'
<1>. USE DEF CInv
<1>1. /\ UNCHANGED <<wpc, deaths, inbox, reply, closed, backlog, inputs, batch, ids,
                     run, wave, idx>>
      /\ cpc = "batch"
      /\ cpc' = IF run THEN "select" ELSE "wave"
      /\ ready' = IF run THEN ready ELSE SortById(ready)
  BY DEF EndOfBatch, workerVars
<1>2. CASE run
  <2>1. ready' = ready /\ cpc' = "select"
    BY <1>1, <1>2
  <2>. QED
    BY <1>1, <2>1 DEF TypeOK, PlacesAreHeld, OnePlacePerId, LoopCount, Sorted,
      RunSoFar, WaveCount, Connections, Holders, Readable, ControlGone
<1>3. CASE ~run
  <2>. DEFINE n == NumWorkers
             p == SortById(ready)
  <2>1. ids = Ids /\ cpc' = "wave" /\ ready' = p
    BY <1>1, <1>3 DEF LoopCount
  <2>2. /\ Len(ready) = n
        /\ p \in [1 .. n -> {ready[k] : k \in 1 .. n}]
        /\ \A k \in 1 .. n : p[k][1] = k - 1
    BY <2>1, SortedPlaces DEF TypeOK, OnePlacePerId
  <2>3. n \in Nat /\ n > 0
    BY NumWorkersPositive
  <2>4. \A k \in 1 .. n : \E j \in 1 .. Len(ready) : p[k] = ready[j]
    BY <2>2
  <2>. HIDE DEF p, n
  <2>5. p \in Seq(Ids \X Invocations) /\ Len(p) = n
    <3>1. \A k \in 1 .. n : p[k] \in Ids \X Invocations
      BY <2>4, PlaceType
    <3>2. p \in [1 .. n -> Ids \X Invocations]
      BY <2>2, <3>1
    <3>. QED  BY <2>3, <3>2
  <2>6. TypeOK'
    BY <1>1, <2>1, <2>5 DEF TypeOK
  <2>7. PlacesAreHeld'
    BY <1>1, <2>1, <2>4, <2>5 DEF PlacesAreHeld
  <2>8. OnePlacePerId'
    <3>1. \A j, k \in 1 .. n : p[j][1] = p[k][1] => j = k
      BY <2>2, <2>3
    <3>2. \A i \in ids : i + 1 \in 1 .. n /\ (i + 1) - 1 = i
      BY <2>1, <2>3 DEF Ids, n
    <3>3. \A i \in ids : \E k \in 1 .. n : p[k][1] = i
      BY <2>2, <3>2
    <3>. QED  BY <1>1, <2>1, <2>5, <3>1, <3>3 DEF OnePlacePerId
  <2>9. LoopCount'
    BY <1>1, <2>1 DEF LoopCount
  <2>10. Sorted'
    BY <1>1, <1>3, <2>1, <2>2, <2>5 DEF Sorted, n
  <2>11. idx = 0 /\ wave = 0 /\ 1 .. 0 = {}
    BY <1>1 DEF WaveCount
  <2>12. RunSoFar'
    BY <1>1, <2>11 DEF RunSoFar
  <2>13. WaveCount'
    <3>1. /\ 0 < TriggerCount /\ 0 * WorkersPerTrigger = 0
          /\ (0 + 1) * WorkersPerTrigger > 0
      BY CountAssumption
    <3>. QED  BY <1>1, <2>1, <2>11, <3>1 DEF WaveCount
  <2>14. Connections'
    BY <1>1, <2>1 DEF Connections, Readable, ControlGone
  <2>15. Holders'
    BY <1>1, <2>1, <2>4, <2>5 DEF Holders
  <2>. QED
    BY <2>6, <2>7, <2>8, <2>9, <2>10, <2>12, <2>13, <2>14, <2>15
<1>. QED
  BY <1>1, <1>2, <1>3

\* The next entry of the wave, and the connection the wave loop sends to.
LEMMA NextPlace ==
  ASSUME CInv, cpc = "wave"
  PROVE  /\ idx \in Nat /\ idx + 1 \in 1 .. Len(ready) /\ idx + 1 <= NumWorkers
         /\ Len(ready) = NumWorkers
         /\ ready[idx + 1][2] \in Invocations
         /\ reply[ready[idx + 1][2]] # "ABORT"
         /\ wpc[ready[idx + 1][2]] # "aborted"
<1>. USE DEF CInv
<1>1. idx \in Nat /\ wave \in Nat /\ wave < TriggerCount
  BY NumWorkersPositive, CountAssumption DEF TypeOK, WaveCount
<1>2. idx < (wave + 1) * WorkersPerTrigger /\ Len(ready) = NumWorkers
  BY DEF WaveCount, Sorted
<1>3. (wave + 1) * WorkersPerTrigger <= NumWorkers
  BY <1>1, WaveBounds
<1>4. (wave + 1) * WorkersPerTrigger \in Nat
  BY <1>1, CountAssumption
<1>5. idx + 1 <= NumWorkers /\ idx + 1 \in 1 .. Len(ready)
  BY <1>1, <1>2, <1>3, <1>4, NumWorkersPositive
<1>. QED
  BY <1>1, <1>2, <1>5, PlaceType DEF PlacesAreHeld, Holders

\* RUN to the next place; the last one of the wave goes to the sleep.
LEMMA SendRunCInv ==
  ASSUME CInv, SendRun
  PROVE  CInv'
<1>. USE DEF CInv
<1>. DEFINE w == ready[idx + 1][2]
<1>1. /\ UNCHANGED <<wpc, deaths, inbox, closed, backlog, inputs, batch, ids, ready,
                     run, wave>>
      /\ cpc = "wave" /\ w \notin closed
      /\ reply' = [reply EXCEPT ![w] = "RUN"]
      /\ idx' = idx + 1
      /\ cpc' = IF idx + 1 = (wave + 1) * WorkersPerTrigger THEN "sleep" ELSE "wave"
  BY DEF SendRun, workerVars, loopVars
<1>2. /\ idx \in Nat /\ idx + 1 \in 1 .. Len(ready) /\ idx + 1 <= NumWorkers
      /\ Len(ready) = NumWorkers
      /\ w \in Invocations /\ reply[w] # "ABORT" /\ wpc[w] # "aborted"
  BY <1>1, NextPlace
<1>3. TypeOK'
  BY <1>1, <1>2, NumWorkersPositive DEF TypeOK
<1>4. PlacesAreHeld'
  BY <1>1, <1>2, PlaceType DEF PlacesAreHeld, TypeOK
<1>5. OnePlacePerId' /\ LoopCount' /\ Sorted' /\ Holders'
  BY <1>1 DEF OnePlacePerId, LoopCount, Sorted, Holders
<1>6. RunSoFar'
  <2>1. \A k \in 1 .. idx + 1 : k \in 1 .. idx \/ k = idx + 1
    BY <1>2
  <2>2. \A k \in 1 .. idx : k \in 1 .. idx + 1
    BY <1>2
  <2>3. idx + 1 \in 1 .. idx + 1
    BY <1>2
  <2>. SUFFICES ASSUME NEW v \in Invocations
                PROVE  reply'[v] = "RUN" <=> \E k \in 1 .. idx + 1 : ready[k][2] = v
    BY <1>1 DEF RunSoFar
  <2>4. CASE v = w
    BY <1>1, <1>2, <2>3, <2>4 DEF TypeOK
  <2>5. CASE v # w
    <3>1. reply'[v] = reply[v]
      BY <1>1, <2>5 DEF TypeOK
    <3>2. reply[v] = "RUN" <=> \E k \in 1 .. idx : ready[k][2] = v
      BY DEF RunSoFar
    <3>. QED  BY <2>1, <2>2, <2>5, <3>1, <3>2
  <2>. QED  BY <2>4, <2>5
<1>7. WaveCount'
  <2>1. /\ wave < TriggerCount
        /\ wave * WorkersPerTrigger <= idx
        /\ idx < (wave + 1) * WorkersPerTrigger
    BY <1>1 DEF WaveCount
  <2>2. wave \in Nat /\ wave * WorkersPerTrigger \in Nat
        /\ (wave + 1) * WorkersPerTrigger \in Nat
    BY CountAssumption DEF TypeOK
  <2>. QED  BY <1>1, <1>2, <2>1, <2>2 DEF WaveCount
<1>8. Connections'
  BY <1>1, <1>2 DEF Connections, Readable, ControlGone, TypeOK
<1>. QED
  BY <1>3, <1>4, <1>5, <1>6, <1>7, <1>8

\* The wave loop ends with an error, or goes on to the next wave or to the end.
LEMMA CrashOrSleepCInv ==
  ASSUME CInv, SendRunFails \/ Sleep
  PROVE  CInv'
<1>. USE DEF CInv
<1>1. /\ UNCHANGED <<wpc, deaths, inbox, reply, backlog, inputs, batch, ids, ready,
                     run, idx>>
      /\ cpc \in {"wave", "sleep"}
      /\ \/ cpc' = "wave" /\ closed' = closed
         \/ cpc' \in {"done", "crashed"} /\ closed' = Invocations
  BY DEF SendRunFails, Sleep, Exit, workerVars, loopVars
<1>2. PlacesAreHeld' /\ OnePlacePerId' /\ LoopCount' /\ Sorted' /\ RunSoFar'
  BY <1>1 DEF PlacesAreHeld, OnePlacePerId, LoopCount, Sorted, RunSoFar
<1>3. Connections'
  BY <1>1 DEF Connections, Readable, ControlGone
<1>4. CASE SendRunFails
  <2>. DEFINE w == ready[idx + 1][2]
  <2>1. cpc = "wave" /\ cpc' = "crashed" /\ wave' = wave /\ w \in closed
    BY <1>4 DEF SendRunFails, Exit
  <2>2. idx + 1 \in 1 .. Len(ready) /\ w \in Invocations /\ reply[w] # "ABORT"
    BY <2>1, NextPlace
  <2>3. wpc[w] = "dead"
    BY <2>1, <2>2 DEF Connections, ControlGone
  <2>4. Holders'
    BY <1>1, <2>1, <2>2, <2>3 DEF Holders
  <2>5. WaveCount'
    BY <1>1, <2>1 DEF WaveCount
  <2>6. TypeOK'
    BY <1>1, <2>1 DEF TypeOK
  <2>. QED  BY <1>2, <1>3, <2>4, <2>5, <2>6
<1>5. CASE Sleep
  <2>1. /\ cpc = "sleep" /\ wave' = wave + 1
        /\ cpc' = IF wave + 1 < TriggerCount THEN "wave" ELSE "done"
    BY <1>5 DEF Sleep, Exit
  <2>2. wave \in Nat /\ wave < TriggerCount /\ TriggerCount \in Nat
    BY <2>1, CountAssumption DEF WaveCount, TypeOK
  <2>3. idx = (wave + 1) * WorkersPerTrigger
    BY <2>1 DEF WaveCount
  <2>4. TypeOK'
    BY <1>1, <2>1, <2>2 DEF TypeOK
  <2>5. Holders'
    BY <1>1, <2>1 DEF Holders
  <2>6. WaveCount'
    <3>1. CASE wave + 1 < TriggerCount
      <4>1. wave + 1 \in Nat
        BY <2>2
      <4>2. ((wave + 1) + 1) * WorkersPerTrigger
              = (wave + 1) * WorkersPerTrigger + WorkersPerTrigger
        BY <3>1, <4>1, WaveBounds
      <4>3. WorkersPerTrigger > 0 /\ (wave + 1) * WorkersPerTrigger \in Nat
            /\ WorkersPerTrigger \in Nat
        BY <4>1, CountAssumption
      <4>4. idx < ((wave + 1) + 1) * WorkersPerTrigger
        BY <2>3, <4>2, <4>3
      <4>. QED  BY <1>1, <2>1, <2>3, <3>1, <4>3, <4>4 DEF WaveCount
    <3>2. CASE ~(wave + 1 < TriggerCount)
      <4>1. wave + 1 = TriggerCount
        BY <2>2, <3>2
      <4>2. idx = NumWorkers
        BY <2>3, <4>1, CountAssumption DEF NumWorkers
      <4>. QED  BY <1>1, <2>1, <3>2, <4>1, <4>2 DEF WaveCount
    <3>. QED  BY <3>1, <3>2
  <2>. QED  BY <1>2, <1>3, <2>4, <2>5, <2>6
<1>. QED
  BY <1>4, <1>5

\* Every step of the control process, of a worker or of the platform keeps the
\* invariant.
LEMMA NextCInv == CInv /\ [Next]_vars => CInv'
<1>. SUFFICES ASSUME CInv, [Next]_vars PROVE CInv'
  OBVIOUS
<1>1. ASSUME NEW w \in Invocations, RecvStep(w) PROVE CInv'
  BY <1>1, RecvReadyCInv, RecvOtherCInv DEF RecvStep
<1>2. CASE ControlStep
  BY <1>1, <1>2, SelectAcceptCInv, EndOfBatchCInv, SendRunCInv, CrashOrSleepCInv
    DEF ControlStep
<1>3. CASE \E w \in Invocations : WorkerStep(w) \/ Die(w)
  BY <1>3, WorkerCInv
<1>4. CASE UNCHANGED vars
  <2>1. TypeOK'
    BY <1>4 DEF vars, CInv, TypeOK
  <2>2. PlacesAreHeld' /\ OnePlacePerId' /\ LoopCount' /\ Sorted' /\ RunSoFar'
    BY <1>4 DEF vars, CInv, PlacesAreHeld, OnePlacePerId, LoopCount, Sorted, RunSoFar
  <2>3. WaveCount' /\ Connections' /\ Holders'
    BY <1>4 DEF vars, CInv, WaveCount, Connections, Holders, Readable, ControlGone
  <2>. QED  BY <2>1, <2>2, <2>3 DEF CInv
<1>. QED
  BY <1>2, <1>3, <1>4 DEF Next, Terminated

\* The invariant holds in every behaviour of the barrier.
LEMMA AlwaysCInv == Spec => []CInv
  BY InitCInv, NextCInv, PTL DEF Spec

-----------------------------------------------------------------------------
\* The state of control_worker and of the workers keeps its types.
THEOREM BarrierTypes == Spec => []TypeOK
<1>1. CInv => TypeOK
  BY DEF CInv
<1>. QED
  BY <1>1, AlwaysCInv, PTL

\* The barrier: no worker is sent RUN before every id has reported.
THEOREM BarrierHolds == Spec => []RunAfterAllReady
<1>1. ASSUME CInv, NEW w \in Invocations, reply[w] = "RUN", NEW i \in Ids
      PROVE  \E v \in Invocations : IdOf[v] = i /\ inbox[v] # "unsent"
  <2>. USE <1>1 DEF CInv
  <2>1. PICK k \in 1 .. idx : ready[k][2] = w
    BY DEF RunSoFar
  <2>2. idx # 0
    BY <2>1 DEF TypeOK
  <2>3. cpc \in {"wave", "sleep", "done", "crashed"}
    BY <2>2 DEF TypeOK, WaveCount
  <2>4. ids = Ids
    BY <2>3 DEF Sorted, LoopCount
  <2>5. PICK j \in 1 .. Len(ready) : ready[j][1] = i
    BY <2>4 DEF OnePlacePerId
  <2>. QED  BY <2>5, PlaceType DEF PlacesAreHeld
<1>2. CInv => RunAfterAllReady
  BY <1>1 DEF RunAfterAllReady
<1>. QED
  BY <1>2, AlwaysCInv, PTL

\* Two invocations that were told to run have different ids.
LEMMA RunnerOfId ==
  ASSUME CInv, NEW v \in Invocations, NEW w \in Invocations,
         reply[v] = "RUN", reply[w] = "RUN", IdOf[v] = IdOf[w]
  PROVE  v = w
<1>. USE DEF CInv
<1>1. PICK j \in 1 .. idx : ready[j][2] = v
  BY DEF RunSoFar
<1>2. PICK k \in 1 .. idx : ready[k][2] = w
  BY DEF RunSoFar
<1>3. cpc \in {"wave", "sleep", "done", "crashed"}
  BY <1>1 DEF TypeOK, WaveCount
<1>4. j \in 1 .. Len(ready) /\ k \in 1 .. Len(ready)
  BY <1>3, NumWorkersPositive DEF TypeOK, Sorted
<1>5. ready[j][1] = ready[k][1]
  BY <1>1, <1>2, <1>4 DEF PlacesAreHeld
<1>6. j = k
  BY <1>4, <1>5 DEF OnePlacePerId
<1>. QED  BY <1>1, <1>2, <1>6

\* One runner per id, however often its event is delivered.
THEOREM SingleRunner == Spec => []OneRunnerPerId
<1>1. CInv => OneRunnerPerId
  BY RunnerOfId DEF OneRunnerPerId
<1>. QED
  BY <1>1, AlwaysCInv, PTL

\* RUN is sent in the order of the ids, wave after wave.
THEOREM WaveOrder == Spec => []WavesInIdOrder
<1>1. ASSUME CInv, NEW w \in Invocations, reply[w] = "RUN"
      PROVE  /\ \A i \in 0 .. IdOf[w] :
                  \E v \in Invocations : IdOf[v] = i /\ reply[v] = "RUN"
             /\ IdOf[w] < (wave + 1) * WorkersPerTrigger
  <2>. USE <1>1 DEF CInv
  <2>1. PICK k \in 1 .. idx : ready[k][2] = w
    BY DEF RunSoFar
  <2>2. cpc \in {"wave", "sleep", "done", "crashed"}
    BY <2>1 DEF TypeOK, WaveCount
  <2>3. /\ idx \in Nat /\ idx <= NumWorkers /\ NumWorkers \in Nat
        /\ Len(ready) = NumWorkers
        /\ \A j \in 1 .. NumWorkers : ready[j][1] = j - 1
    BY <2>2, NumWorkersPositive DEF TypeOK, Sorted
  <2>4. \A j \in 1 .. idx : /\ ready[j][2] \in Invocations
                            /\ IdOf[ready[j][2]] = j - 1
    BY <2>3, PlaceType DEF PlacesAreHeld
  <2>5. \A j \in 1 .. idx : reply[ready[j][2]] = "RUN"
    BY <2>4 DEF RunSoFar
  <2>6. IdOf[w] = k - 1
    BY <2>1, <2>4
  <2>7. \A i \in 0 .. IdOf[w] :
          \E v \in Invocations : IdOf[v] = i /\ reply[v] = "RUN"
    <3>. SUFFICES ASSUME NEW i \in 0 .. k - 1
                  PROVE  \E v \in Invocations : IdOf[v] = i /\ reply[v] = "RUN"
      BY <2>6
    <3>1. i + 1 \in 1 .. idx /\ (i + 1) - 1 = i
      BY <2>3
    <3>. QED  BY <2>4, <2>5, <3>1
  <2>8. idx <= (wave + 1) * WorkersPerTrigger
    <3>1. wave \in Nat /\ (wave + 1) * WorkersPerTrigger \in Nat
      BY CountAssumption DEF TypeOK
    <3>2. CASE cpc \in {"wave", "sleep", "crashed"}
      BY <2>3, <3>1, <3>2 DEF WaveCount
    <3>3. CASE cpc = "done"
      <4>1. wave = TriggerCount /\ idx = NumWorkers
        BY <3>3 DEF WaveCount
      <4>2. TriggerCount * WorkersPerTrigger = NumWorkers
        BY CountAssumption DEF NumWorkers
      <4>3. (TriggerCount + 1) * WorkersPerTrigger
              = TriggerCount * WorkersPerTrigger + WorkersPerTrigger
        BY CountAssumption
      <4>4. WorkersPerTrigger \in Nat
        BY CountAssumption
      <4>. QED  BY <2>3, <4>1, <4>2, <4>3, <4>4
    <3>. QED  BY <2>2, <3>2, <3>3
  <2>9. (wave + 1) * WorkersPerTrigger \in Nat
    BY CountAssumption DEF TypeOK
  <2>10. IdOf[w] < (wave + 1) * WorkersPerTrigger
    BY <2>3, <2>6, <2>8, <2>9
  <2>. QED  BY <2>7, <2>10
<1>2. CInv => WavesInIdOrder
  BY <1>1 DEF WavesInIdOrder
<1>. QED
  BY <1>2, AlwaysCInv, PTL

\* Who took the place of its id gives up only if the control process crashes.
THEOREM HoldersKept == Spec => []HolderNotAborted
<1>1. CInv => HolderNotAborted
  BY DEF CInv, Holders, HolderNotAborted, Places
<1>. QED
  BY <1>1, AlwaysCInv, PTL

\* The control process crashes only after the death of one who had a place.
THEOREM CrashCause == Spec => []CrashOnlyAfterLoss
<1>1. CInv => CrashOnlyAfterLoss
  BY DEF CInv, Holders, CrashOnlyAfterLoss, Places
<1>. QED
  BY <1>1, AlwaysCInv, PTL

-----------------------------------------------------------------------------
(***************************************************************************)
(* The barrier as deployed: the invariant of the handlers and of           *)
(* log_worker.                                                             *)
(***************************************************************************)

\* The variables that Deployment adds keep their types.
DTypeOK ==
  /\ hpc \in [Invocations -> {"start", "binary", "ended", "refused"}]
  /\ lbacklog \subseteq Invocations
  /\ linputs \subseteq Invocations
  /\ nClosed \in Nat
  /\ lpc \in {"loop", "done"}

\* Who runs was told so, and a handler ends after its binary.
RunnersWereTold ==
  \A w \in Invocations :
    /\ wpc[w] = "running" => reply[w] = "RUN"
    /\ hpc[w] = "ended" => wpc[w] \in {"running", "aborted", "dead"}

\* A connection to log_worker is in one place, and has been made.
LogConnections ==
  /\ lbacklog \intersect linputs = {}
  /\ \A w \in lbacklog \union linputs : hpc[w] \in {"binary", "ended"}

\* The handlers that have ended and whose connection, if any, is read to its end.
Closed == {w \in Invocations : hpc[w] = "ended"} \ (lbacklog \union linputs)

\* What n_closed counts, and what follows from its reaching the limit.
ClosesCounted ==
  /\ nClosed <= Cardinality(Closed)
  /\ (\E w \in Invocations : hpc[w] = "refused") => nClosed >= NumWorkers
  /\ lpc = "done" => nClosed >= NumWorkers /\ linputs = {}

DInv == CInv /\ DTypeOK /\ RunnersWereTold /\ LogConnections /\ ClosesCounted

\* A step of the deployment is a step of the barrier, or does not touch it.
LEMMA BarrierStep == [DNext]_allVars => [Next]_vars
<1>. SUFFICES ASSUME [DNext]_allVars PROVE [Next]_vars
  OBVIOUS
<1>1. CASE Barrier
  BY <1>1 DEF Barrier, Next
<1>2. CASE LogStep
  BY <1>2 DEF LogStep, LogAccept, LogRecvClose, LogEnds
<1>3. ASSUME NEW w \in Invocations, HandlerStep(w) \/ BinaryStep(w) \/ Lost(w)
      PROVE  [Next]_vars
  BY <1>3 DEF HandlerStep, ConnectLog, LogRefused, BinaryEnds, BinaryStep, Lost, Next
<1>4. CASE UNCHANGED allVars
  BY <1>4 DEF allVars
<1>. QED
  BY <1>1, <1>2, <1>3, <1>4 DEF DNext

\* What the barrier promises it also promises as deployed: the handlers and the log
\* server only ever delay its workers.
THEOREM DeploymentImplementsBarrier == DSpec => Init /\ [][Next]_vars
<1>1. DInit => Init
  BY DEF DInit
<1>. QED
  BY <1>1, BarrierStep, PTL DEF DSpec

\* Closed is finite, as is every set of invocations.
LEMMA SomeInvocations ==
  ASSUME NEW S, S \subseteq Invocations
  PROVE  IsFiniteSet(S) /\ Cardinality(S) \in Nat
  BY FiniteInvocations, FS_Subset, FS_CardinalityType

\* Closed only gets larger if no handler leaves "ended" and no connection that has
\* ended comes back.
LEMMA ClosedGrows ==
  ASSUME Closed \subseteq Closed', nClosed \in Nat, nClosed' = nClosed,
         nClosed <= Cardinality(Closed)
  PROVE  nClosed' <= Cardinality(Closed')
<1>1. Closed' \subseteq Invocations /\ Closed \subseteq Invocations
  BY DEF Closed
<1>2. IsFiniteSet(Closed') /\ Cardinality(Closed') \in Nat /\ Cardinality(Closed) \in Nat
  BY <1>1, SomeInvocations
<1>3. Cardinality(Closed) <= Cardinality(Closed')
  BY <1>2, FS_Subset
<1>. QED
  BY <1>2, <1>3

\* While the select loop is on, nobody has been told to run.
LEMMA NobodyRunsYet ==
  ASSUME CInv, cpc \in {"select", "batch"}
  PROVE  \A w \in Invocations : reply[w] # "RUN"
<1>1. idx = 0 /\ 1 .. 0 = {}
  BY DEF CInv, WaveCount
<1>. QED
  BY <1>1 DEF CInv, RunSoFar

\* A step of the control process takes no RUN back, and moves no worker.
LEMMA ControlKeepsRunners ==
  ASSUME CInv, ControlStep
  PROVE  /\ wpc' = wpc
         /\ \A w \in Invocations : reply[w] = "RUN" => reply'[w] = "RUN"
<1>1. wpc' = wpc
  BY DEF ControlStep, Select, Accept, RecvStep, RecvReady, RecvDuplicate, RecvEof,
    TakePlace, EndOfBatch, SendRun, SendRunFails, Sleep, workerVars
<1>2. CASE \E v \in Invocations : RecvDuplicate(v)
  BY <1>1, <1>2, NobodyRunsYet DEF RecvDuplicate, Recv
<1>3. CASE SendRun
  BY <1>1, <1>3 DEF SendRun, CInv, TypeOK
<1>4. CASE ~SendRun /\ ~(\E v \in Invocations : RecvDuplicate(v))
  <2>1. reply' = reply
    BY <1>4 DEF ControlStep, Select, Accept, RecvStep, RecvReady, RecvEof, TakePlace,
      EndOfBatch, SendRunFails, Sleep
  <2>. QED  BY <1>1, <2>1
<1>. QED
  BY <1>1, <1>2, <1>3, <1>4

\* At the start no handler has ended.
LEMMA InitDInv == DInit => DInv
<1>. SUFFICES ASSUME DInit PROVE DInv
  OBVIOUS
<1>1. CInv
  BY InitCInv DEF DInit
<1>2. DTypeOK /\ RunnersWereTold /\ LogConnections
  BY DEF DInit, Init, DTypeOK, RunnersWereTold, LogConnections
<1>3. Cardinality(Closed) \in Nat
  BY SomeInvocations DEF Closed
<1>4. ClosesCounted
  BY <1>3 DEF DInit, ClosesCounted
<1>. QED
  BY <1>1, <1>2, <1>4 DEF DInv

\* The steps of the barrier's own processes: the handlers and log_worker stay.
LEMMA BarrierDInv ==
  ASSUME DInv, UNCHANGED depVars,
         ControlStep \/ (\E w \in Invocations : hpc[w] = "binary" /\ WorkerStep(w))
  PROVE  DTypeOK' /\ RunnersWereTold' /\ LogConnections' /\ ClosesCounted'
<1>1. hpc' = hpc /\ lbacklog' = lbacklog /\ linputs' = linputs
      /\ nClosed' = nClosed /\ lpc' = lpc
  BY DEF depVars, logVars
<1>2. DTypeOK' /\ LogConnections' /\ ClosesCounted'
  BY <1>1 DEF DInv, DTypeOK, LogConnections, ClosesCounted, Closed
<1>3. RunnersWereTold'
  <2>1. CASE ControlStep
    BY <1>1, <2>1, ControlKeepsRunners DEF DInv, RunnersWereTold
  <2>2. ASSUME NEW w \in Invocations, hpc[w] = "binary", WorkerStep(w)
        PROVE  RunnersWereTold'
    <3>1. reply' = reply
      BY <2>2 DEF WorkerStep, Connect, ConnectRefused, SendReady, ReadReply
    <3>2. \A v \in Invocations \ {w} : wpc'[v] = wpc[v]
      BY <2>2 DEF WorkerStep, Connect, ConnectRefused, SendReady, ReadReply,
        DInv, CInv, TypeOK
    <3>3. wpc'[w] = "running" => reply[w] = "RUN"
      BY <2>2 DEF WorkerStep, Connect, ConnectRefused, SendReady, ReadReply,
        DInv, CInv, TypeOK
    <3>. QED
      BY <1>1, <2>2, <3>1, <3>2, <3>3 DEF DInv, RunnersWereTold
  <2>. QED  BY <2>1, <2>2
<1>. QED
  BY <1>2, <1>3

\* The steps of the handlers, and the losses.
LEMMA HandlerDInv ==
  ASSUME DInv, NEW w \in Invocations, HandlerStep(w) \/ Lost(w)
  PROVE  DTypeOK' /\ RunnersWereTold' /\ LogConnections' /\ ClosesCounted'
<1>. USE DEF DInv
<1>1. /\ linputs' = linputs /\ nClosed' = nClosed /\ lpc' = lpc /\ reply' = reply
      /\ \A v \in Invocations \ {w} : hpc'[v] = hpc[v] /\ wpc'[v] = wpc[v]
      /\ hpc[w] \in {"start", "binary"}
  BY DEF HandlerStep, ConnectLog, LogRefused, BinaryEnds, Handler, Lost, Die, vars,
    logVars, DTypeOK, CInv, TypeOK
<1>2. DTypeOK'
  BY DEF HandlerStep, ConnectLog, LogRefused, BinaryEnds, Handler, Lost, Die, logVars,
    DTypeOK
<1>3. \/ lbacklog' = lbacklog /\ hpc'[w] \in {"ended", "refused"}
      \/ lbacklog' = lbacklog \union {w} /\ hpc[w] = "start" /\ hpc'[w] = "binary"
  BY DEF HandlerStep, ConnectLog, LogRefused, BinaryEnds, Handler, Lost, logVars, DTypeOK
<1>4. hpc'[w] = "refused" => ~Listening /\ hpc[w] = "start" /\ lbacklog' = lbacklog
  BY DEF HandlerStep, ConnectLog, LogRefused, BinaryEnds, Handler, Lost, logVars, DTypeOK
<1>5. RunnersWereTold'
  <2>1. wpc'[w] = "running" => wpc[w] = "running"
    BY DEF HandlerStep, ConnectLog, LogRefused, BinaryEnds, Lost, Die, vars, CInv, TypeOK
  <2>2. hpc'[w] = "ended" => wpc'[w] \in {"running", "aborted", "dead"}
    BY DEF HandlerStep, ConnectLog, LogRefused, BinaryEnds, Handler, Lost, Die, vars,
      DTypeOK, CInv, TypeOK
  <2>. QED
    BY <1>1, <2>1, <2>2 DEF RunnersWereTold
<1>6. LogConnections'
  BY <1>1, <1>3, <1>4 DEF LogConnections, DTypeOK
<1>7. ClosesCounted'
  <2>1. Closed \subseteq Closed'
    BY <1>1, <1>3 DEF Closed
  <2>2. nClosed' <= Cardinality(Closed')
    BY <1>1, <2>1, ClosedGrows DEF ClosesCounted, DTypeOK
  <2>3. ASSUME NEW v \in Invocations, hpc'[v] = "refused" PROVE nClosed' >= NumWorkers
    BY <1>1, <1>4, <2>3, NumWorkersPositive DEF ClosesCounted, Listening, DTypeOK
  <2>. QED
    BY <1>1, <2>2, <2>3 DEF ClosesCounted
<1>. QED
  BY <1>2, <1>5, <1>6, <1>7

\* The steps of log_worker: a close that is counted is one of a handler that ended.
LEMMA LogDInv ==
  ASSUME DInv, LogStep
  PROVE  DTypeOK' /\ RunnersWereTold' /\ LogConnections' /\ ClosesCounted'
<1>. USE DEF DInv
<1>1. hpc' = hpc /\ wpc' = wpc /\ reply' = reply
  BY DEF LogStep, LogAccept, LogRecvClose, LogEnds, vars
<1>2. RunnersWereTold'
  BY <1>1 DEF RunnersWereTold
<1>3. CASE LogAccept
  <2>1. PICK w \in lbacklog : lbacklog' = lbacklog \ {w} /\ linputs' = linputs \union {w}
    BY <1>3 DEF LogAccept
  <2>2. nClosed' = nClosed /\ lpc' = lpc /\ lpc = "loop"
    BY <1>3 DEF LogAccept
  <2>3. DTypeOK' /\ LogConnections'
    BY <1>1, <2>1, <2>2 DEF DTypeOK, LogConnections
  <2>4. Closed' = Closed
    BY <1>1, <2>1 DEF Closed
  <2>5. ClosesCounted'
    BY <1>1, <2>2, <2>4 DEF ClosesCounted
  <2>. QED
    BY <1>2, <2>3, <2>5
<1>4. ASSUME NEW w \in Invocations, LogRecvClose(w)
      PROVE  DTypeOK' /\ LogConnections' /\ ClosesCounted'
  <2>1. /\ w \in linputs /\ hpc[w] = "ended" /\ linputs' = linputs \ {w}
        /\ nClosed' = nClosed + 1 /\ lbacklog' \subseteq lbacklog
        /\ lpc' = lpc /\ lpc = "loop"
    BY <1>4 DEF LogRecvClose, Counted
  <2>2. DTypeOK' /\ LogConnections'
    BY <1>1, <2>1 DEF DTypeOK, LogConnections
  <2>3. w \notin Closed /\ Closed \union {w} \subseteq Closed'
    BY <1>1, <2>1 DEF Closed, LogConnections
  <2>4. Closed \subseteq Invocations /\ Closed' \subseteq Invocations
    BY DEF Closed
  <2>5. Cardinality(Closed \union {w}) = Cardinality(Closed) + 1
    BY <2>3, <2>4, SomeInvocations, FS_AddElement
  <2>6. Cardinality(Closed \union {w}) <= Cardinality(Closed')
    BY <2>3, <2>4, SomeInvocations, FS_Subset
  <2>7. Cardinality(Closed) \in Nat /\ Cardinality(Closed') \in Nat /\ nClosed \in Nat
    BY <2>4, SomeInvocations DEF DTypeOK
  <2>8. nClosed' <= Cardinality(Closed')
    BY <2>1, <2>5, <2>6, <2>7 DEF ClosesCounted
  <2>9. nClosed >= NumWorkers => nClosed' >= NumWorkers
    BY <2>1, <2>7, NumWorkersPositive
  <2>. QED
    BY <1>1, <2>1, <2>2, <2>8, <2>9 DEF ClosesCounted
<1>5. CASE LogEnds
  <2>1. /\ lbacklog' = lbacklog /\ linputs' = linputs /\ nClosed' = nClosed
        /\ lpc' = "done" /\ ~Listening /\ linputs = {}
    BY <1>5 DEF LogEnds, NoInputs
  <2>2. DTypeOK' /\ LogConnections'
    BY <1>1, <2>1 DEF DTypeOK, LogConnections
  <2>3. nClosed >= NumWorkers
    BY <2>1, NumWorkersPositive DEF Listening, DTypeOK
  <2>4. Closed' = Closed
    BY <1>1, <2>1 DEF Closed
  <2>. QED
    BY <1>1, <1>2, <2>1, <2>2, <2>3, <2>4 DEF ClosesCounted
<1>. QED
  BY <1>2, <1>3, <1>4, <1>5 DEF LogStep

\* Every step of the deployment keeps the invariant.
LEMMA NextDInv == DInv /\ [DNext]_allVars => DInv'
<1>. SUFFICES ASSUME DInv, [DNext]_allVars PROVE DInv'
  OBVIOUS
<1>1. CInv'
  BY BarrierStep, NextCInv DEF DInv
<1>2. CASE Barrier
  BY <1>1, <1>2, BarrierDInv DEF Barrier, DInv
<1>3. CASE LogStep
  BY <1>1, <1>3, LogDInv DEF DInv
<1>4. ASSUME NEW w \in Invocations, HandlerStep(w) \/ BinaryStep(w) \/ Lost(w)
      PROVE  DInv'
  BY <1>1, <1>4, HandlerDInv, BarrierDInv DEF BinaryStep, DInv
<1>5. CASE UNCHANGED allVars
  BY <1>1, <1>5 DEF DInv, DTypeOK, RunnersWereTold, LogConnections, ClosesCounted,
    Closed, allVars, depVars, logVars, vars
<1>. QED
  BY <1>2, <1>3, <1>4, <1>5 DEF DNext

\* The invariant holds in every behaviour of the deployment.
LEMMA AlwaysDInv == DSpec => []DInv
  BY InitDInv, NextDInv, PTL DEF DSpec

\* As long as an id is missing, n_closed counts losses and duplicates only, so that
\* the log server turns nobody away before there have been NumWorkers of these.
THEOREM NobodyTurnedAwayEarly == DSpec => []TurnedAwayOnlyByDuplicates
<1>1. ASSUME DInv, NEW w \in Invocations, hpc[w] = "refused", IdOf[w] \notin ids
      PROVE  Cardinality({v \in Invocations : wpc[v] \in {"dead", "aborted"}})
               >= NumWorkers
  <2>. USE <1>1 DEF DInv
  <2>. DEFINE vain == {v \in Invocations : wpc[v] \in {"dead", "aborted"}}
  <2>1. ids # Ids
    BY InvocationAssumption
  <2>2. cpc \in {"select", "batch"}
    BY <2>1 DEF CInv, TypeOK, Sorted, LoopCount
  <2>3. \A v \in Invocations : wpc[v] # "running"
    BY <2>2, NobodyRunsYet DEF RunnersWereTold
  <2>4. Closed \subseteq vain
    BY <2>3 DEF Closed, RunnersWereTold
  <2>5. vain \subseteq Invocations /\ Closed \subseteq Invocations
    BY DEF Closed
  <2>. HIDE DEF vain
  <2>6. Cardinality(Closed) <= Cardinality(vain)
    BY <2>4, <2>5, SomeInvocations, FS_Subset
  <2>7. Cardinality(Closed) \in Nat /\ Cardinality(vain) \in Nat /\ nClosed \in Nat
    BY <2>5, SomeInvocations DEF DTypeOK
  <2>8. nClosed <= Cardinality(Closed) /\ nClosed >= NumWorkers
    BY DEF ClosesCounted
  <2>9. Cardinality(vain) >= NumWorkers
    BY <2>6, <2>7, <2>8, NumWorkersPositive
  <2>. QED
    BY <2>9 DEF vain
<1>2. DInv => TurnedAwayOnlyByDuplicates
  BY <1>1 DEF TurnedAwayOnlyByDuplicates, TurnedAway
<1>. QED
  BY <1>2, AlwaysDInv, PTL

\* No more invocations than there are ids are told to run.
LEMMA RunnersFit ==
  ASSUME CInv
  PROVE  Cardinality({w \in Invocations : reply[w] = "RUN"}) <= NumWorkers
<1>. DEFINE R == {w \in Invocations : reply[w] = "RUN"}
           f == [w \in R |-> IdOf[w]]
<1>1. \A v, w \in R : IdOf[v] = IdOf[w] => v = w
  BY RunnerOfId
<1>2. f \in Injection(R, Ids)
  BY <1>1, InvocationAssumption DEF Injection, IsInjective
<1>3. R \subseteq Invocations
  OBVIOUS
<1>. HIDE DEF R, f
<1>4. NumWorkers - 1 \in Int /\ NumWorkers \in Nat
  BY NumWorkersPositive
<1>5. IsFiniteSet(Ids) /\ Cardinality(Ids) = NumWorkers
  <2>. DEFINE m == NumWorkers - 1
  <2>1. m \in Int /\ 0 <= m + 1
    BY <1>4, NumWorkersPositive
  <2>2. IsFiniteSet(0 .. m) /\ Cardinality(0 .. m) = m - 0 + 1
    <3>. HIDE DEF m
    <3>. QED  BY <2>1, IntervalSize
  <2>. QED
    BY <1>4, <2>2 DEF Ids
<1>6. Cardinality(R) <= Cardinality(Ids)
  BY <1>2, <1>5, FS_Injection
<1>. QED
  BY <1>5, <1>6 DEF R

\* log_worker ends with what it has accepted read to the end, and cuts off no more
\* runners than there were losses and duplicates.
THEOREM LogsComplete == DSpec => []LogsAreComplete
<1>1. ASSUME DInv, lpc = "done"
      PROVE  LET cut  == {w \in Invocations : reply[w] = "RUN" /\ hpc[w] # "ended"}
                 vain == {w \in Invocations : wpc[w] \in {"dead", "aborted"}}
             IN  cut \intersect linputs = {} /\ Cardinality(cut) <= Cardinality(vain)
  <2>. USE <1>1 DEF DInv
  <2>. DEFINE cut  == {w \in Invocations : reply[w] = "RUN" /\ hpc[w] # "ended"}
             vain == {w \in Invocations : wpc[w] \in {"dead", "aborted"}}
             R    == {w \in Invocations : reply[w] = "RUN"}
             E    == {w \in Invocations : hpc[w] = "ended"}
             B    == {w \in Invocations : reply[w] = "RUN" /\ hpc[w] = "ended"}
  <2>1. /\ cut \subseteq Invocations /\ vain \subseteq Invocations
        /\ R \subseteq Invocations /\ E \subseteq Invocations
        /\ B \subseteq Invocations /\ Closed \subseteq Invocations
    BY DEF Closed
  <2>2. R = cut \union B /\ cut \intersect B = {}
    OBVIOUS
  <2>3. E \subseteq B \union vain
    BY DEF RunnersWereTold
  <2>4. Closed \subseteq E
    BY DEF Closed
  <2>5. Cardinality(R) <= NumWorkers
    BY RunnersFit
  <2>. HIDE DEF cut, vain, R, E, B
  <2>6. /\ IsFiniteSet(cut) /\ IsFiniteSet(vain) /\ IsFiniteSet(B) /\ IsFiniteSet(E)
        /\ Cardinality(cut) \in Nat /\ Cardinality(vain) \in Nat
        /\ Cardinality(R) \in Nat /\ Cardinality(E) \in Nat
        /\ Cardinality(B) \in Nat /\ Cardinality(Closed) \in Nat
    BY <2>1, SomeInvocations
  <2>7. Cardinality(R) = Cardinality(cut) + Cardinality(B)
    <3>1. Cardinality(cut \union B)
            = Cardinality(cut) + Cardinality(B) - Cardinality(cut \intersect B)
      BY <2>6, FS_Union
    <3>2. Cardinality(cut \intersect B) = 0
      BY <2>2, FS_EmptySet
    <3>. QED  BY <2>2, <2>6, <3>1, <3>2
  <2>8. Cardinality(E) <= Cardinality(B) + Cardinality(vain)
    <3>1. /\ IsFiniteSet(B \union vain) /\ IsFiniteSet(B \intersect vain)
          /\ Cardinality(B \union vain)
            = Cardinality(B) + Cardinality(vain) - Cardinality(B \intersect vain)
      BY <2>6, FS_Union, FS_Intersection
    <3>2. Cardinality(B \intersect vain) \in Nat /\ Cardinality(B \union vain) \in Nat
      BY <3>1, FS_CardinalityType
    <3>3. Cardinality(E) <= Cardinality(B \union vain)
      BY <2>3, <3>1, FS_Subset
    <3>. QED  BY <2>6, <3>1, <3>2, <3>3
  <2>9. Cardinality(Closed) <= Cardinality(E)
    BY <2>4, <2>6, FS_Subset
  <2>10. nClosed \in Nat /\ nClosed <= Cardinality(Closed) /\ nClosed >= NumWorkers
         /\ linputs = {}
    BY DEF ClosesCounted, DTypeOK
  <2>11. Cardinality(cut) <= Cardinality(vain)
    BY <2>5, <2>6, <2>7, <2>8, <2>9, <2>10, NumWorkersPositive
  <2>. QED
    BY <2>10, <2>11 DEF cut, vain
<1>2. DInv => LogsAreComplete
  BY <1>1 DEF LogsAreComplete
<1>. QED
  BY <1>2, AlwaysDInv, PTL

=============================================================================
