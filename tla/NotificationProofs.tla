------------------------- MODULE NotificationProofs -------------------------
(***************************************************************************)
(* Theorems about the notification benchmark on redis, for every number of *)
(* listeners, of operations and of refused publishes: what the rows that   *)
(* get_latencies puts together by position pair with each other.           *)
(***************************************************************************)
EXTENDS Notification, SequenceTheorems, TLAPS

\* The variables keep their types.
NTypeOK ==
  /\ turn \in Nat \ {0} /\ msg \in Nat
  /\ publishTs \in Seq(Nat)
  /\ wire \in [Listeners -> Seq(Nat)]
  /\ cb \in [Listeners -> {"idle", "pushed"}]
  /\ notificationTs \in [Listeners -> Seq(Nat)]
  /\ subMsgs \in [Listeners -> Nat]
  /\ DOMAIN copied = Listeners
  /\ hist.foreign \in Nat

\* Messages are numbered, and m_publish_ts has each of them at its position.
PublishInv ==
  /\ msg = Len(publishTs)
  /\ \A k \in 1 .. Len(publishTs) : publishTs[k] = k - 1
  /\ pc = "reply" => Len(publishTs) > 0

\* A publish whose time is recorded and that the server has not handled yet.
Pending == IF pc = "reply" THEN 1 ELSE 0

\* The messages that the server has sent to a listener.
Arrived(l) == Len(notificationTs[l]) + Len(wire[l])

\* A message at position p of what was sent to a listener: at least p - 1 were
\* published before it, and at least as many after it as were sent after it.
Fits(l, m, p) ==
  p <= m + 1 /\ m + 1 + Arrived(l) + Pending <= Len(publishTs) + p

\* The main thread has waited for the listener.
WaitedFor(l) == (pc = "wait" /\ l < turn) \/ pc = "copied"

\* One listener: the counter lags behind the vector by what the callback has in
\* hand, the server sends no message twice and keeps their order.
ListenerInv(l) ==
  /\ subMsgs[l] + (IF cb[l] = "pushed" THEN 1 ELSE 0) = Len(notificationTs[l])
  /\ Arrived(l) + Pending <= Len(publishTs) + hist.foreign
  /\ hist.foreign = 0 =>
       /\ \A k \in 1 .. Len(notificationTs[l]) : Fits(l, notificationTs[l][k], k)
       /\ \A k \in 1 .. Len(wire[l]) :
            Fits(l, wire[l][k], Len(notificationTs[l]) + k)
  /\ WaitedFor(l) => Len(publishTs) <= Len(notificationTs[l])
  /\ (pc = "copied" /\ hist.foreign = 0) => copied[l] = notificationTs[l]

\* The inductive invariant.
NInv ==
  /\ NTypeOK
  /\ PublishInv
  /\ \A l \in Listeners : ListenerInv(l)
  /\ RowsAreSound

-----------------------------------------------------------------------------
(***************************************************************************)
(* Steps that leave a listener, or the rows, alone.                        *)
(***************************************************************************)

\* The numbers of a listener.
LEMMA Numbers ==
  ASSUME NTypeOK, NEW l \in Listeners
  PROVE  /\ Len(publishTs) \in Nat /\ Len(notificationTs[l]) \in Nat
         /\ Len(wire[l]) \in Nat /\ Arrived(l) \in Nat /\ Pending \in Nat
         /\ hist.foreign \in Nat /\ subMsgs[l] \in Nat
         /\ l \in Nat /\ 1 <= l
<1>1. /\ publishTs \in Seq(Nat) /\ notificationTs[l] \in Seq(Nat) /\ wire[l] \in Seq(Nat)
      /\ hist.foreign \in Nat /\ subMsgs[l] \in Nat
  BY DEF NTypeOK
<1>2. l \in Nat /\ 1 <= l
  BY NotificationAssumption DEF Listeners
<1>3. /\ Len(publishTs) \in Nat /\ Len(notificationTs[l]) \in Nat
      /\ Len(wire[l]) \in Nat
  BY <1>1, LenProperties
<1>4. \A a \in Nat, b \in Nat : a + b \in Nat
  OBVIOUS
<1>5. Arrived(l) \in Nat
  BY <1>3, <1>4, Zenon DEF Arrived
<1>6. Pending \in Nat
  BY DEF Pending
<1> QED
  BY <1>1, <1>2, <1>3, <1>5, <1>6

\* Messages are numbers.
LEMMA Elements ==
  ASSUME NTypeOK, NEW l \in Listeners
  PROVE  /\ \A k \in 1 .. Len(notificationTs[l]) : notificationTs[l][k] \in Nat
         /\ \A k \in 1 .. Len(wire[l]) : wire[l][k] \in Nat
<1>1. notificationTs[l] \in Seq(Nat) /\ wire[l] \in Seq(Nat)
  BY DEF NTypeOK
<1> QED
  BY <1>1, ElementOfSeq, LenProperties

\* A listener that nothing happens to, while the main thread waits for no more.
LEMMA ListenerKept ==
  ASSUME NTypeOK, NEW l \in Listeners, ListenerInv(l),
         wire'[l] = wire[l], notificationTs'[l] = notificationTs[l],
         subMsgs'[l] = subMsgs[l], cb'[l] = cb[l], copied'[l] = copied[l],
         publishTs' = publishTs, hist'.foreign = hist.foreign,
         pc' = "reply" => pc = "reply", pc' = "copied" => pc = "copied",
         WaitedFor(l)' => WaitedFor(l)
  PROVE  ListenerInv(l)'
<1>1. Arrived(l)' = Arrived(l)
  BY DEF Arrived
<1>2. Pending \in Nat /\ Pending' \in Nat /\ Pending' <= Pending
  BY DEF Pending
<1>3. Arrived(l)' + Pending' <= Len(publishTs') + hist'.foreign
  BY <1>1, <1>2, Numbers DEF ListenerInv
<1>4. hist'.foreign = 0 =>
        /\ \A k \in 1 .. Len(notificationTs'[l]) : Fits(l, notificationTs[l][k], k)'
        /\ \A k \in 1 .. Len(wire'[l]) :
             Fits(l, wire[l][k], Len(notificationTs[l]) + k)'
  <2> SUFFICES ASSUME hist'.foreign = 0
               PROVE  /\ \A k \in 1 .. Len(notificationTs[l]) :
                            Fits(l, notificationTs[l][k], k)'
                      /\ \A k \in 1 .. Len(wire[l]) :
                            Fits(l, wire[l][k], Len(notificationTs[l]) + k)'
    OBVIOUS
  <2>1. ASSUME NEW k \in 1 .. Len(notificationTs[l])
        PROVE  Fits(l, notificationTs[l][k], k)'
    <3>1. Fits(l, notificationTs[l][k], k) /\ notificationTs[l][k] \in Nat
      BY Elements, Numbers DEF ListenerInv
    <3> QED
      BY <1>1, <1>2, <3>1, Numbers DEF Fits
  <2>2. ASSUME NEW k \in 1 .. Len(wire[l])
        PROVE  Fits(l, wire[l][k], Len(notificationTs[l]) + k)'
    <3>1. Fits(l, wire[l][k], Len(notificationTs[l]) + k) /\ wire[l][k] \in Nat
      BY Elements, Numbers DEF ListenerInv
    <3> QED
      BY <1>1, <1>2, <3>1, Numbers, SMTT(20) DEF Fits
  <2> QED
    BY <2>1, <2>2
<1> QED
  BY <1>3, <1>4 DEF ListenerInv

\* Rows that are written stay, and there are none before.
LEMMA RowsKept ==
  ASSUME RowsAreSound, pc' = "done" => pc = "done", rows' = rows,
         publishTs' = publishTs, hist'.foreign = hist.foreign
  PROVE  RowsAreSound'
  BY DEF RowsAreSound

\* A new benchmark satisfies the invariant.
LEMMA NInvInit == Init => NInv
<1> SUFFICES ASSUME Init PROVE NInv
  OBVIOUS
<1>1. hist.foreign = 0 /\ publishTs = <<>> /\ Len(publishTs) = 0 /\ pc = "subscribe"
  BY DEF Init, Noted
<1>2. NTypeOK
  BY <1>1 DEF Init, NTypeOK
<1>3. PublishInv
  BY <1>1 DEF Init, PublishInv
<1>4. ASSUME NEW l \in Listeners PROVE ListenerInv(l)
  <2>1. /\ subMsgs[l] = 0 /\ cb[l] = "idle" /\ Len(notificationTs[l]) = 0
        /\ Len(wire[l]) = 0
    BY DEF Init
  <2>2. Arrived(l) = 0 /\ Pending = 0 /\ ~WaitedFor(l)
    BY <1>1, <2>1 DEF Arrived, Pending, WaitedFor
  <2> QED
    BY <1>1, <2>1, <2>2 DEF ListenerInv
<1>5. RowsAreSound
  BY <1>1 DEF RowsAreSound
<1> QED
  BY <1>2, <1>3, <1>4, <1>5 DEF NInv

-----------------------------------------------------------------------------
(***************************************************************************)
(* The main thread.                                                        *)
(***************************************************************************)

\* Steps that neither publish, send, receive nor wait.
LEMMA QuietKeeps ==
  ASSUME NInv,
         \/ Subscribe \/ Signal \/ PublishRefused \/ PublishEnds
         \/ Expire \/ Disconnected \/ UNCHANGED vars
         \/ \E l \in Listeners : ServerSubscribes(l)
  PROVE  NInv'
<1>1. /\ UNCHANGED <<msg, publishTs, copied, rows, wire, cb, notificationTs, subMsgs>>
      /\ hist'.foreign = hist.foreign
      /\ turn' \in Nat \ {0}
      /\ pc' = "reply" => pc = "reply"
      /\ pc' = "copied" => pc = "copied"
      /\ pc' = "done" => pc = "done"
      /\ pc' = "wait" => turn' = 1 \/ (pc = "wait" /\ turn' = turn)
  BY DEF Subscribe, Signal, PublishRefused, PublishEnds, Expire, Disconnected, vars,
         mainVars, outVars, cbVars, serverVars, ServerSubscribes, NInv, NTypeOK, Noted,
         Ended
<1>2. NTypeOK'
  BY <1>1 DEF NInv, NTypeOK
<1>3. PublishInv'
  BY <1>1 DEF NInv, PublishInv
<1>4. ASSUME NEW l \in Listeners PROVE ListenerInv(l)'
  <2>1. ~(l < 1)
    BY Numbers DEF NInv
  <2>2. WaitedFor(l)' => WaitedFor(l)
    BY <1>1, <2>1 DEF WaitedFor
  <2> QED
    BY <1>1, <2>2, ListenerKept DEF NInv
<1>5. RowsAreSound'
  BY <1>1, RowsKept DEF NInv
<1> QED
  BY <1>2, <1>3, <1>4, <1>5 DEF NInv

\* publish(): the time of one more message is recorded.
LEMMA PublishKeeps ==
  ASSUME NInv, Publish
  PROVE  NInv'
<1>1. /\ pc = "publish" /\ pc' = "reply" /\ publishTs' = Append(publishTs, msg)
      /\ msg' = msg + 1
      /\ UNCHANGED <<turn, copied, rows, wire, cb, notificationTs, subMsgs, hist>>
  BY DEF Publish, outVars, cbVars, serverVars
<1>2. publishTs \in Seq(Nat) /\ msg \in Nat /\ msg = Len(publishTs)
      /\ \A k \in 1 .. Len(publishTs) : publishTs[k] = k - 1
  BY DEF NInv, NTypeOK, PublishInv
<1>3. /\ publishTs' \in Seq(Nat) /\ Len(publishTs') = Len(publishTs) + 1
      /\ Len(publishTs) \in Nat
      /\ publishTs'[Len(publishTs) + 1] = msg
      /\ \A k \in 1 .. Len(publishTs) : publishTs'[k] = publishTs[k]
  BY <1>1, <1>2
<1>4. NTypeOK'
  BY <1>1, <1>2, <1>3 DEF NInv, NTypeOK
<1>5. PublishInv'
  <2>1. ASSUME NEW k \in 1 .. Len(publishTs') PROVE publishTs'[k] = k - 1
    BY <1>2, <1>3, SMTT(20)
  <2> QED
    BY <1>1, <1>2, <1>3, <2>1 DEF PublishInv
<1>6. ASSUME NEW l \in Listeners PROVE ListenerInv(l)'
  <2>1. Arrived(l)' = Arrived(l) /\ Pending = 0 /\ Pending' = 1
    BY <1>1 DEF Arrived, Pending
  <2>2. ListenerInv(l) /\ NTypeOK
    BY DEF NInv
  <2>3. Arrived(l)' + Pending' <= Len(publishTs') + hist'.foreign
    BY <1>1, <1>3, <2>1, <2>2, Numbers DEF ListenerInv
  <2>4. \A m \in Nat, p \in Nat : Fits(l, m, p) =>
          p <= m + 1 /\ m + 1 + Arrived(l)' + Pending' <= Len(publishTs') + p
    BY <1>3, <2>1, <2>2, Numbers DEF Fits
  <2>5. ASSUME hist'.foreign = 0, NEW k \in 1 .. Len(notificationTs'[l])
        PROVE  Fits(l, notificationTs[l][k], k)'
    <3>1. Fits(l, notificationTs[l][k], k) /\ notificationTs[l][k] \in Nat /\ k \in Nat
      BY <1>1, <2>2, <2>5, Elements, Numbers DEF ListenerInv
    <3> QED
      BY <1>1, <2>4, <3>1 DEF Fits
  <2>6. ASSUME hist'.foreign = 0, NEW k \in 1 .. Len(wire'[l])
        PROVE  Fits(l, wire[l][k], Len(notificationTs[l]) + k)'
    <3>1. Fits(l, wire[l][k], Len(notificationTs[l]) + k)
      BY <1>1, <2>2, <2>6 DEF ListenerInv
    <3>2. wire[l][k] \in Nat /\ Len(notificationTs[l]) + k \in Nat
      BY <1>1, <2>2, <2>6, Elements, Numbers
    <3> QED
      BY <1>1, <2>4, <3>1, <3>2 DEF Fits
  <2>7. ~WaitedFor(l)'
    BY <1>1 DEF WaitedFor
  <2> QED
    BY <1>1, <2>2, <2>3, <2>5, <2>6, <2>7 DEF ListenerInv
<1>7. RowsAreSound'
  BY <1>1 DEF RowsAreSound
<1> QED
  BY <1>4, <1>5, <1>6, <1>7 DEF NInv


\* The server sends the message to the listeners that it knows of: it is the last
\* of each, and all that was sent before was published before.
LEMMA PublishOkKeeps ==
  ASSUME NInv, PublishOk
  PROVE  NInv'
<1>1. /\ pc = "reply" /\ pc' = "publish"
      /\ wire' = [l \in Listeners |->
                   IF subscribed[l] = "yes"
                   THEN Append(wire[l], publishTs[Len(publishTs)])
                   ELSE wire[l]]
      /\ hist'.foreign = hist.foreign
      /\ UNCHANGED <<turn, msg, publishTs, copied, rows, cb, notificationTs, subMsgs>>
  BY DEF PublishOk, outVars, cbVars, Noted
<1> DEFINE P == Len(publishTs)
           m == publishTs[Len(publishTs)]
<1>2. P \in Nat /\ P > 0 /\ m = P - 1 /\ m \in Nat
  <2>1. publishTs \in Seq(Nat) /\ Len(publishTs) > 0
    BY <1>1 DEF NInv, NTypeOK, PublishInv
  <2>2. Len(publishTs) \in 1 .. Len(publishTs)
    BY <2>1, LenProperties
  <2> QED
    BY <2>1, <2>2 DEF NInv, PublishInv
<1> HIDE DEF P, m
<1>3. ASSUME NEW l \in Listeners
      PROVE  wire'[l] \in Seq(Nat) /\ ListenerInv(l)'
  <2>1. ListenerInv(l) /\ NTypeOK /\ wire[l] \in Seq(Nat)
    BY DEF NInv, NTypeOK
  <2>2. CASE wire'[l] = wire[l]
    <3>1. ~WaitedFor(l)'
      BY <1>1 DEF WaitedFor
    <3> QED
      BY <1>1, <2>1, <2>2, <3>1, ListenerKept
  <2>3. CASE wire'[l] = Append(wire[l], m)
    <3> DEFINE N == Len(notificationTs[l])
               W == Len(wire[l])
    <3>1. /\ wire'[l] \in Seq(Nat) /\ Len(wire'[l]) = W + 1
          /\ wire'[l][W + 1] = m /\ \A k \in 1 .. W : wire'[l][k] = wire[l][k]
      BY <1>2, <2>1, <2>3
    <3>2. N \in Nat /\ W \in Nat /\ hist.foreign \in Nat
      BY <2>1, Numbers
    <3>3. /\ Arrived(l) = N + W /\ Arrived(l)' = N + W + 1
          /\ Pending = 1 /\ Pending' = 0
      <4>1. Arrived(l)' = Len(notificationTs'[l]) + Len(wire'[l])
        BY DEF Arrived
      <4>2. Len(notificationTs'[l]) = N
        BY <1>1
      <4>3. Arrived(l)' = N + (W + 1)
        BY <3>1, <4>1, <4>2, Zenon
      <4>4. Arrived(l) = N + W /\ Pending = 1 /\ Pending' = 0
        BY <1>1 DEF Arrived, Pending
      <4> HIDE DEF N, W
      <4> QED
        BY <3>2, <4>3, <4>4
    <3>4. N + W + 1 <= P + hist.foreign
      BY <2>1, <3>3 DEF ListenerInv, P
    <3> HIDE DEF N, W
    <3>5. \A x \in Nat, p \in Nat : Fits(l, x, p) =>
            p <= x + 1 /\ x + 1 + Arrived(l)' + Pending' <= Len(publishTs') + p
      BY <1>1, <1>2, <3>2, <3>3 DEF Fits, P
    <3>6. ASSUME hist'.foreign = 0, NEW k \in 1 .. N
          PROVE  Fits(l, notificationTs[l][k], k)'
      <4>1. /\ Fits(l, notificationTs[l][k], k) /\ notificationTs[l][k] \in Nat
            /\ k \in Nat
        BY <1>1, <2>1, <3>6, Numbers, Elements DEF ListenerInv, N
      <4> QED
        BY <1>1, <3>5, <4>1 DEF Fits
    <3>7. ASSUME hist'.foreign = 0, NEW k \in 1 .. W + 1
          PROVE  Fits(l, wire[l][k], Len(notificationTs[l]) + k)'
      <4>1. CASE k \in 1 .. W
        <5>1. Fits(l, wire[l][k], Len(notificationTs[l]) + k) /\ wire[l][k] \in Nat
          BY <1>1, <2>1, <3>7, <4>1, Numbers, Elements DEF ListenerInv, W
        <5>2. wire'[l][k] = wire[l][k] /\ Len(notificationTs[l]) + k \in Nat
          BY <3>1, <3>2, <4>1 DEF N
        <5> QED
          BY <1>1, <3>5, <5>1, <5>2 DEF Fits
      <4>2. CASE k = W + 1
        <5>1. wire'[l][k] = P - 1
          BY <1>2, <3>1, <4>2
        <5>2. N + k <= P
          BY <1>1, <1>2, <3>2, <3>4, <3>7, <4>2
        <5>3. /\ N + k <= (P - 1) + 1
              /\ (P - 1) + 1 + Arrived(l)' + Pending' <= P + (N + k)
          BY <1>2, <3>2, <3>3, <4>2, <5>2
        <5> QED
          BY <1>1, <5>1, <5>3 DEF Fits, P, N
      <4> QED
        BY <3>2, <4>1, <4>2
    <3>8. ~WaitedFor(l)'
      BY <1>1 DEF WaitedFor
    <3>9. Arrived(l)' + Pending' <= Len(publishTs') + hist'.foreign
      BY <1>1, <1>2, <3>2, <3>3, <3>4 DEF P
    <3> QED
      BY <1>1, <2>1, <3>1, <3>6, <3>7, <3>8, <3>9 DEF ListenerInv, N
  <2> QED
    BY <1>1, <2>2, <2>3 DEF m
<1>4. NTypeOK'
  <2>1. wire' \in [Listeners -> Seq(Nat)]
    BY <1>1, <1>3
  <2> QED
    BY <1>1, <2>1 DEF NInv, NTypeOK
<1>5. PublishInv'
  BY <1>1 DEF NInv, PublishInv
<1>6. RowsAreSound'
  BY <1>1 DEF RowsAreSound
<1> QED
  BY <1>3, <1>4, <1>5, <1>6 DEF NInv

\* wait(turn) returns: everything that was published has arrived.
LEMMA WaitKeeps ==
  ASSUME NInv, Wait
  PROVE  NInv'
<1>1. /\ pc = "wait" /\ pc' = "wait" /\ turn' = turn + 1
      /\ turn \in Listeners /\ subMsgs[turn] = Len(publishTs)
      /\ UNCHANGED <<msg, publishTs, copied, rows, wire, cb, notificationTs, subMsgs,
                     hist>>
  BY DEF Wait, Received, outVars, serverVars, cbVars
<1>2. NTypeOK'
  BY <1>1 DEF NInv, NTypeOK
<1>3. ASSUME NEW l \in Listeners PROVE ListenerInv(l)'
  <2>1. ListenerInv(l) /\ NTypeOK
    BY DEF NInv
  <2>2. CASE l < turn
    <3>1. WaitedFor(l)
      BY <1>1, <2>2 DEF WaitedFor
    <3> QED
      BY <1>1, <2>1, <3>1, ListenerKept
  <2>3. CASE l > turn
    <3>1. ~(l < turn') /\ ~(l < turn)
      BY <1>1, <2>1, <2>3, Numbers DEF NTypeOK
    <3>2. ~WaitedFor(l)'
      BY <1>1, <3>1 DEF WaitedFor
    <3> QED
      BY <1>1, <2>1, <3>2, ListenerKept
  <2>4. CASE l = turn
    <3>1. subMsgs[l] <= Len(notificationTs[l])
      BY <2>1, Numbers DEF ListenerInv
    <3>2. Len(publishTs) <= Len(notificationTs[l])
      BY <1>1, <2>4, <3>1
    <3>3. Arrived(l)' = Arrived(l) /\ Pending' = Pending
      BY <1>1 DEF Arrived, Pending
    <3> QED
      BY <1>1, <2>1, <3>2, <3>3 DEF ListenerInv, Fits
  <2> QED
    BY <2>1, <2>2, <2>3, <2>4, Numbers DEF NTypeOK
<1>4. PublishInv' /\ RowsAreSound'
  BY <1>1, RowsKept DEF NInv, PublishInv
<1> QED
  BY <1>2, <1>3, <1>4 DEF NInv

\* A listener that was waited for, on a channel without other workers: there is
\* nothing on its way, and it has each message at its place.
LEMMA AllArrived ==
  ASSUME NInv, NEW l \in Listeners, WaitedFor(l), hist.foreign = 0
  PROVE  /\ Len(notificationTs[l]) = Len(publishTs) /\ Len(wire[l]) = 0
         /\ \A k \in 1 .. Len(publishTs) : notificationTs[l][k] = publishTs[k]
<1>1. ListenerInv(l) /\ NTypeOK
  BY DEF NInv
<1>2. Pending = 0
  BY DEF WaitedFor, Pending
<1>3. Len(notificationTs[l]) = Len(publishTs) /\ Len(wire[l]) = 0
      /\ Arrived(l) = Len(publishTs)
  <2> DEFINE N == Len(notificationTs[l])
             W == Len(wire[l])
             P == Len(publishTs)
  <2>1. N \in Nat /\ W \in Nat /\ P \in Nat
    BY <1>1, Numbers
  <2>2. Arrived(l) = N + W
    BY DEF Arrived
  <2>3. Arrived(l) + Pending <= P + hist.foreign /\ P <= N
    BY <1>1 DEF ListenerInv
  <2> HIDE DEF N, W, P
  <2>4. N = P /\ W = 0 /\ Arrived(l) = P
    BY <1>2, <2>1, <2>2, <2>3
  <2> QED
    BY <2>4 DEF N, W, P
<1>4. ASSUME NEW k \in 1 .. Len(publishTs)
      PROVE  notificationTs[l][k] = publishTs[k]
  <2>1. Fits(l, notificationTs[l][k], k) /\ notificationTs[l][k] \in Nat
    BY <1>1, <1>3, Elements, Numbers DEF ListenerInv
  <2>2. notificationTs[l][k] = k - 1
    BY <1>1, <1>2, <1>3, <2>1, Numbers DEF Fits
  <2> QED
    BY <2>2 DEF NInv, PublishInv
<1> QED
  BY <1>3, <1>4

\* The vectors are copied after the last wait.
LEMMA CopyTsKeeps ==
  ASSUME NInv, CopyTs
  PROVE  NInv'
<1>1. /\ pc = "wait" /\ pc' = "copied" /\ turn \notin Listeners
      /\ \A l \in Listeners : copied'[l] \in Copies(l)
      /\ DOMAIN copied' = Listeners
      /\ UNCHANGED <<turn, msg, publishTs, rows, wire, cb, notificationTs, subMsgs, hist>>
  BY DEF CopyTs, serverVars, cbVars
<1>2. NTypeOK'
  BY <1>1 DEF NInv, NTypeOK
<1>3. ASSUME NEW l \in Listeners PROVE ListenerInv(l)'
  <2>1. ListenerInv(l) /\ NTypeOK
    BY DEF NInv
  <2>2. WaitedFor(l)
    <3>1. l < turn
      BY <1>1, <2>1, NotificationAssumption DEF NTypeOK, Listeners
    <3> QED
      BY <1>1, <3>1 DEF WaitedFor
  <2>3. Arrived(l)' = Arrived(l) /\ Pending' = Pending
    BY <1>1 DEF Arrived, Pending
  <2>4. hist.foreign = 0 => copied'[l] = notificationTs[l]
    <3>1. SUFFICES ASSUME hist.foreign = 0 PROVE copied'[l] = notificationTs[l]
      OBVIOUS
    <3>2. Len(wire[l]) = 0 /\ wire[l] \in Seq(Nat)
      BY <2>1, <2>2, <3>1, AllArrived DEF NTypeOK
    <3>3. wire[l] = <<>>
      BY <3>2, EmptySeq
    <3> QED
      BY <1>1, <3>3 DEF Copies
  <2>5. ~(pc = "copied")
    BY <1>1
  <2> QED
    BY <1>1, <2>1, <2>2, <2>3, <2>4 DEF ListenerInv, Fits
<1>4. PublishInv' /\ RowsAreSound'
  BY <1>1, RowsKept DEF NInv, PublishInv
<1> QED
  BY <1>2, <1>3, <1>4 DEF NInv

\* get_latencies: the rows are written.
LEMMA WriteRowsKeeps ==
  ASSUME NInv, WriteRows
  PROVE  NInv'
<1>1. /\ pc = "copied" /\ pc' = "done"
      /\ rows' = [l \in Listeners |->
                   [k \in 1 .. Len(notificationTs[l]) |->
                     <<At(publishTs, k), At(copied[l], k)>>]]
      /\ UNCHANGED <<turn, msg, publishTs, copied, wire, cb, notificationTs, subMsgs,
                     hist>>
  BY DEF WriteRows, serverVars, cbVars
<1>2. NTypeOK' /\ PublishInv'
  BY <1>1 DEF NInv, NTypeOK, PublishInv
<1>3. ASSUME NEW l \in Listeners PROVE ListenerInv(l)'
  <2>1. ~WaitedFor(l)'
    BY <1>1 DEF WaitedFor
  <2> QED
    BY <1>1, <2>1, ListenerKept DEF NInv
<1>4. RowsAreSound'
  <2> SUFFICES ASSUME NEW l \in Listeners
               PROVE  /\ Len(rows'[l]) \in Len(publishTs) .. Len(publishTs) + hist.foreign
                      /\ hist.foreign = 0 =>
                           \A k \in 1 .. Len(rows'[l]) : rows'[l][k][1] = rows'[l][k][2]
    BY <1>1 DEF RowsAreSound
  <2> DEFINE N == Len(notificationTs[l])
             P == Len(publishTs)
  <2>1. ListenerInv(l) /\ NTypeOK /\ WaitedFor(l)
    BY <1>1 DEF NInv, WaitedFor
  <2>2. N \in Nat /\ P \in Nat /\ Len(wire[l]) \in Nat /\ hist.foreign \in Nat
        /\ Pending \in Nat
    BY <2>1, Numbers
  <2>3. P <= N /\ N + Len(wire[l]) + Pending <= P + hist.foreign
    BY <2>1 DEF ListenerInv, Arrived
  <2>4. rows'[l] = [k \in 1 .. N |-> <<At(publishTs, k), At(copied[l], k)>>]
    BY <1>1
  <2> HIDE DEF N
  <2>5. Len(rows'[l]) = N
    BY <2>2, <2>4
  <2> HIDE DEF P
  <2>6. N \in P .. P + hist.foreign
    <3> DEFINE W == Len(wire[l])
    <3> HIDE DEF W
    <3>1. W \in Nat /\ N + W + Pending <= P + hist.foreign
      BY <2>2, <2>3 DEF W
    <3> QED
      BY <2>2, <2>3, <3>1
  <2>7. ASSUME hist.foreign = 0, NEW k \in 1 .. N
        PROVE  rows'[l][k][1] = rows'[l][k][2]
    <3>1. N = P /\ notificationTs[l][k] = publishTs[k] /\ copied[l] = notificationTs[l]
      BY <1>1, <2>1, <2>7, AllArrived DEF ListenerInv, N, P
    <3>2. k <= Len(publishTs) /\ k <= Len(copied[l])
      BY <2>2, <3>1 DEF N, P
    <3>3. At(publishTs, k) = publishTs[k] /\ At(copied[l], k) = notificationTs[l][k]
      BY <3>1, <3>2 DEF At
    <3>4. rows'[l][k] = <<At(publishTs, k), At(copied[l], k)>>
      BY <2>4
    <3> QED
      BY <3>1, <3>3, <3>4
  <2> QED
    BY <2>5, <2>6, <2>7 DEF P
<1> QED
  BY <1>2, <1>3, <1>4 DEF NInv

-----------------------------------------------------------------------------
(***************************************************************************)
(* The server and the callback threads.                                    *)
(***************************************************************************)

\* A message of another worker: one more than is published here may arrive.
LEMMA ServerForeignKeeps ==
  ASSUME NInv, ServerForeign
  PROVE  NInv'
<1>1. /\ wire' = [l \in Listeners |->
                   IF subscribed[l] = "yes" THEN Append(wire[l], Foreign) ELSE wire[l]]
      /\ hist'.foreign = hist.foreign + 1 /\ pc' = pc /\ pc # "done"
      /\ UNCHANGED <<turn, msg, publishTs, copied, rows, cb, notificationTs, subMsgs>>
  BY DEF ServerForeign, mainVars, outVars, cbVars, Noted, Ended
<1>2. Foreign \in Nat /\ hist.foreign \in Nat /\ hist'.foreign \in Nat
      /\ hist'.foreign # 0
  BY <1>1, NotificationAssumption DEF Foreign, NInv, NTypeOK
<1>3. ASSUME NEW l \in Listeners
      PROVE  wire'[l] \in Seq(Nat) /\ ListenerInv(l)'
  <2> DEFINE N == Len(notificationTs[l])
             W == Len(wire[l])
             P == Len(publishTs)
  <2>1. ListenerInv(l) /\ NTypeOK /\ wire[l] \in Seq(Nat)
    BY DEF NInv, NTypeOK
  <2>2. wire'[l] \in Seq(Nat) /\ Len(wire'[l]) \in {W, W + 1}
    BY <1>1, <1>2, <2>1
  <2>3. N \in Nat /\ W \in Nat /\ P \in Nat /\ Pending \in Nat
    BY <2>1, Numbers
  <2>4. /\ N + W + Pending <= P + hist.foreign /\ Pending' = Pending
        /\ Arrived(l)' = N + Len(wire'[l])
    BY <1>1, <2>1 DEF ListenerInv, Arrived, Pending
  <2> HIDE DEF W
  <2>5. Arrived(l)' = N + W \/ Arrived(l)' = N + (W + 1)
    BY <2>2, <2>4, Zenon
  <2> HIDE DEF N, P
  <2>6. Arrived(l)' + Pending' <= P + hist'.foreign
    <3>1. /\ N + W + Pending <= P + hist.foreign /\ Pending' = Pending
          /\ hist'.foreign = hist.foreign + 1 /\ hist.foreign \in Nat
      BY <1>1, <1>2, <2>4 DEF N, W, P
    <3> QED
      BY <2>3, <2>5, <3>1
  <2>7. WaitedFor(l)' => WaitedFor(l)
    BY <1>1 DEF WaitedFor
  <2> QED
    BY <1>1, <1>2, <2>1, <2>2, <2>6, <2>7 DEF ListenerInv, P
<1>4. NTypeOK'
  <2>1. wire' \in [Listeners -> Seq(Nat)]
    BY <1>1, <1>3
  <2> QED
    BY <1>1, <1>2, <2>1 DEF NInv, NTypeOK
<1>5. PublishInv' /\ RowsAreSound'
  BY <1>1 DEF NInv, PublishInv, RowsAreSound
<1> QED
  BY <1>3, <1>4, <1>5 DEF NInv

\* The callback pushes the time of the next message: its place stays the same.
LEMMA CallbackPushKeeps ==
  ASSUME NInv, NEW l \in Listeners, CallbackPush(l)
  PROVE  NInv'
<1>1. /\ cb[l] = "idle" /\ wire[l] # <<>>
      /\ notificationTs' = [notificationTs EXCEPT ![l] = Append(@, Head(wire[l]))]
      /\ wire' = [wire EXCEPT ![l] = Tail(@)]
      /\ cb' = [cb EXCEPT ![l] = "pushed"]
      /\ UNCHANGED <<pc, turn, msg, publishTs, copied, rows, subMsgs, hist>>
  BY DEF CallbackPush, mainVars, outVars
<1>2. /\ NTypeOK /\ ListenerInv(l)
      /\ wire[l] \in Seq(Nat) /\ notificationTs[l] \in Seq(Nat)
  BY DEF NInv, NTypeOK
<1> DEFINE N == Len(notificationTs[l])
           W == Len(wire[l])
           P == Len(publishTs)
           m == Head(wire[l])
<1>3. /\ notificationTs'[l] = Append(notificationTs[l], m) /\ wire'[l] = Tail(wire[l])
      /\ cb'[l] = "pushed"
      /\ \A u \in Listeners \ {l} : /\ notificationTs'[u] = notificationTs[u]
                                   /\ wire'[u] = wire[u] /\ cb'[u] = cb[u]
  BY <1>1 DEF NInv, NTypeOK
<1>4. /\ W \in Nat /\ W > 0 /\ m \in Nat /\ m = wire[l][1]
      /\ wire'[l] \in Seq(Nat) /\ Len(wire'[l]) = W - 1
      /\ \A k \in 1 .. W - 1 : wire'[l][k] = wire[l][k + 1]
  <2>1. W \in Nat /\ W # 0
    BY <1>1, <1>2, EmptySeq, LenProperties
  <2>2. W > 0 /\ 1 \in 1 .. W
    BY <2>1
  <2>3. m = wire[l][1]
    BY <1>2
  <2>4. m \in Nat
    BY <1>2, <2>2, <2>3, ElementOfSeq
  <2>5. /\ Tail(wire[l]) \in Seq(Nat) /\ Len(Tail(wire[l])) = W - 1
        /\ \A k \in 1 .. W - 1 : Tail(wire[l])[k] = wire[l][k + 1]
    BY <1>1, <1>2, HeadTailProperties
  <2> QED
    BY <1>3, <2>1, <2>2, <2>3, <2>4, <2>5
<1> HIDE DEF m, W
<1>5. /\ N \in Nat /\ notificationTs'[l] \in Seq(Nat)
      /\ Len(notificationTs'[l]) = N + 1
      /\ notificationTs'[l][N + 1] = m
      /\ \A k \in 1 .. N : notificationTs'[l][k] = notificationTs[l][k]
  BY <1>2, <1>3, <1>4
<1> HIDE DEF N
<1>6. NTypeOK'
  <2>1. wire' \in [Listeners -> Seq(Nat)] /\ notificationTs' \in [Listeners -> Seq(Nat)]
        /\ cb' \in [Listeners -> {"idle", "pushed"}]
    BY <1>1, <1>2, <1>3, <1>4, <1>5 DEF NTypeOK
  <2> QED
    BY <1>1, <1>2, <2>1 DEF NTypeOK
<1>7. Arrived(l)' = Arrived(l) /\ Pending' = Pending
  <2>1. Arrived(l)' = (N + 1) + (W - 1) /\ Arrived(l) = N + W
    BY <1>4, <1>5, Zenon DEF Arrived, N, W
  <2> QED
    BY <1>1, <1>4, <1>5, <2>1 DEF Pending
<1>8. \A x, p : Fits(l, x, p) =>
        p <= x + 1 /\ x + 1 + Arrived(l)' + Pending' <= Len(publishTs') + p
  BY <1>1, <1>7 DEF Fits
<1>9. ASSUME hist.foreign = 0, NEW k \in 1 .. N + 1
      PROVE  Fits(l, notificationTs[l][k], k)'
  <2>1. CASE k \in 1 .. N
    <3>1. Fits(l, notificationTs[l][k], k) /\ notificationTs'[l][k] = notificationTs[l][k]
      BY <1>2, <1>5, <1>9, <2>1 DEF ListenerInv, N
    <3> QED
      BY <1>8, <3>1 DEF Fits
  <2>2. CASE k = N + 1
    <3>1. 1 \in 1 .. W
      BY <1>4
    <3>2. Fits(l, wire[l][1], N + 1)
      BY <1>2, <1>9, <3>1 DEF ListenerInv, N, W
    <3> QED
      BY <1>4, <1>5, <1>8, <2>2, <3>2 DEF Fits
  <2> QED
    BY <1>5, <2>1, <2>2
<1>10. ASSUME hist.foreign = 0, NEW k \in 1 .. W - 1
       PROVE  Fits(l, wire[l][k], Len(notificationTs[l]) + k)'
  <2>1. k + 1 \in 1 .. W /\ k \in Nat
    BY <1>4
  <2>2. Fits(l, wire[l][k + 1], N + (k + 1))
    BY <1>2, <1>10, <2>1 DEF ListenerInv, N, W
  <2>3. wire'[l][k] = wire[l][k + 1] /\ (N + 1) + k = N + (k + 1)
    BY <1>4, <1>5, <2>1
  <2>4. Fits(l, wire'[l][k], (N + 1) + k)
    BY <2>2, <2>3
  <2>5. Len(notificationTs'[l]) + k = (N + 1) + k
    BY <1>5
  <2> QED
    BY <1>8, <2>4, <2>5 DEF Fits
<1>11. ListenerInv(l)'
  <2>1. subMsgs[l] = N /\ subMsgs[l] \in Nat
    BY <1>1, <1>2, Numbers DEF ListenerInv, N
  <2>2. subMsgs'[l] + 1 = Len(notificationTs'[l])
    BY <1>1, <1>5, <2>1
  <2>3. Arrived(l)' + Pending' <= Len(publishTs') + hist'.foreign
    BY <1>1, <1>2, <1>7 DEF ListenerInv
  <2>4. WaitedFor(l)' => Len(publishTs') <= Len(notificationTs'[l])
    <3>1. WaitedFor(l)' => P <= N
      BY <1>1, <1>2 DEF WaitedFor, ListenerInv, N
    <3>2. P \in Nat
      BY <1>2, Numbers
    <3> HIDE DEF P
    <3>3. WaitedFor(l)' => P <= N + 1
      BY <1>5, <3>1, <3>2
    <3> QED
      BY <1>1, <1>5, <3>3 DEF P
  <2>5. ~(pc' = "copied" /\ hist'.foreign = 0)
    <3>1. SUFFICES ASSUME pc = "copied", hist.foreign = 0 PROVE FALSE
      BY <1>1
    <3>2. WaitedFor(l)
      BY <3>1 DEF WaitedFor
    <3>3. W = 0
      BY <3>1, <3>2, AllArrived DEF W
    <3> QED
      BY <1>4, <3>3
  <2>6. hist'.foreign = hist.foreign
    BY <1>1
  <2> QED
    BY <1>3, <1>4, <1>5, <1>9, <1>10, <2>2, <2>3, <2>4, <2>5, <2>6 DEF ListenerInv
<1>12. ASSUME NEW u \in Listeners, u # l PROVE ListenerInv(u)'
  <2>1. WaitedFor(u)' => WaitedFor(u)
    BY <1>1 DEF WaitedFor
  <2> QED
    BY <1>1, <1>3, <1>12, <2>1, ListenerKept DEF NInv
<1>13. PublishInv' /\ RowsAreSound'
  BY <1>1, RowsKept DEF NInv, PublishInv
<1> QED
  BY <1>6, <1>11, <1>12, <1>13 DEF NInv

\* The callback counts the message that it has pushed.
LEMMA CallbackCountKeeps ==
  ASSUME NInv, NEW l \in Listeners, CallbackCount(l)
  PROVE  NInv'
<1>1. /\ cb[l] = "pushed"
      /\ subMsgs' = [subMsgs EXCEPT ![l] = @ + 1]
      /\ cb' = [cb EXCEPT ![l] = "idle"]
      /\ UNCHANGED <<pc, turn, msg, publishTs, copied, rows, wire, notificationTs, hist>>
  BY DEF CallbackCount, mainVars, outVars, serverVars
<1>2. NTypeOK /\ ListenerInv(l) /\ subMsgs[l] \in Nat
  BY DEF NInv, NTypeOK
<1>3. /\ subMsgs'[l] = subMsgs[l] + 1 /\ cb'[l] = "idle"
      /\ \A u \in Listeners \ {l} : subMsgs'[u] = subMsgs[u] /\ cb'[u] = cb[u]
      /\ subMsgs' \in [Listeners -> Nat] /\ cb' \in [Listeners -> {"idle", "pushed"}]
  BY <1>1, <1>2 DEF NTypeOK
<1>4. NTypeOK'
  BY <1>1, <1>2, <1>3 DEF NTypeOK
<1>5. ListenerInv(l)'
  <2>1. subMsgs'[l] = Len(notificationTs[l])
    BY <1>1, <1>2, <1>3 DEF ListenerInv
  <2>2. subMsgs'[l] + 0 = Len(notificationTs'[l])
    BY <1>1, <1>2, <1>3, <2>1
  <2>3. Arrived(l)' = Arrived(l) /\ Pending' = Pending /\ WaitedFor(l)' = WaitedFor(l)
    BY <1>1 DEF Arrived, Pending, WaitedFor
  <2> QED
    BY <1>1, <1>2, <1>3, <2>2, <2>3 DEF ListenerInv, Fits
<1>6. ASSUME NEW u \in Listeners, u # l PROVE ListenerInv(u)'
  <2>1. WaitedFor(u)' => WaitedFor(u)
    BY <1>1 DEF WaitedFor
  <2> QED
    BY <1>1, <1>3, <1>6, <2>1, ListenerKept DEF NInv
<1>7. PublishInv' /\ RowsAreSound'
  BY <1>1, RowsKept DEF NInv, PublishInv
<1> QED
  BY <1>4, <1>5, <1>6, <1>7 DEF NInv

\* The invariant is inductive.
LEMMA NInvStep == NInv /\ [Next]_vars => NInv'
  BY QuietKeeps, PublishKeeps, PublishOkKeeps, WaitKeeps, CopyTsKeeps, WriteRowsKeeps,
     ServerForeignKeeps, CallbackPushKeeps, CallbackCountKeeps
     DEF Next, MainStep, ListenerStep

\* What get_latencies pairs by position belongs together: the wait of every
\* listener, a counter compared with !=, the time of a publish that is recorded
\* before its answer, and vectors that are copied without a lock notwithstanding.
THEOREM RowsPairUp == Spec => []RowsAreSound
<1>1. NInv => RowsAreSound
  BY DEF NInv
<1> QED
  BY NInvInit, NInvStep, <1>1, PTL DEF Spec

=============================================================================
