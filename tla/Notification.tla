---------------------------- MODULE Notification ----------------------------
(***************************************************************************)
(* The notification benchmark on redis: benchmark::benchmark_notifications *)
(* over redis_notification.                                                *)
(*                                                                         *)
(* The main thread subscribes every listener to one channel, passes the    *)
(* barrier, publishes NumOps messages one at a time, waits until each      *)
(* listener has counted as many messages as m_publish_ts has entries, and  *)
(* writes a row per message that pairs the j-th publish time with the j-th *)
(* notification time.  A callback thread per listener pushes the time of a *)
(* message into m_notification_ts and THEN increments an atomic counter.   *)
(*                                                                         *)
(* What makes it hard: subscribe().commit() does not wait for the server,  *)
(* so that a message may be published before a listener is subscribed, and *)
(* is then lost to it; publish() pushes its time BEFORE it knows whether   *)
(* the server accepts the message, and the loop publishes again after an   *)
(* error; the vectors are not protected by a lock; and the wait compares   *)
(* with !=.                                                                *)
(*                                                                         *)
(* The server (external) handles the subscriptions and delivers messages   *)
(* in order on each listener's connection.  A time stamp is represented by *)
(* the message that it belongs to.  The channel is a name in the           *)
(* configuration, so that the workers of a scaled run publish on the same  *)
(* one: a listener counts their messages, too.  The three vectors are read *)
(* one after the other, the last of them twice, while callbacks may go on; *)
(* what is read behind the end of one, or while it grows, is Garbage.      *)
(* destroy() comes after the rows and is not looked at.                    *)
(***************************************************************************)
EXTENDS Naturals, Sequences

CONSTANTS
  NumListeners,   \* the num_listeners argument
  NumOps,         \* the num_ops argument
  ErrorMax,       \* ERROR_MAX
  MaxForeign      \* bound: how many messages other workers publish

ASSUME NotificationAssumption ==
  /\ NumListeners \in Nat /\ NumOps \in Nat /\ ErrorMax \in Nat
  /\ MaxForeign \in Nat

\* The subscribers, in the order in which they are waited for.
Listeners == 1 .. NumListeners

\* A message of another worker, and what an invalid read returns: neither is a
\* message of this one, which are 0 .. NumOps + ErrorMax.
Foreign == NumOps + ErrorMax + 1
Garbage == NumOps + ErrorMax + 2

VARIABLES
  pc,               \* where the main thread is
  turn,             \* the listener it subscribes or waits for
  i,                \* loop counter of the publish loop
  err,              \* err_count
  msg,              \* cur_key_ of msg_gen: the next message
  expired,          \* whether the time bound has passed
  publishTs,        \* m_publish_ts
  subscribed,       \* listener: "no", "requested", or "yes" once the server knows
  wire,             \* messages on the way to each listener, in order
  cb,               \* callback thread: "idle", or between its two statements
  notificationTs,   \* m_notification_ts
  subMsgs,          \* m_sub_msgs
  copied,           \* the copy of m_notification_ts that the rows are written from
  rows,             \* what is written for each listener: <<published, notified>>
  hist              \* history: publishes refused, messages lost to a listener,
                    \* messages of other workers

outVars    == <<copied, rows>>
mainVars   == <<pc, turn, i, err, msg, expired, publishTs, outVars>>
serverVars == <<subscribed, wire>>
cbVars     == <<cb, notificationTs, subMsgs>>
vars == <<mainVars, serverVars, cbVars, hist>>

Noted(refused, lost, foreign) ==
  [refused |-> refused, lost |-> lost, foreign |-> foreign]

Init ==
  /\ pc = "subscribe" /\ turn = 1
  /\ i = 0 /\ err = 0 /\ msg = 0 /\ expired = FALSE
  /\ publishTs = <<>>
  /\ subscribed = [l \in Listeners |-> "no"]
  /\ wire = [l \in Listeners |-> <<>>]
  /\ cb = [l \in Listeners |-> "idle"]
  /\ notificationTs = [l \in Listeners |-> <<>>]
  /\ subMsgs = [l \in Listeners |-> 0]
  /\ copied = [l \in Listeners |-> <<>>]
  /\ rows = [l \in Listeners |-> <<>>]
  /\ hist = Noted(0, 0, 0)

Ended == {"done", "aborted", "exited", "killed"}

-----------------------------------------------------------------------------
(***************************************************************************)
(* The main thread.                                                        *)
(***************************************************************************)

\* The loop of s_if->subscribe(channel): connect, send SUBSCRIBE, go on.
Subscribe ==
  /\ pc = "subscribe" /\ turn \in Listeners
  /\ subscribed' = [subscribed EXCEPT ![turn] = "requested"]
  /\ turn' = turn + 1
  /\ UNCHANGED <<pc, i, err, msg, expired, publishTs, outVars, wire, cbVars, hist>>

\* signal() after the last one: run, or return at once.
Signal ==
  /\ pc = "subscribe" /\ turn \notin Listeners
  /\ pc' \in {"publish", "aborted"}
  /\ UNCHANGED <<turn, i, err, msg, expired, publishTs, outVars, serverVars, cbVars,
                 hist>>

\* publish(): record the time, send PUBLISH, block on the reply.
Publish ==
  /\ pc = "publish" /\ i < NumOps /\ ~expired
  /\ publishTs' = Append(publishTs, msg)
  /\ msg' = msg + 1
  /\ pc' = "reply"
  /\ UNCHANGED <<turn, i, err, expired, outVars, serverVars, cbVars, hist>>

\* The server (external) hands the message to the listeners it knows of, and
\* the reply is a count.
PublishOk ==
  /\ pc = "reply"
  /\ wire' = [l \in Listeners |->
               IF subscribed[l] = "yes"
               THEN Append(wire[l], publishTs[Len(publishTs)])
               ELSE wire[l]]
  /\ hist' = Noted(hist.refused,
                   hist.lost + (IF \A l \in Listeners : subscribed[l] = "yes"
                                THEN 0 ELSE 1),
                   hist.foreign)
  /\ i' = i + 1
  /\ pc' = "publish"
  /\ UNCHANGED <<turn, err, msg, expired, publishTs, outVars, subscribed, cbVars>>

\* The reply is an error: publish() throws, the loop counts it and goes on with
\* a new message, or exits.  The time stays in m_publish_ts.
PublishRefused ==
  /\ pc = "reply"
  /\ err' = err + 1
  /\ pc' = IF err' > ErrorMax THEN "exited" ELSE "publish"
  /\ hist' = Noted(hist.refused + 1, hist.lost, hist.foreign)
  /\ UNCHANGED <<turn, i, msg, expired, publishTs, outVars, serverVars, cbVars>>

PublishEnds ==
  /\ pc = "publish" /\ (i >= NumOps \/ expired)
  /\ pc' = "wait" /\ turn' = 1
  /\ UNCHANGED <<i, err, msg, expired, publishTs, outVars, serverVars, cbVars, hist>>

\* Mutant of Received: wait for the publishes that the loop has counted.
ReceivedCounted(l) == subMsgs[l] = i

\* Mutant of Received: spin while the counter is <= the number of publishes.
ReceivedOneMore(l) == subMsgs[l] > Len(publishTs)

\* The counter has reached the number of recorded publishes.
Received(l) == subMsgs[l] = Len(publishTs)

\* wait(turn)
Wait ==
  /\ pc = "wait" /\ turn \in Listeners
  /\ Received(turn)
  /\ turn' = turn + 1
  /\ UNCHANGED <<pc, i, err, msg, expired, publishTs, outVars, serverVars, cbVars,
                 hist>>

\* What a copy of m_notification_ts[l] may be: push_back() of a message that has
\* arrived may move the elements at the same time.
Copies(l) ==
  {notificationTs[l]} \union
    (IF cb[l] = "idle" /\ wire[l] # <<>>
     THEN {[k \in 1 .. Len(notificationTs[l]) |-> Garbage]} ELSE {})

\* get_publish_ts, get_notification_ts: copies.
CopyTs ==
  /\ pc = "wait" /\ turn \notin Listeners
  /\ copied' \in {f \in [Listeners -> UNION {Copies(l) : l \in Listeners}] :
                   \A l \in Listeners : f[l] \in Copies(l)}
  /\ pc' = "copied"
  /\ UNCHANGED <<turn, i, err, msg, expired, publishTs, rows, serverVars, cbVars,
                 hist>>

At(s, k) == IF k <= Len(s) THEN s[k] ELSE Garbage

\* get_latencies looks at the vectors once more, and there are as many rows as it
\* finds; they are put together by position.
WriteRows ==
  /\ pc = "copied"
  /\ rows' = [l \in Listeners |->
               [k \in 1 .. Len(notificationTs[l]) |->
                 <<At(publishTs, k), At(copied[l], k)>>]]
  /\ pc' = "done"
  /\ UNCHANGED <<turn, i, err, msg, expired, publishTs, copied, serverVars, cbVars,
                 hist>>

\* A connection to the server is lost: its callback calls exit(-1).
Disconnected ==
  /\ pc \notin Ended
  /\ pc' = "killed"
  /\ UNCHANGED <<turn, i, err, msg, expired, publishTs, outVars, serverVars, cbVars,
                 hist>>

\* The time bound passes; the publish loop looks at it.
Expire ==
  /\ pc \in {"subscribe", "publish", "reply"} /\ ~expired
  /\ expired' = TRUE
  /\ UNCHANGED <<pc, turn, i, err, msg, publishTs, outVars, serverVars, cbVars,
                 hist>>

-----------------------------------------------------------------------------
(***************************************************************************)
(* The server and the callback threads.                                    *)
(***************************************************************************)

\* The server handles a SUBSCRIBE.
ServerSubscribes(l) ==
  /\ subscribed[l] = "requested"
  /\ subscribed' = [subscribed EXCEPT ![l] = "yes"]
  /\ UNCHANGED <<mainVars, wire, cbVars, hist>>

\* Another worker publishes on the channel.
ServerForeign ==
  /\ hist.foreign < MaxForeign /\ pc \notin Ended
  /\ wire' = [l \in Listeners |->
               IF subscribed[l] = "yes" THEN Append(wire[l], Foreign) ELSE wire[l]]
  /\ hist' = Noted(hist.refused, hist.lost, hist.foreign + 1)
  /\ UNCHANGED <<mainVars, subscribed, cbVars>>

\* The callback: m_notification_ts[id].push_back(now_us());
CallbackPush(l) ==
  /\ cb[l] = "idle" /\ wire[l] # <<>>
  /\ notificationTs' = [notificationTs EXCEPT ![l] = Append(@, Head(wire[l]))]
  /\ wire' = [wire EXCEPT ![l] = Tail(@)]
  /\ cb' = [cb EXCEPT ![l] = "pushed"]
  /\ UNCHANGED <<mainVars, subscribed, subMsgs, hist>>

\* ++m_sub_msgs[id];
CallbackCount(l) ==
  /\ cb[l] = "pushed"
  /\ subMsgs' = [subMsgs EXCEPT ![l] = @ + 1]
  /\ cb' = [cb EXCEPT ![l] = "idle"]
  /\ UNCHANGED <<mainVars, serverVars, notificationTs, hist>>

MainStep ==
  \/ Subscribe \/ Signal \/ Publish \/ PublishOk \/ PublishRefused
  \/ PublishEnds \/ Wait \/ CopyTs \/ WriteRows

ListenerStep(l) == ServerSubscribes(l) \/ CallbackPush(l) \/ CallbackCount(l)

Next ==
  \/ MainStep \/ Expire \/ Disconnected \/ ServerForeign
  \/ \E l \in Listeners : ListenerStep(l)

\* The threads are scheduled, and the server answers and delivers.
Spec ==
  /\ Init /\ [][Next]_vars
  /\ WF_vars(MainStep)
  /\ \A l \in Listeners : WF_vars(ListenerStep(l))

-----------------------------------------------------------------------------
(***************************************************************************)
(* Properties.                                                             *)
(***************************************************************************)

\* The rows are sound while no other worker publishes on the channel: when they
\* are written, every row of every listener pairs the publish time of a message
\* with the notification time of the same message, and no message is missing.  A
\* refused publish or a message published before a listener was subscribed never
\* shifts the rows: it keeps the wait from ever ending instead.  What other workers
\* publish can spoil the rows, but it cannot hide a message: no file is short of a
\* publish, and what it has too many comes from other workers.
RowsAreSound ==
  pc = "done" => \A l \in Listeners :
    /\ Len(rows[l]) \in Len(publishTs) .. Len(publishTs) + hist.foreign
    /\ hist.foreign = 0 =>
         \A k \in 1 .. Len(rows[l]) : rows[l][k][1] = rows[l][k][2]

\* The benchmark ends unless a publish was refused, a message was published before
\* a listener was subscribed, or another worker's message was counted.
EndsUnlessDisturbed ==
  <>(pc \in Ended \/ hist.refused > 0 \/ hist.lost > 0 \/ hist.foreign > 0)

=============================================================================
