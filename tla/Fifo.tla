-------------------------------- MODULE Fifo --------------------------------
(***************************************************************************)
(* What queue<T> promises: what is pushed comes out once and in order, and *)
(* a thread that asks for an item gets one as soon as there is one.  There *)
(* are neither locks nor wake-ups here.                                    *)
(***************************************************************************)
EXTENDS Naturals, Sequences

CONSTANTS
  Channels,   \* the queues
  Items       \* what may be pushed

VARIABLES
  items,      \* the content of each queue
  asked,      \* whether its consumer is inside pop()
  taken       \* what pop() has returned last

vars == <<items, asked, taken>>

Init ==
  /\ items = [c \in Channels |-> <<>>]
  /\ asked = [c \in Channels |-> FALSE]
  /\ taken = <<>>

Push(c) ==
  /\ \E x \in Items : items' = [items EXCEPT ![c] = Append(@, x)]
  /\ UNCHANGED <<asked, taken>>

Ask(c) ==
  /\ ~asked[c]
  /\ asked' = [asked EXCEPT ![c] = TRUE]
  /\ UNCHANGED <<items, taken>>

Pop(c) ==
  /\ asked[c] /\ items[c] # <<>>
  /\ taken' = Head(items[c])
  /\ items' = [items EXCEPT ![c] = Tail(@)]
  /\ asked' = [asked EXCEPT ![c] = FALSE]

\* The process ends while its thread is inside pop().
Leave(c) ==
  /\ asked[c]
  /\ asked' = [asked EXCEPT ![c] = FALSE]
  /\ UNCHANGED <<items, taken>>

Next == \E c \in Channels : Push(c) \/ Ask(c) \/ Pop(c) \/ Leave(c)

Spec == Init /\ [][Next]_vars /\ \A c \in Channels : WF_vars(Pop(c))

=============================================================================
