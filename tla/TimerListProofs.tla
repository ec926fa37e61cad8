--------------------------- MODULE TimerListProofs ---------------------------
(***************************************************************************)
(* With its calls made one at a time the list of timer.c holds the timers  *)
(* started and not stopped, youngest first, whatever the timer thread does *)
(* meanwhile.  ListIsStarted follows the links from g_head; ListInv says   *)
(* link by link where each of them leads, so that a call, which changes    *)
(* one link at a time, is seen to keep it.                                 *)
(***************************************************************************)
EXTENDS TimerList, FiniteSetTheorems, WellFoundedInduction, TLAPS

\* The threads call timer_start and timer_stop one at a time.
Alone(c) == \A d \in Clients : d # c => At(d, "idle")
OneAtATime == \A c \in Clients : ~ At(c, "idle") => Alone(c)

-----------------------------------------------------------------------------
(* The shape of the list, without following it: each node leads to the     *)
(* youngest of those older than itself.                                    *)

Older(a, nodes) == {b \in nodes : timer[b] < timer[a]}

\* x is the youngest of these nodes, NULL when there are none.
Youngest(x, nodes) ==
  \/ nodes = {} /\ x = NULL
  \/ x \in nodes /\ \A b \in nodes : timer[b] <= timer[x]

Chained(nodes) ==
  /\ Youngest(g_head, nodes)
  /\ \A a \in nodes : Youngest(next[a], Older(a, nodes))

\* While timer_stop is looking for it, a node is still in the list, unless it
\* was the head and has been taken off.
Linked(c) ==
  started \union
    (IF \/ client[c].pc \in {"is_head", "behead", "unlink"}
        \/ /\ client[c].pc \in {"first", "walk"}
           /\ \E b \in started : timer[b] > timer[client[c].node]
     THEN {client[c].node} ELSE {})

ListTypeOK ==
  /\ g_head \in Addr \union {NULL}
  /\ next \in [Addr -> Addr \union {NULL}]
  /\ timer \in [Addr -> Nat] /\ count \in Nat
  /\ allocated \subseteq Addr /\ started \subseteq allocated
  /\ client \in [Clients -> [pc : {"idle", "link", "insert", "is_head", "behead", "first",
                                  "walk", "unlink", "free"},
                            node : Addr \union {NULL}, tmp : Addr \union {NULL}]]
  /\ \A c \in Clients : client[c].pc # "idle" => client[c].node \in Addr

\* The nodes handed out are those started and the one of the call under way,
\* which are as young as their numbers.
NodesInv(c) ==
  /\ allocated = started \union (IF At(c, "idle") THEN {} ELSE {client[c].node})
  /\ ~ At(c, "idle") => client[c].node \notin started
  /\ \A a \in allocated : timer[a] < count
  /\ \A a, b \in allocated : a # b => timer[a] # timer[b]
  /\ client[c].pc \in {"link", "insert"} =>
       \A a \in started : timer[a] < timer[client[c].node]

\* What timer_stop has found so far.
WalkInv(c) ==
  LET node == client[c].node  tmp == client[c].tmp IN
  /\ At(c, "insert") => next[node] = g_head
  /\ At(c, "behead") => g_head = node /\ tmp = next[node]
  /\ At(c, "first") => g_head # node
  /\ At(c, "walk") =>
       /\ tmp \in started
       /\ node \in Linked(c) => timer[tmp] > timer[node]
  /\ At(c, "unlink") => tmp \in started /\ next[tmp] = node

\* The list when c is in a call, if any thread is.
CallInv(c) == NodesInv(c) /\ Chained(Linked(c)) /\ WalkInv(c)

ListInv == \A c \in Clients : Alone(c) => CallInv(c)

-----------------------------------------------------------------------------
(* The calls keep the list in order. *)

USE DEF At, Step

\* No node is handed out.
LEMMA InitList == Init => ListTypeOK /\ ListInv
BY ListAssumption
DEF Init, ListTypeOK, ListInv, CallInv, NodesInv, Chained, Linked, WalkInv, Youngest, Older,
    Idle

\* Steps that leave the list, its nodes and its callers alone.
LEMMA OthersKeep ==
  ASSUME ListTypeOK, ListInv,
         UNCHANGED <<g_head, next, timer, count, allocated, started, client>>
  PROVE  ListTypeOK' /\ ListInv'
<1>1. ListTypeOK'
  BY DEF ListTypeOK
<1>2. ListInv'
  BY DEF ListInv, Alone, CallInv, NodesInv, Chained, Linked, WalkInv, Youngest, Older
<1> QED BY <1>1, <1>2

\* Each step of a call keeps the types.
LEMMA CallType ==
  ASSUME ListTypeOK, NEW c \in Clients, CallInv(c), Call(c) \/ Return(c)
  PROVE  ListTypeOK'
<1> USE DEF ListTypeOK
<1>1. CASE StartAlloc(c)
  BY <1>1 DEF StartAlloc
<1>2. CASE StartLink(c)
  BY <1>2 DEF StartLink
<1>3. CASE StartInsert(c)
  BY <1>3 DEF StartInsert, Idle, CallInv, NodesInv
<1>4. CASE StopClose(c)
  BY <1>4 DEF StopClose
<1>5. CASE StopIsHead(c)
  <2>1. next[client[c].node] \in Addr \union {NULL}
    BY <1>5 DEF StopIsHead
  <2> QED BY <1>5, <2>1 DEF StopIsHead
<1>6. CASE StopBehead(c)
  BY <1>6 DEF StopBehead
<1>7. CASE StopFirst(c)
  BY <1>7 DEF StopFirst
<1>8. CASE StopWalk(c)
  BY <1>8 DEF StopWalk, UseAfterFree, CallInv, WalkInv
<1>9. CASE StopUnlink(c)
  BY <1>9 DEF StopUnlink, UseAfterFree, CallInv, WalkInv
<1>10. CASE StopFree(c)
  BY <1>10 DEF StopFree, Idle, CallInv, NodesInv
<1>11. CASE StartFails(c)
  BY <1>11 DEF StartFails
<1> QED BY <1>1, <1>2, <1>3, <1>4, <1>5, <1>6, <1>7, <1>8, <1>9, <1>10, <1>11
  DEF Call, Return, Finish

\* One of a set of nodes is the youngest; when they have different numbers, no
\* other one is.
LEMMA YoungestIsOne ==
  ASSUME NEW nodes, NEW x, NEW y, nodes \subseteq Addr, ListTypeOK, Youngest(x, nodes),
         Youngest(y, nodes), \A a, b \in nodes : a # b => timer[a] # timer[b]
  PROVE  x = y
BY ListAssumption DEF Youngest, ListTypeOK

\* A call that fails takes a number only.
LEMMA StartFailsSafe ==
  ASSUME ListTypeOK, ListInv, NEW c \in Clients, StartFails(c)
  PROVE  ListTypeOK' /\ ListInv'
<1>1. count' = count + 1 /\ UNCHANGED <<g_head, next, timer, allocated, started, client>>
  BY DEF StartFails
<1>2. ASSUME NEW d \in Clients, CallInv(d)
      PROVE  CallInv(d)'
  <2>1. NodesInv(d)'
    BY <1>1, <1>2 DEF CallInv, NodesInv, ListTypeOK
  <2> QED BY <1>1, <1>2, <2>1 DEF CallInv, Chained, Linked, WalkInv, Youngest, Older
<1>3. ListTypeOK'
  BY <1>1 DEF ListTypeOK
<1> QED BY <1>1, <1>2, <1>3 DEF ListInv, Alone

\* malloc hands out a node, and the next number.
LEMMA StartAllocSafe ==
  ASSUME ListTypeOK, NEW c \in Clients, CallInv(c), StartAlloc(c)
  PROVE  CallInv(c)'
<1>1. PICK a \in Addr \ allocated :
        /\ allocated' = allocated \union {a}
        /\ timer' = [timer EXCEPT ![a] = count]
        /\ client' = [client EXCEPT ![c] = [pc |-> "link", node |-> a, tmp |-> NULL]]
        /\ count' = count + 1 /\ UNCHANGED <<g_head, next, started>> /\ At(c, "idle")
  BY DEF StartAlloc
<1>2. /\ client'[c].pc = "link" /\ client'[c].node = a
      /\ timer'[a] = count /\ \A b \in started : timer'[b] = timer[b]
      /\ started = allocated /\ Linked(c) = started /\ Linked(c)' = started
  BY <1>1 DEF ListTypeOK, CallInv, NodesInv, Linked
<1>3. NodesInv(c)'
  BY <1>1, <1>2 DEF ListTypeOK, CallInv, NodesInv
<1>4. Chained(Linked(c))'
  BY <1>1, <1>2 DEF ListTypeOK, CallInv, Chained, Youngest, Older
<1>5. WalkInv(c)'
  BY <1>2 DEF WalkInv
<1> QED BY <1>3, <1>4, <1>5 DEF CallInv

\* The node leads to the head.
LEMMA StartLinkSafe ==
  ASSUME ListTypeOK, NEW c \in Clients, CallInv(c), StartLink(c)
  PROVE  CallInv(c)'
<1> DEFINE a == client[c].node
<1>1. /\ next' = [next EXCEPT ![a] = g_head] /\ a \in Addr \ started
      /\ client'[c] = [pc |-> "insert", node |-> a, tmp |-> NULL]
      /\ UNCHANGED <<g_head, timer, count, allocated, started>> /\ At(c, "link")
  BY DEF StartLink, ListTypeOK, CallInv, NodesInv
<1> HIDE DEF a
<1>2. Linked(c) = started /\ Linked(c)' = started /\ client[c].node = a
  BY <1>1 DEF Linked, a
<1>3. NodesInv(c)'
  BY <1>1, <1>2 DEF CallInv, NodesInv
<1>4. Chained(Linked(c))'
  BY <1>1, <1>2 DEF ListTypeOK, CallInv, Chained, Youngest, Older
<1>5. WalkInv(c)'
  BY <1>1 DEF WalkInv, ListTypeOK
<1> QED BY <1>3, <1>4, <1>5 DEF CallInv

\* It is the head.
LEMMA StartInsertSafe ==
  ASSUME ListTypeOK, NEW c \in Clients, CallInv(c), StartInsert(c)
  PROVE  CallInv(c)'
<1> DEFINE a == client[c].node
<1>1. /\ g_head' = a /\ started' = started \union {a} /\ a \in Addr \ started
      /\ next[a] = g_head /\ \A b \in started : timer[b] < timer[a]
      /\ client'[c] = Idle /\ At(c, "insert")
      /\ UNCHANGED <<next, timer, count, allocated>>
  BY DEF StartInsert, ListTypeOK, CallInv, NodesInv, WalkInv
<1> HIDE DEF a
<1>2. Linked(c) = started /\ Linked(c)' = started' /\ client[c].node = a
  BY <1>1 DEF Linked, Idle, a
<1>3. NodesInv(c)'
  BY <1>1, <1>2 DEF CallInv, NodesInv, Idle
<1>4. Chained(Linked(c))'
  <2>1. /\ Older(a, started') = started
        /\ \A b \in started : Older(b, started') = Older(b, started)
    BY <1>1 DEF Older, ListTypeOK
  <2>2. \A x, s : Youngest(x, s)' <=> Youngest(x, s)
    BY <1>1 DEF Youngest
  <2> QED BY <1>1, <1>2, <2>1 DEF ListTypeOK, CallInv, Chained, Youngest, Older
<1>5. WalkInv(c)'
  BY <1>1 DEF WalkInv, Idle
<1> QED BY <1>3, <1>4, <1>5 DEF CallInv

\* The timer stopped is not started any more.
LEMMA StopCloseSafe ==
  ASSUME ListTypeOK, NEW c \in Clients, CallInv(c), StopClose(c)
  PROVE  CallInv(c)'
<1>1. PICK h \in started :
        /\ started' = started \ {h} /\ client'[c] = [pc |-> "is_head", node |-> h, tmp |-> NULL]
        /\ At(c, "idle") /\ UNCHANGED <<g_head, next, allocated, timer, count>>
  BY DEF StopClose, ListTypeOK
<1>2. Linked(c) = started /\ Linked(c)' = started
  BY <1>1 DEF Linked
<1>3. NodesInv(c)'
  BY <1>1, <1>2 DEF CallInv, NodesInv
<1>4. Chained(Linked(c))'
  BY <1>1, <1>2 DEF CallInv, Chained, Youngest, Older
<1>5. WalkInv(c)'
  BY <1>1 DEF WalkInv
<1> QED BY <1>3, <1>4, <1>5 DEF CallInv

\* Is it the head?
LEMMA StopIsHeadSafe ==
  ASSUME ListTypeOK, NEW c \in Clients, CallInv(c), StopIsHead(c)
  PROVE  CallInv(c)'
<1> DEFINE h == client[c].node
<1>1. /\ \/ g_head = h /\ client'[c] = [pc |-> "behead", node |-> h, tmp |-> next[h]]
         \/ g_head # h /\ client'[c] = [pc |-> "first", node |-> h, tmp |-> NULL]
      /\ At(c, "is_head") /\ h \in Addr \ started /\ h \in allocated
      /\ UNCHANGED <<g_head, next, timer, count, allocated, started>>
  BY DEF StopIsHead, ListTypeOK, CallInv, NodesInv
<1> HIDE DEF h
<1>2. Linked(c) = started \union {h} /\ client[c].node = h
  BY <1>1 DEF Linked, h
<1>3. Linked(c)' = Linked(c)
  <2>1. g_head # h => \E b \in started : timer[b] > timer[h]
    BY <1>1, <1>2 DEF ListTypeOK, CallInv, Chained, Youngest, NodesInv
  <2> QED BY <1>1, <1>2, <2>1 DEF Linked
<1>4. NodesInv(c)'
  BY <1>1, <1>2 DEF CallInv, NodesInv
<1>5. Chained(Linked(c))'
  BY <1>1, <1>3 DEF CallInv, Chained, Youngest, Older
<1>6. WalkInv(c)'
  BY <1>1 DEF WalkInv
<1> QED BY <1>4, <1>5, <1>6 DEF CallInv

\* The head goes.
LEMMA StopBeheadSafe ==
  ASSUME ListTypeOK, NEW c \in Clients, CallInv(c), StopBehead(c)
  PROVE  CallInv(c)'
<1> DEFINE h == client[c].node
<1>1. /\ g_head = h /\ g_head' = next[h] /\ At(c, "behead")
      /\ client'[c] = [pc |-> "first", node |-> h, tmp |-> NULL]
      /\ h \in Addr \ started /\ h \in allocated
      /\ UNCHANGED <<next, timer, count, allocated, started>>
  BY DEF StopBehead, ListTypeOK, CallInv, NodesInv, WalkInv
<1> HIDE DEF h
<1>2. Linked(c) = started \union {h} /\ client[c].node = h
  BY <1>1 DEF Linked, h
<1>3. \A b \in started : timer[b] < timer[h]
  BY <1>1, <1>2, ListAssumption DEF ListTypeOK, CallInv, Chained, Youngest, NodesInv
<1>4. Linked(c)' = started
  BY <1>1, <1>3 DEF Linked, ListTypeOK
<1>5. NodesInv(c)'
  BY <1>1, <1>2 DEF CallInv, NodesInv
<1>6. Chained(Linked(c))'
  <2>1. Older(h, Linked(c)) = started
    BY <1>1, <1>2, <1>3 DEF Older, ListTypeOK
  <2>2. \A a \in started : Older(a, Linked(c)) = Older(a, started)
    BY <1>1, <1>2, <1>3 DEF Older, ListTypeOK
  <2>3. Youngest(next[h], started) /\ \A a \in started : Youngest(next[a], Older(a, started))
    BY <1>2, <2>1, <2>2 DEF CallInv, Chained
  <2> QED BY <1>1, <1>4, <2>3 DEF Chained, Youngest, Older
<1>7. WalkInv(c)'
  BY <1>1, <1>2, ListAssumption DEF WalkInv, CallInv, Chained, Youngest, Older, ListTypeOK
<1> QED BY <1>5, <1>6, <1>7 DEF CallInv

\* The search begins at the head.
LEMMA StopFirstSafe ==
  ASSUME ListTypeOK, NEW c \in Clients, CallInv(c), StopFirst(c)
  PROVE  CallInv(c)'
<1> DEFINE h == client[c].node
<1>1. /\ client'[c] = [pc |-> IF g_head = NULL THEN "free" ELSE "walk", node |-> h,
                       tmp |-> g_head]
      /\ At(c, "first") /\ g_head # h /\ h \in Addr \ started
      /\ UNCHANGED <<g_head, next, timer, count, allocated, started>>
  BY DEF StopFirst, ListTypeOK, CallInv, NodesInv, WalkInv
<1> HIDE DEF h
<1>2. Linked(c)' = Linked(c) /\ Linked(c) \subseteq started \union {h} /\ client[c].node = h
  <2>1. g_head = NULL => Linked(c) = {}
    BY ListAssumption DEF ListTypeOK, CallInv, Chained, Youngest, Linked
  <2> QED BY <1>1, <2>1 DEF Linked, h
<1>3. NodesInv(c)'
  BY <1>1, <1>2 DEF CallInv, NodesInv
<1>4. Chained(Linked(c))'
  BY <1>1, <1>2 DEF CallInv, Chained, Youngest, Older
<1>5. WalkInv(c)'
  <2>1. g_head # NULL => g_head \in started
    BY <1>1, <1>2 DEF CallInv, Chained, Youngest
  <2>2. g_head # NULL /\ h \in Linked(c) => timer[g_head] > timer[h]
    <3>1. h \in Linked(c) => timer[h] <= timer[g_head]
      BY DEF CallInv, Chained, Youngest
    <3>2. g_head # NULL => g_head \in allocated /\ h \in allocated /\ timer[g_head] # timer[h]
      BY <1>1, <1>2, <2>1 DEF ListTypeOK, CallInv, NodesInv
    <3>3. \A a \in allocated : timer[a] \in Nat
      BY DEF ListTypeOK
    <3> QED BY <3>1, <3>2, <3>3
  <2> QED BY <1>1, <1>2, <2>1, <2>2 DEF WalkInv
<1> QED BY <1>3, <1>4, <1>5 DEF CallInv

\* The search goes on to what is older, and never past the node.
LEMMA StopWalkSafe ==
  ASSUME ListTypeOK, NEW c \in Clients, CallInv(c), StopWalk(c), ~ UseAfterFree
  PROVE  CallInv(c)'
<1> DEFINE h == client[c].node
           tmp == client[c].tmp
<1>1. /\ \/ next[tmp] = h /\ client'[c] = [pc |-> "unlink", node |-> h, tmp |-> tmp]
         \/ next[tmp] = NULL /\ client'[c] = [pc |-> "free", node |-> h, tmp |-> NULL]
         \/ /\ next[tmp] # h /\ next[tmp] # NULL
            /\ client'[c] = [pc |-> "walk", node |-> h, tmp |-> next[tmp]]
      /\ At(c, "walk") /\ h \in Addr \ started /\ tmp \in started
      /\ h \in Linked(c) => timer[tmp] > timer[h]
      /\ UNCHANGED <<g_head, next, timer, count, allocated, started>>
  BY DEF StopWalk, ListTypeOK, CallInv, NodesInv, WalkInv
<1> HIDE DEF h, tmp
<1>2. client[c].node = h /\ At(c, "walk") /\ Linked(c) \subseteq started \union {h}
      /\ tmp \in Linked(c)
  BY <1>1 DEF Linked, h
<1>3. Youngest(next[tmp], Older(tmp, Linked(c)))
  BY <1>2 DEF CallInv, Chained
<1>4. h \in Linked(c) => next[tmp] # NULL /\ timer[next[tmp]] >= timer[h]
  <2>1. \A a \in Addr : timer[a] \in Nat
    BY DEF ListTypeOK
  <2>2. h \in Linked(c) => h \in Older(tmp, Linked(c))
    BY <1>1, <2>1 DEF Older, ListTypeOK
  <2>3. h \in Linked(c) => next[tmp] \in Older(tmp, Linked(c)) /\ timer[h] <= timer[next[tmp]]
    BY <1>3, <2>2 DEF Youngest
  <2>4. Older(tmp, Linked(c)) \subseteq Addr
    BY <1>1, <1>2 DEF Older, ListTypeOK
  <2> QED BY <1>1, <2>1, <2>3, <2>4, ListAssumption
<1>5. next[tmp] # NULL => next[tmp] \in Linked(c)
  BY <1>3 DEF Youngest, Older
<1>6. Linked(c)' = Linked(c)
  <2>1. CASE next[tmp] = h
    <3>1. h \in Linked(c)
      BY <1>1, <1>5, <2>1, ListAssumption
    <3> QED BY <1>1, <1>2, <2>1, <3>1, ListAssumption DEF Linked
  <2>2. CASE next[tmp] = NULL
    <3>1. h \notin Linked(c)
      BY <1>4, <2>2
    <3> QED BY <1>1, <1>2, <2>2, <3>1, ListAssumption DEF Linked
  <2>3. CASE next[tmp] # h /\ next[tmp] # NULL
    BY <1>1, <1>2, <2>3 DEF Linked
  <2> QED BY <2>1, <2>2, <2>3
<1>7. NodesInv(c)'
  BY <1>1, <1>2 DEF CallInv, NodesInv
<1>8. Chained(Linked(c))'
  BY <1>1, <1>6 DEF CallInv, Chained, Youngest, Older
<1>9. WalkInv(c)'
  <2>1. next[tmp] # h /\ next[tmp] # NULL /\ h \in Linked(c) => timer[next[tmp]] > timer[h]
    <3> SUFFICES ASSUME next[tmp] # h, next[tmp] # NULL, h \in Linked(c)
                 PROVE  timer[next[tmp]] > timer[h]
      OBVIOUS
    <3>1. next[tmp] \in started
      BY <1>2, <1>5
    <3>2. h \in allocated /\ next[tmp] \in allocated
      BY <1>2, <3>1 DEF CallInv, NodesInv, ListTypeOK
    <3>3. timer[next[tmp]] # timer[h]
      BY <3>2 DEF CallInv, NodesInv
    <3> QED BY <1>4, <3>2, <3>3 DEF ListTypeOK
  <2> QED BY <1>1, <1>2, <1>5, <1>6, <2>1 DEF WalkInv
<1> QED BY <1>7, <1>8, <1>9 DEF CallInv

\* Its neighbour leads to what it led to.
LEMMA StopUnlinkSafe ==
  ASSUME ListTypeOK, NEW c \in Clients, CallInv(c), StopUnlink(c),
         ~ UseAfterFree
  PROVE  CallInv(c)'
<1> DEFINE h == client[c].node
           tmp == client[c].tmp
<1>1. /\ next[tmp] = h /\ next' = [next EXCEPT ![tmp] = next[h]]
      /\ client'[c] = [pc |-> "free", node |-> h, tmp |-> NULL]
      /\ At(c, "unlink") /\ h \in Addr \ started /\ tmp \in started
      /\ UNCHANGED <<g_head, timer, count, allocated, started>>
  BY ListAssumption DEF StopUnlink, ListTypeOK, CallInv, NodesInv, WalkInv
<1> HIDE DEF h, tmp
<1>2. Linked(c) = started \union {h} /\ Linked(c)' = started /\ client[c].node = h
  BY <1>1 DEF Linked, h
<1>3. \A a \in started \union {h} : a \in Addr /\ timer[a] \in Nat
  BY <1>1 DEF ListTypeOK
<1>4. \A a \in started : timer[a] # timer[h]
  BY <1>1, <1>2 DEF CallInv, NodesInv
<1>5. NodesInv(c)'
  BY <1>1, <1>2 DEF CallInv, NodesInv
<1>6. Youngest(h, Older(tmp, started \union {h})) /\ h # NULL
  BY <1>1, <1>2, ListAssumption DEF CallInv, Chained
<1>7. Youngest(next[h], Older(tmp, started))
  <2>1. Older(h, started \union {h}) = Older(tmp, started)
    BY <1>1, <1>3, <1>4, <1>6 DEF Youngest, Older
  <2> QED BY <1>2, <2>1 DEF CallInv, Chained
<1>8. ASSUME NEW a \in started, a # tmp
      PROVE  Youngest(next[a], Older(a, started))
  <2>1. Youngest(next[a], Older(a, started \union {h}))
    BY <1>2 DEF CallInv, Chained
  <2>2. next[a] # h
    <3>1. timer[a] # timer[tmp]
      BY <1>1, <1>8 DEF CallInv, NodesInv, ListTypeOK
    <3> QED BY <1>1, <1>3, <1>4, <1>6, <1>8, <2>1, <3>1 DEF Youngest, Older
  <2> QED BY <1>3, <2>1, <2>2 DEF Youngest, Older
<1>9. Youngest(g_head, started)
  <2>1. Youngest(g_head, started \union {h})
    BY <1>2 DEF CallInv, Chained
  <2>2. g_head # h
    BY <1>1, <1>3, <1>6, <2>1 DEF Youngest, Older
  <2> QED BY <2>1, <2>2 DEF Youngest
<1>10. Chained(Linked(c))'
  BY <1>1, <1>2, <1>3, <1>7, <1>8, <1>9 DEF Chained, Youngest, Older, ListTypeOK
<1>11. WalkInv(c)'
  BY <1>1 DEF WalkInv
<1> QED BY <1>5, <1>10, <1>11 DEF CallInv

\* The node goes back to malloc.
LEMMA StopFreeSafe ==
  ASSUME ListTypeOK, NEW c \in Clients, CallInv(c), StopFree(c)
  PROVE  CallInv(c)'
<1> DEFINE h == client[c].node
<1>1. /\ allocated' = allocated \ {h} /\ next' = [next EXCEPT ![h] = NULL]
      /\ timer' = [timer EXCEPT ![h] = 0] /\ client'[c] = Idle
      /\ At(c, "free") /\ h \in Addr \ started
      /\ UNCHANGED <<g_head, count, started>>
  BY DEF StopFree, ListTypeOK, CallInv, NodesInv
<1> HIDE DEF h
<1>2. /\ Linked(c) = started /\ Linked(c)' = started /\ client[c].node = h
      /\ allocated = started \union {h}
      /\ \A a \in started : next'[a] = next[a] /\ timer'[a] = timer[a]
  BY <1>1 DEF Linked, Idle, h, CallInv, NodesInv, ListTypeOK
<1>3. NodesInv(c)'
  BY <1>1, <1>2 DEF CallInv, NodesInv, Idle
<1>4. Chained(Linked(c))'
  BY <1>1, <1>2 DEF CallInv, Chained, Youngest, Older
<1>5. WalkInv(c)'
  BY <1>1 DEF WalkInv, Idle
<1> QED BY <1>3, <1>4, <1>5 DEF CallInv

\* A step of one call, the others idle, keeps the links; the timer thread keeps them anyway.
LEMMA NextKeepsList ==
  ASSUME ListTypeOK, ListInv, OneAtATime, OneAtATime', [Next]_vars
  PROVE  ListTypeOK' /\ ListInv'
<1>1. ASSUME NEW c \in Clients, StartFails(c)
      PROVE  ListTypeOK' /\ ListInv'
  BY <1>1, StartFailsSafe
<1>2. ASSUME NEW c \in Clients, Call(c) \/ Return(c), ~ UseAfterFree, ~ StartFails(c)
      PROVE  ListTypeOK' /\ ListInv'
  <2>1. /\ \A d \in Clients : d # c => client'[d] = client[d]
        /\ ~ At(c, "idle") \/ ~ At(c, "idle")'
    BY <1>2 DEF Call, Return, Finish, StartAlloc, StartLink, StartInsert, StopClose,
       StopIsHead, StopBehead, StopFirst, StopWalk, StopUnlink, StopFree, ListTypeOK
  <2>2. Alone(c) /\ CallInv(c)
    BY <2>1 DEF OneAtATime, Alone, ListInv
  <2>3. ListTypeOK' /\ CallInv(c)'
    BY <1>2, <2>2, CallType, StartAllocSafe, StartLinkSafe, StartInsertSafe, StopCloseSafe,
       StopIsHeadSafe, StopBeheadSafe, StopFirstSafe, StopWalkSafe, StopUnlinkSafe,
       StopFreeSafe
    DEF Call, Return, Finish
  <2>4. ASSUME NEW d \in Clients, d # c, Alone(d)'
        PROVE  CallInv(d)'
    <3>1. At(c, "idle")' /\ At(d, "idle")'
      BY <2>1, <2>2, <2>4 DEF Alone
    <3>2. Linked(d)' = Linked(c)'
      BY <3>1 DEF Linked
    <3> QED BY <2>3, <3>1, <3>2 DEF CallInv, NodesInv, Chained, WalkInv
  <2> QED BY <2>3, <2>4 DEF ListInv
<1>3. ASSUME UseAfterFree \/ Timers \/ (\E f \in Fds : Clock(f)) \/ Gone \/ UNCHANGED vars
      PROVE  ListTypeOK' /\ ListInv'
  <2>1. UNCHANGED <<g_head, next, timer, count, allocated, started, client>>
    BY <1>3 DEF UseAfterFree, Timers, TimerThread, PollHead, PollScan, PollPoll, PollNext,
       PollRead, PollGet, PollLookup, PollCall, Shared, Clock, Expire, Gone, vars
  <2> QED BY <2>1, OthersKeep
<1> QED BY <1>1, <1>2, <1>3 DEF Next

\* While the calls are made one at a time the links are right between any two
\* steps of a call.
THEOREM ListCorrect == Spec /\ []OneAtATime => [](ListTypeOK /\ ListInv)
<1>1. Init => ListTypeOK /\ ListInv
  BY InitList
<1>2. ListTypeOK /\ ListInv /\ OneAtATime /\ OneAtATime' /\ [Next]_vars
        => ListTypeOK' /\ ListInv'
  BY NextKeepsList
<1> QED BY <1>1, <1>2, PTL DEF Spec

\* The nodes timer_stop reads and writes on its way are timers still started.
StopStaysInList ==
  \A c \in Clients : client[c].pc \in {"walk", "unlink"} => client[c].tmp \in started

\* timer_stop never follows a link out of a node that has been freed, nor writes
\* one: with one call at a time the only reader of freed nodes is the timer thread.
THEOREM StopReadsStarted == Spec /\ []OneAtATime => []StopStaysInList
<1>1. ListTypeOK /\ ListInv /\ OneAtATime => StopStaysInList
  BY DEF ListInv, OneAtATime, CallInv, WalkInv, StopStaysInList
<1> QED BY <1>1, ListCorrect, PTL

-----------------------------------------------------------------------------
(* Following the links from g_head.                                        *)

\* The minimum of a set of numbers exists.
LEMMA SmallestOf ==
  ASSUME NEW S, S \subseteq Nat, S # {}
  PROVE  \E m \in S : \A k \in S : m <= k
<1>1. PICK m \in S : \A k \in S : <<k, m>> \notin OpToRel(<, Nat)
  BY NatLessThanWellFounded, WFMin
<1>2. \A k \in S : ~ (k < m)
  BY <1>1 DEF OpToRel
<1>3. m \in Nat /\ \A k \in S : k \in Nat
  OBVIOUS
<1> QED BY <1>2, <1>3

Steps == 0 .. Cardinality(Addr)

\* What follows a node, or the end of the list.
After(a) == IF a = NULL THEN NULL ELSE next[a]

\* The links can be followed as far as the recursion of Chain goes.
LEMMA ChainExists ==
  ASSUME IsFiniteSet(Addr)
  PROVE  \E f : f = [n \in Steps |-> IF n = 0 THEN g_head ELSE After(f[n - 1])]
<1> DEFINE N == Cardinality(Addr)
           Upto(m, f) == f = [n \in 0 .. m |-> IF n = 0 THEN g_head ELSE After(f[n - 1])]
           Short == {m \in Nat : ~ \E f : Upto(m, f)}
<1>1. N \in Nat
  BY FS_CardinalityType
<1>2. Short = {}
  <2>1. SUFFICES ASSUME Short # {} PROVE FALSE
    OBVIOUS
  <2>2. PICK m \in Short : \A k \in Short : m <= k
    BY <2>1, SmallestOf
  <2>3. m # 0
    <3> DEFINE f == [n \in 0 .. 0 |-> g_head]
    <3>1. f = [n \in 0 .. 0 |-> IF n = 0 THEN g_head ELSE After(f[n - 1])]
      OBVIOUS
    <3> QED BY <3>1
  <2>4. m - 1 \in Nat /\ m - 1 \notin Short /\ m \in Nat
    <3>1. m \in Nat
      BY <2>2
    <3> HIDE DEF Short
    <3> QED BY <2>2, <2>3, <3>1
  <2>5. PICK f : Upto(m - 1, f)
    BY <2>4
  <2> DEFINE g == [n \in 0 .. m |-> IF n = m THEN After(f[m - 1]) ELSE f[n]]
  <2>6. \A n \in 0 .. m - 1 : f[n] = IF n = 0 THEN g_head ELSE After(f[n - 1])
    BY <2>5
  <2>7. \A n \in 0 .. m : g[n] = IF n = 0 THEN g_head ELSE After(g[n - 1])
    <3> SUFFICES ASSUME NEW n \in 0 .. m
                 PROVE  g[n] = IF n = 0 THEN g_head ELSE After(g[n - 1])
      OBVIOUS
    <3>1. CASE n = m
      BY <2>3, <2>4, <3>1
    <3>2. CASE n # m
      BY <2>3, <2>4, <2>6, <3>2
    <3> QED BY <3>1, <3>2
  <2>8. g = [n \in 0 .. m |-> IF n = 0 THEN g_head ELSE After(g[n - 1])]
    BY <2>7
  <2>9. \E h : Upto(m, h)
    <3> HIDE DEF g
    <3> QED BY <2>8
  <2> QED BY <2>2, <2>9
<1> QED BY <1>1, <1>2 DEF Steps

\* What the recursion of Chain says of it.
LEMMA ChainSteps ==
  ASSUME IsFiniteSet(Addr)
  PROVE  /\ DOMAIN Chain = Steps
         /\ Chain[0] = g_head
         /\ \A n \in Steps : n # 0 => Chain[n] = After(Chain[n - 1])
<1>1. Cardinality(Addr) \in Nat
  BY FS_CardinalityType
<1>2. PICK f : f = [n \in Steps |-> IF n = 0 THEN g_head ELSE After(f[n - 1])]
  BY ChainExists
<1>3. Chain = [n \in Steps |-> IF n = 0 THEN g_head ELSE After(Chain[n - 1])]
  BY <1>2 DEF Chain, After, Steps
<1> QED BY <1>1, <1>3 DEF Steps

\* Where the links lead when they are right: to the timers started, one after
\* the other, the youngest first.
LEMMA ChainOfStarted ==
  ASSUME IsFiniteSet(Addr), ListTypeOK, Chained(started),
         \A a, b \in started : a # b => timer[a] # timer[b]
  PROVE  /\ Listed = started /\ Ends
         /\ \A m, n \in DOMAIN Chain :
              m < n /\ Chain[n] # NULL => timer[Chain[m]] > timer[Chain[n]]
<1> DEFINE N == Cardinality(Addr)
<1>1. N \in Nat /\ Steps = 0 .. N
  BY FS_CardinalityType DEF Steps
<1>2. /\ DOMAIN Chain = Steps /\ Chain[0] = g_head
      /\ \A n \in Steps : n # 0 => Chain[n] = After(Chain[n - 1])
  BY ChainSteps
<1>3. \A a \in started : a \in Addr /\ a # NULL /\ timer[a] \in Nat
  BY ListAssumption DEF ListTypeOK
<1> HIDE DEF N
\* It leads nowhere else.
<1>4. \A n \in Steps : Chain[n] \in started \union {NULL}
  <2> DEFINE Bad == {n \in Steps : Chain[n] \notin started \union {NULL}}
  <2>1. SUFFICES ASSUME Bad # {} PROVE FALSE
    OBVIOUS
  <2>2. Bad \subseteq Nat
    BY <1>1
  <2>3. PICK n \in Bad : \A k \in Bad : n <= k
    BY <2>1, <2>2, SmallestOf
  <2>4. n # 0
    BY <1>2 DEF Chained, Youngest
  <2>5. n - 1 \in Steps /\ n - 1 \notin Bad /\ n \in Steps
    <3>1. n \in Steps
      OBVIOUS
    <3> HIDE DEF Bad
    <3> QED BY <1>1, <2>3, <2>4, <3>1
  <2>6. Chain[n] = After(Chain[n - 1]) /\ Chain[n - 1] \in started \union {NULL}
    BY <1>2, <2>4, <2>5
  <2> QED BY <1>3, <2>3, <2>6 DEF After, Chained, Youngest, Older
\* Each link leads to an older one.
<1>5. ASSUME NEW n \in Steps, n # 0, Chain[n] # NULL
      PROVE  /\ n - 1 \in Steps /\ Chain[n - 1] \in started /\ Chain[n] \in started
             /\ Youngest(Chain[n], Older(Chain[n - 1], started))
             /\ timer[Chain[n]] < timer[Chain[n - 1]]
  <2>1. n - 1 \in Steps /\ Chain[n] = After(Chain[n - 1])
    BY <1>1, <1>2, <1>5
  <2>2. Chain[n - 1] \in started /\ Chain[n] = next[Chain[n - 1]] /\ Chain[n] \in started
    BY <1>4, <1>5, <2>1 DEF After
  <2> QED BY <1>3, <1>5, <2>1, <2>2 DEF Chained, Youngest, Older
<1>6. \A m, n \in Steps : m < n /\ Chain[n] # NULL => timer[Chain[m]] > timer[Chain[n]]
                                                /\ Chain[m] \in started
  <2> SUFFICES ASSUME NEW m \in Steps
               PROVE  \A n \in Steps : m < n /\ Chain[n] # NULL =>
                        timer[Chain[m]] > timer[Chain[n]] /\ Chain[m] \in started
    OBVIOUS
  <2> DEFINE Bad == {n \in Steps : m < n /\ Chain[n] # NULL
                       /\ ~ (timer[Chain[m]] > timer[Chain[n]] /\ Chain[m] \in started)}
  <2>1. SUFFICES ASSUME Bad # {} PROVE FALSE
    OBVIOUS
  <2>2. Bad \subseteq Nat
    BY <1>1
  <2>3. PICK n \in Bad : \A k \in Bad : n <= k
    BY <2>1, <2>2, SmallestOf
  <2>4. n \in Steps /\ m < n /\ Chain[n] # NULL /\ n # 0
    BY <1>1
  <2>5. /\ n - 1 \in Steps /\ Chain[n - 1] \in started /\ Chain[n] \in started
        /\ timer[Chain[n]] < timer[Chain[n - 1]]
    BY <1>5, <2>4
  <2>6. CASE m = n - 1
    BY <1>3, <2>3, <2>5, <2>6
  <2>7. CASE m # n - 1
    <3>1. n - 1 \notin Bad
      <4> HIDE DEF Bad
      <4> QED BY <1>1, <2>3, <2>4
    <3>2. m < n - 1
      BY <1>1, <2>4, <2>7
    <3>3. timer[Chain[m]] > timer[Chain[n - 1]] /\ Chain[m] \in started
      BY <1>3, <2>5, <3>1, <3>2
    <3> QED BY <1>3, <2>3, <2>5, <3>3
  <2> QED BY <2>6, <2>7
\* There are not enough nodes for a list that does not end.
<1>7. Chain[N] = NULL
  <2> SUFFICES ASSUME Chain[N] # NULL PROVE FALSE
    OBVIOUS
  <2>1. N \in Steps
    BY <1>1
  <2>2. \A n \in Steps : Chain[n] \in started
    BY <1>1, <1>4, <1>6, <2>1
  <2>3. \A m, n \in Steps : m # n => Chain[m] # Chain[n]
    <3> SUFFICES ASSUME NEW m \in Steps, NEW n \in Steps, m < n
                 PROVE  Chain[m] # Chain[n]
      BY <1>1
    <3> QED BY <1>3, <1>6, <2>2
  <2> DEFINE f == [n \in Steps |-> Chain[n]]
  <2>4. f \in [Steps -> Addr]
    BY <1>3, <2>2
  <2>5. IsFiniteSet(Steps) /\ Cardinality(Steps) = N + 1
    BY <1>1, FS_Interval
  <2>6. Cardinality(Addr) < Cardinality(Steps)
    BY <1>1, <2>5 DEF N
  <2>7. PICK m, n \in Steps : m # n /\ f[m] = f[n]
    <3> HIDE DEF f
    <3> QED BY <2>4, <2>5, <2>6, FS_PigeonHole
  <2> QED BY <2>3, <2>7
\* No node is passed over.
<1>8. ASSUME NEW b \in started
      PROVE  \E n \in Steps : Chain[n] = b
  <2> DEFINE Past == {n \in Steps : Chain[n] = NULL \/ timer[Chain[n]] < timer[b]}
  <2>1. N \in Past /\ Past \subseteq Nat
    BY <1>1, <1>7
  <2>2. PICK n \in Past : \A k \in Past : n <= k
    BY <2>1, SmallestOf
  <2>3. g_head \in started /\ timer[b] <= timer[g_head]
    BY <1>8 DEF Chained, Youngest
  <2>4. n # 0
    BY <1>2, <1>3, <1>8, <2>3
  <2>5. n \in Steps /\ n - 1 \in Steps /\ n - 1 \notin Past
    <3>1. n \in Steps
      OBVIOUS
    <3> HIDE DEF Past
    <3> QED BY <1>1, <2>2, <2>4, <3>1
  <2>6. Chain[n - 1] \in started /\ ~ (timer[Chain[n - 1]] < timer[b])
    BY <1>4, <2>5
  <2>7. CASE Chain[n - 1] = b
    BY <2>5, <2>7
  <2>8. CASE Chain[n - 1] # b
    <3>1. timer[b] < timer[Chain[n - 1]]
      BY <1>3, <1>8, <2>6, <2>8
    <3>2. Youngest(next[Chain[n - 1]], Older(Chain[n - 1], started))
      BY <2>6 DEF Chained
    <3>3. b \in Older(Chain[n - 1], started)
      BY <3>1, <1>8 DEF Older
    <3>4. /\ next[Chain[n - 1]] \in started
          /\ timer[b] <= timer[next[Chain[n - 1]]]
      BY <3>2, <3>3 DEF Youngest, Older
    <3>5. Chain[n] = next[Chain[n - 1]]
      BY <1>2, <1>3, <2>4, <2>5, <2>6 DEF After
    <3> QED BY <1>3, <1>8, <2>2, <3>4, <3>5
  <2> QED BY <2>7, <2>8
<1>9. Listed = started
  BY <1>2, <1>3, <1>4, <1>8 DEF Listed
<1> QED BY <1>2, <1>6, <1>7, <1>9 DEF Ends, N

\* Between two calls, made one at a time, the list holds the timers started and
\* not stopped, youngest first: however many threads make them, however many
\* timers there are and whatever the timer thread does.
THEOREM ListHoldsStarted ==
  ASSUME IsFiniteSet(Addr), Clients # {}
  PROVE  Spec /\ []OneAtATime => []ListIsStarted
<1>1. ListTypeOK /\ ListInv => ListIsStarted
  <2> SUFFICES ASSUME ListTypeOK, ListInv, AtRest PROVE ListIsStarted
    BY DEF ListIsStarted
  <2>1. PICK c \in Clients : CallInv(c) /\ At(c, "idle")
    BY DEF ListInv, Alone, AtRest
  <2>2. /\ allocated = started /\ Chained(started)
        /\ \A a, b \in started : a # b => timer[a] # timer[b]
    BY <2>1 DEF CallInv, NodesInv, Linked
  <2> QED BY <2>2, ChainOfStarted DEF ListIsStarted
<1> QED BY <1>1, ListCorrect, PTL

\* One thread that makes the calls, as timer_list checks it: it waits for nobody.
THEOREM OneCaller ==
  ASSUME IsFiniteSet(Addr), NEW c, Clients = {c}
  PROVE  Spec => []ListIsStarted
<1>1. OneAtATime
  BY DEF OneAtATime, Alone
<1>2. Spec /\ []OneAtATime => []ListIsStarted
  BY ListHoldsStarted
<1> QED BY <1>1, <1>2, PTL

=============================================================================
