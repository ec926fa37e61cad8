------------------------------ MODULE TimerList ------------------------------
(***************************************************************************)
(* ai-hand-char-reco-launcher/timer.c, one access to shared memory at a    *)
(* time: the g_head list that timer_start and timer_stop change in the     *)
(* threads that call them, with no lock, and that the timer thread walks.  *)
(* TimerService is the same code with each call atomic.                    *)
(***************************************************************************)
EXTENDS Naturals, FiniteSets

CONSTANTS Clients,   \* the threads that may be inside timer_start or timer_stop
          Addr,      \* heap addresses
          NULL,
          MaxStarts  \* bound: the number of timer_start calls of a behaviour

ASSUME ListAssumption == NULL \notin Addr /\ MaxStarts \in Nat

VARIABLES g_head, next, fd, \* the list; the members of the nodes
          allocated,  \* the addresses malloc has handed out
          tfd,        \* the kernel's timerfds, by descriptor
          client,     \* where each client is in a call, and its locals
          poller,     \* where the timer thread is, and its locals
          count,      \* the number of timer_start calls; their timers are numbered from 0
          timer,      \* the number of the timer at each address
          started,    \* the handles timer_start returned, timer_stop not yet called
          called,     \* the timers whose callback was called
          status      \* "running", or "use_after_free"

vars == <<g_head, next, fd, allocated, tfd, client, poller, count, timer, started, called,
          status>>

\* Descriptors are numbered from 0, the lowest free one is used.  At most one
\* more than there are nodes is ever open.
Fds == 0 .. Cardinality(Addr)

\* A descriptor is closed, or belongs to timer number id, which is armed, ready
\* (expired and readable) or spent (read).
Closed == [st |-> "closed", id |-> 0]
Idle == [pc |-> "idle", node |-> NULL, tmp |-> NULL]
Loop == [pc |-> "scan", tmp |-> NULL, ufds |-> {}, fd |-> 0]

Init ==
  /\ g_head = NULL
  /\ next = [a \in Addr |-> NULL] /\ fd = [a \in Addr |-> 0]
  /\ allocated = {}
  /\ tfd = [f \in Fds |-> Closed]
  /\ client = [c \in Clients |-> Idle]
  /\ poller = [Loop EXCEPT !.pc = "head"]
  /\ count = 0 /\ timer = [a \in Addr |-> 0]
  /\ started = {} /\ called = {}
  /\ status = "running"

At(c, pc) == client[c].pc = pc

\* The members a node holds once timer_start has filled it; those of a freed
\* node, or of one malloc has just handed out, are not looked at: reading or
\* writing them is undefined behaviour, where the model stops.
Sound(a) == a \in allocated /\ ~ \E c \in Clients : At(c, "link") /\ client[c].node = a

UseAfterFree ==
  /\ status' = "use_after_free"
  /\ UNCHANGED <<g_head, next, fd, allocated, tfd, client, poller, count, timer, started,
                 called>>

Step(c, pc, node, tmp) ==
  client' = [client EXCEPT ![c] = [pc |-> pc, node |-> node, tmp |-> tmp]]

-----------------------------------------------------------------------------
(* timer_start *)

\* malloc, timerfd_create and timerfd_settime; nobody else sees the node yet.
StartAlloc(c) ==
  /\ At(c, "idle") /\ count < MaxStarts
  /\ \E a \in Addr \ allocated, f \in Fds :
       /\ tfd[f] = Closed /\ \A g \in Fds : g < f => tfd[g] # Closed
       /\ allocated' = allocated \union {a}
       /\ fd' = [fd EXCEPT ![a] = f]
       /\ tfd' = [tfd EXCEPT ![f] = [st |-> "armed", id |-> count]]
       /\ timer' = [timer EXCEPT ![a] = count]
       /\ Step(c, "link", a, NULL)
  /\ count' = count + 1
  /\ UNCHANGED <<g_head, next, poller, started, called, status>>

\* malloc or timerfd_create fails: 0 is returned, no node is kept.
StartFails(c) ==
  /\ At(c, "idle") /\ count < MaxStarts
  /\ count' = count + 1
  /\ UNCHANGED <<g_head, next, fd, allocated, tfd, client, poller, timer, started, called, status>>

\* new_node->next = g_head
StartLink(c) ==
  /\ At(c, "link")
  /\ next' = [next EXCEPT ![client[c].node] = g_head]
  /\ Step(c, "insert", client[c].node, NULL)
  /\ UNCHANGED <<g_head, fd, allocated, tfd, poller, count, timer, started, called, status>>

\* g_head = new_node
StartInsert(c) ==
  /\ At(c, "insert")
  /\ g_head' = client[c].node
  /\ started' = started \union {client[c].node}
  /\ client' = [client EXCEPT ![c] = Idle]
  /\ UNCHANGED <<next, fd, allocated, tfd, poller, count, timer, called, status>>

-----------------------------------------------------------------------------
(* timer_stop *)

\* close(node->fd)
StopClose(c) ==
  /\ At(c, "idle")
  /\ \E h \in started :
       /\ started' = started \ {h}
       /\ tfd' = [tfd EXCEPT ![fd[h]] = Closed]
       /\ Step(c, "is_head", h, NULL)
  /\ UNCHANGED <<g_head, next, fd, allocated, poller, count, timer, called, status>>

\* if (node == g_head), then g_head->next is loaded
StopIsHead(c) ==
  /\ At(c, "is_head")
  /\ LET node == client[c].node IN
     IF node = g_head THEN Step(c, "behead", node, next[node])
     ELSE Step(c, "first", node, NULL)
  /\ UNCHANGED <<g_head, next, fd, allocated, tfd, poller, count, timer, started, called,
                 status>>

\* and stored: g_head = g_head->next
StopBehead(c) ==
  /\ At(c, "behead")
  /\ g_head' = client[c].tmp
  /\ Step(c, "first", client[c].node, NULL)
  /\ UNCHANGED <<next, fd, allocated, tfd, poller, count, timer, started, called, status>>

\* Mutation of StopFirst: the loop looks behind the first node only.
StopFirstOnly(c) ==
  /\ At(c, "first")
  /\ Step(c, "free", client[c].node, NULL)
  /\ UNCHANGED <<g_head, next, fd, allocated, tfd, poller, count, timer, started, called,
                 status>>

\* tmp = g_head
StopFirst(c) ==
  /\ At(c, "first")
  /\ Step(c, IF g_head = NULL THEN "free" ELSE "walk", client[c].node, g_head)
  /\ UNCHANGED <<g_head, next, fd, allocated, tfd, poller, count, timer, started, called,
                 status>>

\* while (tmp && tmp->next != node) tmp = tmp->next, one node
StopWalk(c) ==
  /\ At(c, "walk")
  /\ LET node == client[c].node  tmp == client[c].tmp IN
     IF ~ Sound(tmp) THEN UseAfterFree
     ELSE /\ IF next[tmp] = node THEN Step(c, "unlink", node, tmp)
             ELSE IF next[tmp] = NULL THEN Step(c, "free", node, NULL)
             ELSE Step(c, "walk", node, next[tmp])
          /\ UNCHANGED <<g_head, next, fd, allocated, tfd, poller, count, timer, started,
                         called,
                         status>>

\* tmp->next = tmp->next->next
StopUnlink(c) ==
  /\ At(c, "unlink")
  /\ LET node == client[c].node  tmp == client[c].tmp IN
     IF ~ Sound(tmp) \/ (next[tmp] # NULL /\ ~ Sound(next[tmp]))
     THEN UseAfterFree
     ELSE /\ next' = IF next[tmp] = NULL THEN next
                     ELSE [next EXCEPT ![tmp] = next[next[tmp]]]
          /\ Step(c, "free", node, NULL)
          /\ UNCHANGED <<g_head, fd, allocated, tfd, poller, count, timer, started, called,
                         status>>

\* free(node); its members are gone.
StopFree(c) ==
  /\ At(c, "free")
  /\ LET node == client[c].node IN
     /\ allocated' = allocated \ {node}
     /\ next' = [next EXCEPT ![node] = NULL]
     /\ fd' = [fd EXCEPT ![node] = 0]
     /\ timer' = [timer EXCEPT ![node] = 0]
  /\ client' = [client EXCEPT ![c] = Idle]
  /\ UNCHANGED <<g_head, tfd, poller, count, started, called, status>>

\* The rest of a call that was begun.
Finish(c) ==
  \/ StartLink(c) \/ StartInsert(c)
  \/ StopIsHead(c) \/ StopBehead(c) \/ StopFirst(c) \/ StopWalk(c) \/ StopUnlink(c)
  \/ StopFree(c)

-----------------------------------------------------------------------------
(* _timer_thread *)

Poll(pc, tmp, ufds, f) == poller' = [pc |-> pc, tmp |-> tmp, ufds |-> ufds, fd |-> f]
Shared == <<g_head, next, fd, allocated, client, count, timer, started, status>>

\* tmp = g_head, for the scan
PollHead ==
  /\ poller.pc = "head"
  /\ Poll(IF g_head = NULL THEN "head" ELSE "scan", g_head, {}, 0)
  /\ UNCHANGED <<Shared, tfd, called>>

\* One node of the scan.
PollScan ==
  /\ poller.pc = "scan"
  /\ IF ~ Sound(poller.tmp) THEN UseAfterFree
     ELSE /\ LET ufds == poller.ufds \union {fd[poller.tmp]} IN
             IF next[poller.tmp] = NULL THEN Poll("poll", NULL, ufds, 0)
             ELSE Poll("scan", next[poller.tmp], ufds, 0)
          /\ UNCHANGED <<Shared, tfd, called>>

\* poll(ufds, iMaxCount, 100): the ready ones are kept; none, the next turn.
PollPoll ==
  /\ poller.pc = "poll"
  /\ LET ready == {f \in poller.ufds : tfd[f].st = "ready"} IN
     Poll(IF ready = {} THEN "head" ELSE "next", NULL, ready, 0)
  /\ UNCHANGED <<Shared, tfd, called>>

\* The next ready descriptor, whatever has become of it since the poll.
PollNext ==
  /\ poller.pc = "next"
  /\ \/ poller.ufds = {} /\ Poll("head", NULL, {}, 0)
     \/ \E f \in poller.ufds : Poll("read", NULL, poller.ufds \ {f}, f)
  /\ UNCHANGED <<Shared, tfd, called>>

\* Mutation of PollRead: the size read() returns is tested the wrong way round.
PollReadSkip ==
  /\ poller.pc = "read"
  /\ tfd[poller.fd].st \in {"closed", "ready"}
  /\ tfd' = [tfd EXCEPT ![poller.fd].st = IF @ = "ready" THEN "spent" ELSE @]
  /\ Poll("next", NULL, poller.ufds, 0)
  /\ UNCHANGED <<Shared, called>>

\* read(): fails on a descriptor closed meanwhile, blocks on one that was
\* closed and given to a timer that has not expired yet.
PollRead ==
  /\ poller.pc = "read"
  /\ \/ /\ tfd[poller.fd] = Closed
        /\ Poll("next", NULL, poller.ufds, 0)
        /\ UNCHANGED tfd
     \/ /\ tfd[poller.fd].st = "ready"
        /\ tfd' = [tfd EXCEPT ![poller.fd].st = "spent"]
        /\ Poll("get", NULL, poller.ufds, poller.fd)
  /\ UNCHANGED <<Shared, called>>

\* tmp = g_head, for _get_timer_from_fd
PollGet ==
  /\ poller.pc = "get"
  /\ Poll("lookup", g_head, poller.ufds, poller.fd)
  /\ UNCHANGED <<Shared, tfd, called>>

\* One node of _get_timer_from_fd.
PollLookup ==
  /\ poller.pc = "lookup"
  /\ IF poller.tmp = NULL
     THEN Poll("next", NULL, poller.ufds, 0) /\ UNCHANGED <<Shared, tfd, called>>
     ELSE IF ~ Sound(poller.tmp) THEN UseAfterFree
     ELSE /\ IF fd[poller.tmp] = poller.fd THEN Poll("call", poller.tmp, poller.ufds, poller.fd)
             ELSE Poll("lookup", next[poller.tmp], poller.ufds, poller.fd)
          /\ UNCHANGED <<Shared, tfd, called>>

\* tmp->callback((size_t)tmp, tmp->user_data)
PollCall ==
  /\ poller.pc = "call"
  /\ IF ~ Sound(poller.tmp) THEN UseAfterFree
     ELSE /\ called' = called \union {timer[poller.tmp]}
          /\ Poll("next", NULL, poller.ufds, 0)
          /\ UNCHANGED <<Shared, tfd>>

TimerThread ==
  PollHead \/ PollScan \/ PollPoll \/ PollNext \/ PollRead \/ PollGet \/ PollLookup \/ PollCall

-----------------------------------------------------------------------------
\* A timer's interval is much longer than the rest of the call that starts it.
Expire(f) ==
  /\ tfd[f].st = "armed"
  /\ ~ \E c \in Clients :
         client[c].pc \in {"link", "insert"} /\ timer[client[c].node] = tfd[f].id
  /\ tfd' = [tfd EXCEPT ![f].st = "ready"]
  /\ UNCHANGED <<Shared, poller, called>>

Running == status = "running"
Call(c)   == Running /\ (StartAlloc(c) \/ StartFails(c) \/ StopClose(c))
Return(c) == Running /\ Finish(c)
Timers    == Running /\ TimerThread
Clock(f)  == Running /\ Expire(f)
Gone      == ~ Running /\ UNCHANGED vars

Next ==
  \/ \E c \in Clients : Call(c) \/ Return(c)
  \/ Timers
  \/ \E f \in Fds : Clock(f)
  \/ Gone

Spec == Init /\ [][Next]_vars

\* Calls return, the timer thread gets the CPU, time passes; nobody has to
\* start or stop a timer.
FairSpec ==
  /\ Spec
  /\ \A c \in Clients : WF_vars(Return(c))
  /\ WF_vars(Timers)
  /\ \A f \in Fds : WF_vars(Clock(f))

-----------------------------------------------------------------------------
(* Properties. *)

\* The nodes g_head leads to, and whether the chain ends.
Chain ==
  LET after[n \in 0 .. Cardinality(Addr)] ==
        IF n = 0 THEN g_head
        ELSE IF after[n - 1] = NULL THEN NULL ELSE next[after[n - 1]]
  IN after
Listed == {Chain[n] : n \in DOMAIN Chain} \ {NULL}
Ends == Chain[Cardinality(Addr)] = NULL

AtRest == \A c \in Clients : At(c, "idle")

\* Between two calls the list holds the timers started and not stopped, the
\* youngest first, and nothing else: every node timer_start inserted is there,
\* every node timer_stop freed is gone.
ListIsStarted ==
  Running /\ AtRest =>
    /\ Listed = started /\ Ends /\ allocated = started
    /\ \A m, n \in DOMAIN Chain :
         m < n /\ Chain[n] # NULL => timer[Chain[m]] > timer[Chain[n]]

\* A timer that nobody stops is called back, whatever becomes of the other
\* timers and of their descriptors' numbers; or a freed node has been used.
Fires ==
  \A n \in 0 .. MaxStarts - 1 :
    (\E h \in started : timer[h] = n)
      ~> (n \in called \/ ~ Running \/ ~ \E h \in started : timer[h] = n)

\* timer_start has inserted the timer into the list.
StartedIsListed == Running /\ AtRest => started \subseteq Listed
=============================================================================
