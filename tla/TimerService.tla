---------------------------- MODULE TimerService ----------------------------
(***************************************************************************)
(* The one-shot timers of ai-hand-char-reco-launcher/timer.c, one call at  *)
(* a time.  A timer is a heap node; the handle the caller keeps is the     *)
(* node's address, so a handle outlives its node and the allocator may     *)
(* give the address to another timer.  The state is one function node from *)
(* addresses to nodes, owned by the module that extends this one; the      *)
(* operators below map its value before a call to its value after it.      *)
(* The statements inside a call are the subject of TimerList.              *)
(***************************************************************************)
EXTENDS Naturals, FiniteSets

CONSTANTS Addr,  \* the heap addresses malloc can return for a timer_node
          NULL   \* timer_start's failure value and the unset handle

ASSUME NullIsNoAddress == NULL \notin Addr

\* Who armed a timer, hence its callback and its interval: 500 ms for the end
\* of a drawing ("touch") and for an unanswered request ("rpmsg"), 2000 ms for
\* the displayed letter ("gtk").
TimerKinds == {"touch", "rpmsg", "gtk"}

\* st     free: not allocated; armed: the timerfd runs; expired: it is readable;
\*        fired: the timer thread has read it and called the callback
\* req    the request an "rpmsg" timer guards
\* older  the nodes behind this one in the g_head list, which grows at its head
FreeNode == [st |-> "free", kind |-> "none", req |-> 0, older |-> {}]

Nodes == {FreeNode} \union
           [st : {"armed", "expired", "fired"}, kind : TimerKinds, req : Nat,
            older : SUBSET Addr]

Live(n) == {a \in Addr : n[a].st # "free"}

\* malloc: any free address, failure when there is none.
Alloc(n) == IF Live(n) = Addr THEN {NULL} ELSE Addr \ Live(n)

\* timer_start: the new node becomes the head of the list.
Started(n, a, kind, req) ==
  IF a = NULL THEN n
  ELSE [n EXCEPT ![a] = [st |-> "armed", kind |-> kind, req |-> req, older |-> Live(n)]]

\* Mutation of Stopped: the timer goes on.
StoppedNot(n, h) == n

\* timer_stop: NULL is accepted, any other handle is closed, unlinked and freed.
Stopped(n, h) ==
  IF h = NULL THEN n
  ELSE [b \in Addr |-> IF b = h THEN FreeNode
                       ELSE [n[b] EXCEPT !.older = @ \ {h}]]

\* timer_stop on a handle whose node was already freed: the second free of the
\* chunk, which the allocator answers by aborting the process.
StaleHandle(n, h) == h # NULL /\ n[h].st = "free"

\* The clock: of two timers, the one started first expires first unless its
\* interval is the longer one.
Expirable(n, a) ==
  /\ n[a].st = "armed"
  /\ \A b \in n[a].older :
       n[b].st = "armed" => n[b].kind = "gtk" /\ n[a].kind # "gtk"

Expired(n, a) == [n EXCEPT ![a].st = "expired"]

\* Mutation of Fired: the timer is periodic.
FiredPeriodic(n, a) == [n EXCEPT ![a].st = "armed"]

\* The timer thread's read() of the descriptor: a one-shot timer is readable
\* once, and its node stays in the list until somebody stops it.
Fired(n, a) == [n EXCEPT ![a].st = "fired"]

\* timer_finalize: while (g_head) timer_stop(g_head).
Finalized(n) == [a \in Addr |-> FreeNode]
=============================================================================
