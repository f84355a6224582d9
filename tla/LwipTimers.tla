----------------------------- MODULE LwipTimers -----------------------------
(***************************************************************************)
(* lwIP's one timeout list (core/timers.c), which two tasks serve: the     *)
(* tcpip thread while it waits for a message (sys_timeouts_mbox_fetch,     *)
(* priority 1) and the network task (lwip_timeout_poll, called from        *)
(* lwip_periodic_handle, priority 3).  There is no lock; the only ordering *)
(* is that of the priorities: the network task preempts the tcpip thread   *)
(* anywhere and is not preempted by it.                                    *)
(*                                                                         *)
(* The list is one of deltas: the time of a node counts from the node      *)
(* before it.  Its nodes come from a pool (memp.c) that is itself a list.  *)
(* A timer is a handler that sets itself again when it has run; what else  *)
(* the handler does is left out.  Time is in ticks of one millisecond.     *)
(***************************************************************************)
EXTENDS Integers, Sequences, FiniteSets

CONSTANTS
  Timers,    \* the cyclic timers: ip_reass_timer, arp_timer, dhcp_timer_fine, ..
  Period,    \* their periods
  InitOrder, \* the order sys_timeouts_init sets them in
  Nodes,     \* the pool MEMP_SYS_TIMEOUT
  Null,
  Word,      \* 2^32: times are u32_t
  MaxLag,    \* bound: ticks the network task may be behind
  MaxMsgs    \* bound: messages to the tcpip thread

Tasks == {"tcpip", "network"}

\* sys_timeouts_init sets every timer once, and the pool has a node for each
\* (MEMP_NUM_SYS_TIMEOUT); periods and the lag fit u32_t.
ASSUME TimersAssumption ==
  /\ IsFiniteSet(Timers) /\ Timers # {} /\ Period \in [Timers -> 1..(Word - 1)]
  /\ InitOrder \in Seq(Timers)
  /\ \A x \in Timers : \E i \in 1..Len(InitOrder) : InitOrder[i] = x
  /\ \A i, j \in 1..Len(InitOrder) : InitOrder[i] = InitOrder[j] => i = j
  /\ IsFiniteSet(Nodes) /\ Cardinality(Timers) <= Cardinality(Nodes) /\ Null \notin Nodes
  /\ Word \in Nat \ {0} /\ MaxLag \in 0..(Word - 1) /\ MaxMsgs \in Nat

VARIABLES
  next_timeout, node,   \* the list: node[n] has next, h (its timer) and time
  memp_tab, memp_next,  \* the pool's free nodes
  todo,                 \* timers that sys_timeouts_init has still to set
  where, h,             \* of a task: where it is, its timer
  tmp, new, t,          \* and its nodes
  left, waited,         \* of the wait for a message: ticks to go, ticks gone
  lag, diff,            \* sys_now() - timeouts_last_time; its copy in the poll
  msgs,                 \* messages so far
  due,                  \* history: ticks until a timer that was set is to run
  torn                  \* history: the poll has met a half-made change

list == <<next_timeout, node>>
pool == <<memp_tab, memp_next>>
wait == <<left, waited, msgs>>
hist == <<due, torn>>
timersvars == <<list, pool, todo, where, h, tmp, new, t, wait, lag, diff, hist>>

MaxOf(a, b) == IF a < b THEN b ELSE a

\* u32_t subtraction.
Sub(a, b) == (a - b) % Word

\* The network task is asleep in vTaskDelay, or p is the network task.  What
\* follows a torn change is not modelled: the tasks stop there.
Runs(p) == ~torn /\ (p = "network" \/ where["network"] = "idle")

At(p, here) == Runs(p) /\ where[p] = here
Goto(p, there) == where' = [where EXCEPT ![p] = there]

-----------------------------------------------------------------------------
(* sys_timeout.                                                            *)

\* Behind the end of sys_timeout, in the handler's caller.
Return(p) ==
  Goto(p, CASE p = "tcpip" -> "again"
            [] p = "network" /\ where["tcpip"] = "off" -> "init"
            [] OTHER -> "test")

\* The ticks after which task p is to run the timer it sets: the thread counts
\* from now, the poll's handlers from timeouts_last_time.
DueIn(p) == Period[h[p]] - (IF p = "network" THEN lag ELSE 0)

\* memp_malloc; an empty pool ends in an assertion that is a printf, and the
\* timer is not set.
Malloc(p) ==
  /\ At(p, "malloc")
  /\ IF memp_tab # Null
     THEN /\ new' = [new EXCEPT ![p] = memp_tab]
          /\ memp_tab' = memp_next[memp_tab]
          /\ node' = [node EXCEPT ![memp_tab] =
                        [next |-> Null, h |-> h[p], time |-> Period[h[p]]]]
          /\ due' = [due EXCEPT ![h[p]] = DueIn(p)]
          /\ Goto(p, "insert")
     ELSE Return(p) /\ UNCHANGED <<new, memp_tab, node, due>>
  /\ UNCHANGED <<next_timeout, memp_next, todo, h, tmp, t, wait, lag, diff, torn>>

\* The new node goes to an empty list, before its head, or the walk begins.
Insert(p) ==
  /\ At(p, "insert")
  /\ LET n == new[p]
         ms == node[n].time
     IN CASE next_timeout = Null ->
               /\ next_timeout' = n
               /\ Return(p) /\ UNCHANGED <<node, t>>
          [] next_timeout # Null /\ node[next_timeout].time > ms ->
               /\ node' = [node EXCEPT ![next_timeout].time = Sub(@, ms),
                                       ![n].next = next_timeout]
               /\ next_timeout' = n
               /\ Return(p) /\ UNCHANGED t
          [] OTHER ->
               /\ t' = [t EXCEPT ![p] = next_timeout]
               /\ Goto(p, "walk") /\ UNCHANGED list
  /\ UNCHANGED <<pool, todo, h, tmp, new, wait, lag, diff, hist>>

\* Mutant of Splice: the nodes behind are not linked.
SpliceDropsTail(n, at, ms) == [node EXCEPT ![n].time = ms, ![at].next = n]

\* Node n, with time ms, goes behind node at; the node behind it then counts
\* from n.
Splice(n, at, ms) ==
  LET behind == node[at].next
      linked == [node EXCEPT ![n].time = ms, ![n].next = behind, ![at].next = n]
  IN IF behind = Null THEN linked
     ELSE [linked EXCEPT ![behind].time = Sub(@, ms)]

\* One round of the loop.
Walk(p) ==
  /\ At(p, "walk")
  /\ LET n == new[p]
         ms == Sub(node[n].time, node[t[p]].time)
         behind == node[t[p]].next
     IN IF behind = Null \/ node[behind].time > ms
        THEN node' = Splice(n, t[p], ms) /\ Return(p) /\ UNCHANGED t
        ELSE /\ node' = [node EXCEPT ![n].time = ms]
             /\ t' = [t EXCEPT ![p] = behind]
             /\ UNCHANGED where
  /\ UNCHANGED <<next_timeout, pool, todo, h, tmp, new, wait, lag, diff, hist>>

-----------------------------------------------------------------------------
(* A timer runs.                                                           *)

\* memp_free.
FreeNode(n) ==
  /\ memp_next' = [memp_next EXCEPT ![n] = memp_tab]
  /\ memp_tab' = n

\* The node is returned and the handler called, which sets the timer again.
Call(p) ==
  /\ At(p, "free")
  /\ FreeNode(tmp[p])
  /\ Goto(p, "malloc")
  /\ UNCHANGED <<list, todo, h, tmp, new, t, wait, lag, diff, hist>>

-----------------------------------------------------------------------------
(* sys_timeouts_init, in the network task, and the tcpip thread's start.   *)

InitTimer ==
  /\ At("network", "init")
  /\ IF todo = <<>>
     THEN where' = [network |-> "idle", tcpip |-> "again"] /\ UNCHANGED <<todo, h>>
     ELSE /\ h' = [h EXCEPT !["network"] = Head(todo)]
          /\ todo' = Tail(todo)
          /\ Goto("network", "malloc")
  /\ UNCHANGED <<list, pool, tmp, new, t, wait, lag, diff, hist>>

-----------------------------------------------------------------------------
(* sys_timeouts_mbox_fetch, in the tcpip thread.                           *)

\* Mutant of Again: the wait also when nothing is left of the head's time, and
\* sys_arch_mbox_fetch waits for ever when it is given 0.
AgainAlwaysWaits ==
  /\ At("tcpip", "again")
  /\ IF next_timeout # Null /\ node[next_timeout].time > 0
     THEN left' = node[next_timeout].time /\ Goto("tcpip", "wait")
     ELSE Goto("tcpip", "forever") /\ UNCHANGED left
  /\ waited' = 0
  /\ UNCHANGED <<list, pool, todo, h, tmp, new, t, msgs, lag, diff, hist>>

\* The head decides how long to wait.
Again ==
  /\ At("tcpip", "again")
  /\ CASE next_timeout = Null -> Goto("tcpip", "forever") /\ UNCHANGED left
       [] next_timeout # Null /\ node[next_timeout].time > 0 ->
            left' = node[next_timeout].time /\ Goto("tcpip", "wait")
       [] OTHER -> Goto("tcpip", "pop") /\ UNCHANGED left
  /\ waited' = 0
  /\ UNCHANGED <<list, pool, todo, h, tmp, new, t, msgs, lag, diff, hist>>

\* What is left of ms when a message ends the wait.
Rest(ms) == IF waited < ms THEN ms - waited ELSE 0

\* A message is received before the timeout, and handled.
Message ==
  /\ Runs("tcpip") /\ where["tcpip"] \in {"wait", "forever"}
  /\ where["tcpip"] = "wait" => left > 0
  /\ msgs < MaxMsgs /\ msgs' = msgs + 1
  /\ node' = IF where["tcpip"] = "wait" /\ next_timeout # Null
             THEN [node EXCEPT ![next_timeout].time = Rest(@)]
             ELSE node
  /\ waited' = 0 /\ left' = 0
  /\ Goto("tcpip", "again")
  /\ UNCHANGED <<next_timeout, pool, todo, h, tmp, new, t, lag, diff, hist>>

Timeout ==
  /\ At("tcpip", "wait") /\ left = 0
  /\ Goto("tcpip", "pop")
  /\ UNCHANGED <<list, pool, todo, h, tmp, new, t, wait, lag, diff, hist>>

\* tmptimeout = next_timeout: the head, whichever it is by now.  Where the other
\* task has emptied the list the code reads address 0; the model stops there.
Pop ==
  /\ At("tcpip", "pop") /\ next_timeout # Null
  /\ tmp' = [tmp EXCEPT !["tcpip"] = next_timeout]
  /\ Goto("tcpip", "unlink")
  /\ UNCHANGED <<list, pool, todo, h, new, t, wait, lag, diff, hist>>

\* next_timeout = tmptimeout->next.
Unlink ==
  /\ At("tcpip", "unlink")
  /\ next_timeout' = node[tmp["tcpip"]].next
  /\ waited' = 0
  /\ Goto("tcpip", "take")
  /\ UNCHANGED <<node, pool, todo, h, tmp, new, t, left, msgs, lag, diff, hist>>

\* handler = tmptimeout->h.
Take ==
  /\ At("tcpip", "take")
  /\ h' = [h EXCEPT !["tcpip"] = node[tmp["tcpip"]].h]
  /\ Goto("tcpip", "free")
  /\ UNCHANGED <<list, pool, todo, tmp, new, t, wait, lag, diff, hist>>

-----------------------------------------------------------------------------
(* lwip_timeout_poll, in the network task.                                 *)

\* The tcpip thread is between its look at the list and its change of it.
Changing == where["tcpip"] \in {"unlink", "insert", "walk"}

PollTimeouts ==
  /\ At("network", "idle")
  /\ next_timeout # Null
  /\ diff' = lag
  /\ torn' = Changing
  /\ Goto("network", "test")
  /\ UNCHANGED <<list, pool, todo, h, tmp, new, t, wait, lag, due>>

\* The head of the list is due.
Expired == next_timeout # Null /\ node[next_timeout].time <= diff

\* Mutant of Elapsed: timeouts_last_time moves on to now.
ElapsedNow(ms) == lag' = 0 /\ diff' = diff - ms

\* timeouts_last_time and the copy of the lag move on by the head's time.
Elapsed(ms) == lag' = Sub(lag, ms) /\ diff' = diff - ms

\* One round of the loop up to the handler's call.
PollTest ==
  /\ At("network", "test")
  /\ IF Expired
     THEN /\ tmp' = [tmp EXCEPT !["network"] = next_timeout]
          /\ h' = [h EXCEPT !["network"] = node[next_timeout].h]
          /\ Elapsed(node[next_timeout].time)
          /\ next_timeout' = node[next_timeout].next
          /\ Goto("network", "free")
     ELSE /\ Goto("network", "idle") /\ diff' = 0
          /\ UNCHANGED <<tmp, h, lag, next_timeout>>
  /\ UNCHANGED <<node, pool, todo, new, t, wait, hist>>

-----------------------------------------------------------------------------
\* A tick.  The network task is never further behind than MaxLag.
Tick ==
  /\ where["tcpip"] # "off" /\ ~torn
  /\ lag < MaxLag /\ lag' = lag + 1
  /\ IF where["tcpip"] = "wait" /\ left > 0
     THEN left' = left - 1 /\ waited' = waited + 1
     ELSE UNCHANGED <<left, waited>>
  /\ due' = [x \in Timers |-> MaxOf(due[x] - 1, 0 - MaxLag)]
  /\ UNCHANGED <<list, pool, todo, where, h, tmp, new, t, diff, msgs, torn>>

\* The free nodes of a pool that memp_init has built are in some order.
PoolOf(order) ==
  /\ memp_tab = order[1]
  /\ memp_next = [n \in Nodes |->
       LET i == CHOOSE i \in DOMAIN order : order[i] = n
       IN IF i = Len(order) THEN Null ELSE order[i + 1]]

TimersInit ==
  /\ next_timeout = Null
  /\ node = [n \in Nodes |-> [next |-> Null, h |-> InitOrder[1], time |-> 0]]
  /\ PoolOf(CHOOSE s \in [1..Cardinality(Nodes) -> Nodes] :
              \A n \in Nodes : \E i \in DOMAIN s : s[i] = n)
  /\ todo = InitOrder
  /\ where = [network |-> "init", tcpip |-> "off"]
  /\ h = [p \in Tasks |-> InitOrder[1]]
  /\ tmp = [p \in Tasks |-> Null] /\ new = [p \in Tasks |-> Null]
  /\ t = [p \in Tasks |-> Null]
  /\ left = 0 /\ waited = 0 /\ msgs = 0 /\ lag = 0 /\ diff = 0
  /\ due = Period /\ torn = FALSE

SysTimeout(p) == Malloc(p) \/ Insert(p) \/ Walk(p)
TcpipThread ==
  Again \/ Timeout \/ Pop \/ Unlink \/ Take \/ Call("tcpip") \/ SysTimeout("tcpip")
NetworkTask ==
  InitTimer \/ PollTimeouts \/ PollTest \/ Call("network") \/ SysTimeout("network")

TimersNext == TcpipThread \/ Message \/ NetworkTask \/ Tick

TimersSpec == TimersInit /\ [][TimersNext]_timersvars

\* Both tasks run, and time goes on; the network task sleeps for 10 ms between
\* two polls, which leaves the tcpip thread its turn.
TimersFairSpec ==
  TimersSpec /\ SF_timersvars(TcpipThread) /\ WF_timersvars(NetworkTask)
             /\ WF_timersvars(Tick)

-----------------------------------------------------------------------------
(* Properties.                                                             *)

\* The nodes of the list from its head, and the free ones.
OnList[k \in 0..Cardinality(Nodes)] ==
  IF k = 0 THEN next_timeout
  ELSE IF OnList[k - 1] = Null THEN Null ELSE node[OnList[k - 1]].next

OnPool[k \in 0..Cardinality(Nodes)] ==
  IF k = 0 THEN memp_tab
  ELSE IF OnPool[k - 1] = Null THEN Null ELSE memp_next[OnPool[k - 1]]

Listed == {OnList[k] : k \in DOMAIN OnList} \ {Null}
Free   == {OnPool[k] : k \in DOMAIN OnPool} \ {Null}

\* The nodes a task holds: taken off the list, or not on it yet.
Held(p) ==
  CASE where[p] \in {"take", "free"}   -> {tmp[p]}
    [] where[p] \in {"insert", "walk"} -> {new[p]}
    [] OTHER -> {}

\* Task p is between the end of timer x and its new start.
InHand(p, x) ==
  \/ where[p] = "take" /\ node[tmp[p]].h = x
  \/ where[p] \in {"free", "malloc", "insert", "walk"} /\ h[p] = x

\* Every variable has its type.
TimersTypeOK ==
  /\ next_timeout \in Nodes \cup {Null} /\ memp_tab \in Nodes \cup {Null}
  /\ node \in [Nodes -> [next : Nodes \cup {Null}, h : Timers, time : 0..(Word - 1)]]
  /\ memp_next \in [Nodes -> Nodes \cup {Null}]
  /\ todo \in Seq(Timers) /\ h \in [Tasks -> Timers]
  /\ {tmp, new, t} \subseteq [Tasks -> Nodes \cup {Null}]
  /\ where \in [Tasks -> {"off", "init", "idle", "test", "again", "wait", "forever",
                          "pop", "unlink", "take", "free", "malloc", "insert", "walk"}]
  /\ left \in 0..(Word - 1) /\ waited \in 0..(Word - 1)
  /\ lag \in 0..(Word - 1) /\ diff \in 0..(Word - 1) /\ msgs \in 0..MaxMsgs
  /\ due \in [Timers -> Int] /\ torn \in BOOLEAN

\* Every cyclic timer is set, and set once: it is on the list, in the hands of
\* the one task that runs it, or about to be started.
EveryTimerScheduled ==
  \A x \in Timers :
    Cardinality({n \in Listed : node[n].h = x})
    + Cardinality({p \in Tasks : InHand(p, x)})
    + Cardinality({i \in DOMAIN todo : todo[i] = x}) = 1

\* Every node is on the list, free or with one task, and in one of these only.
PoolIntact ==
  /\ Listed \cup Free \cup Held("tcpip") \cup Held("network") = Nodes
  /\ Cardinality(Listed) + Cardinality(Free) + Cardinality(Held("tcpip"))
       + Cardinality(Held("network")) = Cardinality(Nodes)

\* No timer is lost or set twice, and no node leaks or is freed twice, also
\* when both tasks serve the list and the network task preempts the tcpip
\* thread.  Excepted: a preemption between the thread's look at the list and
\* its change of it (tmptimeout = next_timeout; next_timeout =
\* tmptimeout->next, and the search in sys_timeout), after which a timer may
\* be gone for good.
ListIntact == TimersTypeOK /\ (torn \/ (EveryTimerScheduled /\ PoolIntact))

\* The time of node n from the head of the list on.
Ahead(n) ==
  LET k == CHOOSE k \in DOMAIN OnList : OnList[k] = n
      Sum[i \in 0..k] == IF i = 0 THEN node[OnList[0]].time
                         ELSE Sum[i - 1] + node[OnList[i]].time
  IN Sum[k]

\* No timer is listed for later than it is due: with both tasks taking heads
\* off the list, preempting each other and setting timers against different
\* clocks, and messages cutting the thread's wait short, the poll finds every
\* timer that is overdue.  Excepted is the torn list.
NeverLate == torn \/ \A n \in Listed : Ahead(n) - lag <= due[node[n].h]

\* A handler is called when the milliseconds given to sys_timeout have elapsed,
\* and not before.
NotEarly == \A p \in Tasks : where[p] = "free" => due[h[p]] <= 0

\* Every timer runs again and again, and the tcpip thread comes back to the
\* list again and again: it never waits with the timeout 0, which is for ever,
\* on a head that is due.  Excepted is the torn list.
TimersRun ==
  /\ \A x \in Timers : []<>(torn \/ \E p \in Tasks : where[p] = "free" /\ h[p] = x)
  /\ []<>(torn \/ where["tcpip"] = "again")
=============================================================================
