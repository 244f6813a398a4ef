------------------------------ MODULE DataQueue ------------------------------
(***************************************************************************)
(* Barry::DataQueue (src/src/dataqueue.cc, dataqueue.h): the thread-aware  *)
(* FIFO that carries packets from the USB read thread to the application.  *)
(*                                                                         *)
(* Each queue has an access mutex, a wait mutex and a condition variable.  *)
(* A section under one mutex is one step here, so the wait mutex, which is *)
(* never held across another lock, needs no variable; the access mutex has *)
(* one, since append_from holds it while it asks for a second mutex.  A    *)
(* call that blocks on its first mutex is a call that has not begun.       *)
(*                                                                         *)
(* Every pushed Data object is a fresh number, so that objects can be      *)
(* told apart; the histories arrived, taken and unseen are read only by    *)
(* the properties.  A thread's locals (on, them, timed, expired) have a    *)
(* value only while it is in a call.                                       *)
(***************************************************************************)
EXTENDS Naturals, Sequences

CONSTANTS Threads,      \* the threads that use the queues
          Queues,       \* the DataQueue objects
          AppendPairs,  \* the <<us, them>> for which us.append_from(them) is called
          Nobody,       \* a free mutex
          NoQueue,      \* the queue of a thread that is in no call
          MaxPushes,    \* bound: how many Data objects are ever pushed
          AllocFails,   \* whether the list's push_back can throw bad_alloc
          Spurious      \* whether the condition wait can return unprovoked

(* us.append_from(them) is called with them the queue of a registered      *)
(* socket and us the router's free list: never both ways round.            *)
ASSUME QueueAssumption ==
    /\ AppendPairs \subseteq Queues \X Queues
    /\ \A p \in AppendPairs : p[1] # p[2]
    /\ Nobody \notin Threads
    /\ NoQueue \notin Queues
    /\ MaxPushes \in Nat
    /\ AllocFails \in BOOLEAN
    /\ Spurious \in BOOLEAN

Null == 0
Items == 1..MaxPushes

VARIABLES
    queue,    \* queue[q]: m_queue, oldest first
    access,   \* access[q]: the thread holding m_accessMutex of q
    pc,       \* pc[t]: where thread t is
    on,       \* on[t]: the queue whose member function t is in
    them,     \* them[t]: append_from's argument
    timed,    \* timed[t]: t's wait_pop was given a timeout other than -1
    expired,  \* expired[t]: that timeout has passed
    ret,      \* ret[t]: the pointer t's last pop or wait_pop returned
    made,     \* how many Data objects were pushed so far
    freed,    \* the objects deleted by raw_push's exception handler
    arrived,  \* history: what was put into q, in order
    taken,    \* history: what was removed from q, in order
    unseen    \* history: what was pushed to on[t] since t fell asleep

vars == <<queue, access, pc, on, them, timed, expired, ret, made, freed,
          arrived, taken, unseen>>

Locations == {"idle", "broadcast", "wait", "asleep", "woken", "append"}

SharedTypes ==
    /\ queue \in [Queues -> Seq(Items)]
    /\ access \in [Queues -> Threads \cup {Nobody}]
    /\ made \in 0..MaxPushes
    /\ freed \in SUBSET Items
    /\ arrived \in [Queues -> Seq(Items)]
    /\ taken \in [Queues -> Seq(Items)]

LocalTypes ==
    /\ pc \in [Threads -> Locations]
    /\ on \in [Threads -> Queues \cup {NoQueue}]
    /\ them \in [Threads -> Queues \cup {NoQueue}]
    /\ timed \in [Threads -> BOOLEAN]
    /\ expired \in [Threads -> BOOLEAN]
    /\ ret \in [Threads -> Items \cup {Null}]
    /\ unseen \in [Threads -> SUBSET Items]
    /\ \A t \in Threads : pc[t] # "idle" => on[t] \in Queues
    /\ \A t \in Threads : pc[t] # "asleep" => unseen[t] = {}

(* Every variable has its type; a thread in a call has a queue, and only   *)
(* a sleeping thread has pushes it has not seen.                           *)
TypeOK == SharedTypes /\ LocalTypes

Init ==
    /\ queue = [q \in Queues |-> <<>>]
    /\ access = [q \in Queues |-> Nobody]
    /\ pc = [t \in Threads |-> "idle"]
    /\ on = [t \in Threads |-> NoQueue]
    /\ them = on
    /\ timed = [t \in Threads |-> FALSE]
    /\ expired = [t \in Threads |-> FALSE]
    /\ ret = [t \in Threads |-> Null]
    /\ made = 0
    /\ freed = {}
    /\ arrived = [q \in Queues |-> <<>>]
    /\ taken = [q \in Queues |-> <<>>]
    /\ unseen = [t \in Threads |-> {}]

Unlocked(q) == access[q] = Nobody

SleepsOn(t, q) == pc[t] = "asleep" /\ on[t] = q

(* Slips the properties below must catch, each a variant of the definition *)
(* it precedes: raw_push handed a pointer that was already reset, or using *)
(* the wrong end of the list; raw_pop without pop_front; a broadcast only  *)
(* when the queue was empty; a timed wait that loops like the endless one; *)
(* an append_from that returns with its own mutex still locked.            *)
raw_push_null(q, d) ==
    /\ queue' = [queue EXCEPT ![q] = Append(queue[q], Null)]
    /\ arrived' = [arrived EXCEPT ![q] = Append(arrived[q], Null)]

raw_push_front(q, d) ==
    /\ queue' = [queue EXCEPT ![q] = <<d>> \o queue[q]]
    /\ arrived' = [arrived EXCEPT ![q] = Append(arrived[q], d)]

raw_pop_keep(t, q) ==
    /\ ret' = [ret EXCEPT ![t] = IF queue[q] = <<>> THEN Null ELSE Head(queue[q])]
    /\ UNCHANGED <<queue, taken>>

(* The two raw functions, called with the access mutex of q held. *)
raw_push(q, d) ==
    /\ queue' = [queue EXCEPT ![q] = Append(queue[q], d)]
    /\ arrived' = [arrived EXCEPT ![q] = Append(arrived[q], d)]

raw_pop(t, q) ==
    IF queue[q] = <<>>
    THEN /\ ret' = [ret EXCEPT ![t] = Null]
         /\ UNCHANGED <<queue, taken>>
    ELSE /\ ret' = [ret EXCEPT ![t] = Head(queue[q])]
         /\ queue' = [queue EXCEPT ![q] = Tail(queue[q])]
         /\ taken' = [taken EXCEPT ![q] = Append(taken[q], Head(queue[q]))]

-----------------------------------------------------------------------------
(* push: the access section adds the item, ... *)
push(t, q) ==
    /\ pc[t] = "idle" /\ Unlocked(q)
    /\ made < MaxPushes
    /\ made' = made + 1
    /\ raw_push(q, made + 1)
    /\ unseen' = [s \in Threads |->
                    IF SleepsOn(s, q) THEN unseen[s] \cup {made + 1} ELSE unseen[s]]
    /\ pc' = [pc EXCEPT ![t] = "broadcast"]
    /\ on' = [on EXCEPT ![t] = q]
    /\ UNCHANGED <<access, them, timed, expired, ret, freed, taken>>

(* ... or the list cannot grow: raw_push deletes the item and push throws, *)
push_fails(t, q) ==
    /\ AllocFails
    /\ pc[t] = "idle" /\ Unlocked(q)
    /\ made < MaxPushes
    /\ made' = made + 1
    /\ freed' = freed \cup {made + 1}
    /\ UNCHANGED <<queue, access, pc, on, them, timed, expired, ret, arrived,
                   taken, unseen>>

push_broadcast_first(t) ==
    LET woken == {s \in Threads : SleepsOn(s, on[t]) /\ Len(queue[on[t]]) <= 1} IN
    /\ pc[t] = "broadcast"
    /\ pc' = [s \in Threads |-> IF s = t THEN "idle" ELSE IF s \in woken THEN "woken" ELSE pc[s]]
    /\ unseen' = [s \in Threads |-> IF s \in woken THEN {} ELSE unseen[s]]
    /\ on' = [on EXCEPT ![t] = NoQueue]
    /\ UNCHANGED <<queue, access, them, timed, expired, ret, made, freed,
                   arrived, taken>>

(* and after it, under the wait mutex, everyone who waits is woken. *)
push_broadcast(t) ==
    /\ pc[t] = "broadcast"
    /\ pc' = [s \in Threads |->
                IF s = t THEN "idle"
                ELSE IF SleepsOn(s, on[t]) THEN "woken" ELSE pc[s]]
    /\ unseen' = [s \in Threads |->
                    IF SleepsOn(s, on[t]) THEN {} ELSE unseen[s]]
    /\ on' = [on EXCEPT ![t] = NoQueue]
    /\ UNCHANGED <<queue, access, them, timed, expired, ret, made, freed,
                   arrived, taken>>

pop(t, q) ==
    /\ pc[t] = "idle" /\ Unlocked(q)
    /\ raw_pop(t, q)
    /\ UNCHANGED <<access, pc, on, them, timed, expired, made, freed, arrived, unseen>>

-----------------------------------------------------------------------------
(* wait_pop: the first look at the queue, under the access mutex. *)
wait_pop(t, q, tm) ==
    /\ pc[t] = "idle" /\ Unlocked(q)
    /\ IF queue[q] # <<>>
       THEN raw_pop(t, q) /\ UNCHANGED <<pc, on, timed>>
       ELSE /\ pc' = [pc EXCEPT ![t] = "wait"]
            /\ on' = [on EXCEPT ![t] = q]
            /\ timed' = [timed EXCEPT ![t] = tm]
            /\ UNCHANGED <<queue, taken, ret>>
    /\ UNCHANGED <<access, them, expired, made, freed, arrived, unseen>>

(* No predicate is tested between locking the wait mutex and waiting. *)
wait_pop_sleep(t) ==
    /\ pc[t] = "wait"
    /\ pc' = [pc EXCEPT ![t] = "asleep"]
    /\ UNCHANGED <<queue, access, on, them, timed, expired, ret, made, freed,
                   arrived, taken, unseen>>

(* pthread_cond_timedwait gives up ... *)
wait_pop_timeout(t) ==
    /\ pc[t] = "asleep" /\ timed[t]
    /\ pc' = [pc EXCEPT ![t] = "woken"]
    /\ expired' = [expired EXCEPT ![t] = TRUE]
    /\ unseen' = [unseen EXCEPT ![t] = {}]
    /\ UNCHANGED <<queue, access, on, them, timed, ret, made, freed, arrived, taken>>

(* ... and either wait may return without a broadcast, as POSIX allows. *)
wait_pop_spurious(t) ==
    /\ Spurious
    /\ pc[t] = "asleep"
    /\ pc' = [pc EXCEPT ![t] = "woken"]
    /\ unseen' = [unseen EXCEPT ![t] = {}]
    /\ UNCHANGED <<queue, access, on, them, timed, expired, ret, made, freed,
                   arrived, taken>>

wait_pop_always_loops(t) ==
    /\ pc[t] = "woken" /\ Unlocked(on[t])
    /\ IF queue[on[t]] = <<>>
       THEN /\ pc' = [pc EXCEPT ![t] = "wait"]
            /\ UNCHANGED <<queue, on, timed, expired, taken, ret>>
       ELSE /\ raw_pop(t, on[t])
            /\ pc' = [pc EXCEPT ![t] = "idle"]
            /\ on' = [on EXCEPT ![t] = NoQueue]
            /\ timed' = [timed EXCEPT ![t] = FALSE]
            /\ expired' = [expired EXCEPT ![t] = FALSE]
    /\ UNCHANGED <<access, them, made, freed, arrived, unseen>>

(* The look after the wait: the endless wait repeats while the queue is    *)
(* empty, the timed one pops once, whatever ended the wait.                *)
wait_pop_recheck(t) ==
    /\ pc[t] = "woken" /\ Unlocked(on[t])
    /\ IF queue[on[t]] = <<>> /\ ~timed[t]
       THEN /\ pc' = [pc EXCEPT ![t] = "wait"]
            /\ UNCHANGED <<queue, on, timed, expired, taken, ret>>
       ELSE /\ raw_pop(t, on[t])
            /\ pc' = [pc EXCEPT ![t] = "idle"]
            /\ on' = [on EXCEPT ![t] = NoQueue]
            /\ timed' = [timed EXCEPT ![t] = FALSE]
            /\ expired' = [expired EXCEPT ![t] = FALSE]
    /\ UNCHANGED <<access, them, made, freed, arrived, unseen>>

-----------------------------------------------------------------------------
(* append_from: our access mutex first, ... *)
append_from(t, us, other) ==
    /\ pc[t] = "idle" /\ Unlocked(us)
    /\ access' = [access EXCEPT ![us] = t]
    /\ pc' = [pc EXCEPT ![t] = "append"]
    /\ on' = [on EXCEPT ![t] = us]
    /\ them' = [them EXCEPT ![t] = other]
    /\ UNCHANGED <<queue, timed, expired, ret, made, freed, arrived, taken, unseen>>

(* the first k items of our argument go to the end of our queue *)
MoveItems(us, other, k) ==
    LET moved == SubSeq(queue[other], 1, k)
    IN  /\ queue' = [queue EXCEPT
                       ![us]    = queue[us] \o moved,
                       ![other] = SubSeq(queue[other], k + 1, Len(queue[other]))]
        /\ arrived' = [arrived EXCEPT ![us] = arrived[us] \o moved]
        /\ taken' = [taken EXCEPT ![other] = taken[other] \o moved]

(* ... then, under both mutexes, all of the items; nobody is woken.  When  *)
(* the list cannot grow, raw_push deletes the item it was given and the    *)
(* exception leaves that item at the front of the other queue.             *)
append_move(t) ==
    /\ pc[t] = "append" /\ Unlocked(them[t])
    /\ \E k \in 0..Len(queue[them[t]]) :
         /\ MoveItems(on[t], them[t], k)
         /\ IF k = Len(queue[them[t]])
            THEN UNCHANGED freed
            ELSE AllocFails /\ freed' = freed \cup {queue[them[t]][k + 1]}
    /\ access' = [access EXCEPT ![on[t]] = Nobody]
    /\ pc' = [pc EXCEPT ![t] = "idle"]
    /\ on' = [on EXCEPT ![t] = NoQueue]
    /\ them' = [them EXCEPT ![t] = NoQueue]
    /\ UNCHANGED <<timed, expired, ret, made, unseen>>

-----------------------------------------------------------------------------
Next ==
    \E t \in Threads :
        \/ \E q \in Queues : push(t, q) \/ push_fails(t, q) \/ pop(t, q)
        \/ \E q \in Queues, tm \in BOOLEAN : wait_pop(t, q, tm)
        \/ push_broadcast(t)
        \/ wait_pop_sleep(t)
        \/ wait_pop_timeout(t)
        \/ wait_pop_spurious(t)
        \/ wait_pop_recheck(t)
        \/ \E p \in AppendPairs : append_from(t, p[1], p[2])
        \/ append_move(t)

(* A thread inside a call keeps running and time passes; a thread is not   *)
(* made to start a call.  A mutex that is free again and again is one day  *)
(* obtained by a thread that keeps asking for it.                          *)
Fairness ==
    \A t \in Threads :
        /\ WF_vars(push_broadcast(t))
        /\ WF_vars(wait_pop_sleep(t))
        /\ WF_vars(wait_pop_timeout(t))
        /\ SF_vars(wait_pop_recheck(t))
        /\ SF_vars(append_move(t))

Spec == Init /\ [][Next]_vars

FairSpec == Spec /\ Fairness
-----------------------------------------------------------------------------
(* First in, first out, whatever the threads do at once: the items taken   *)
(* out of a queue, followed by those still in it, are the items that were  *)
(* put in, in that order (raw_push adds at the back, raw_pop takes from    *)
(* the front, append_from keeps the order and loses none).                 *)
FIFO == \A q \in Queues : arrived[q] = taken[q] \o queue[q]

(* push wakes every thread that already slept when the item came: a thread *)
(* asleep on a queue that was pushed to since then is about to be woken by *)
(* a push that has not broadcast yet.                                      *)
SleeperWillBeWoken ==
    \A t \in Threads :
        pc[t] = "asleep" /\ unseen[t] # {} =>
            \E p \in Threads : pc[p] = "broadcast" /\ on[p] = on[t]

(* A mutex held across a step is held by an append_from in progress, and   *)
(* by no other: no return path leaves m_accessMutex locked.                *)
AccessHeldByAppend ==
    /\ \A q \in Queues : ~Unlocked(q) =>
          pc[access[q]] = "append" /\ on[access[q]] = q
    /\ \A t \in Threads : pc[t] = "append" =>
          access[on[t]] = t /\ <<on[t], them[t]>> \in AppendPairs

(* The abstract queue sees the contents and the returned pointers only. *)
Abstract == INSTANCE AbstractQueue WITH content <- queue, result <- ret

(* Every operation takes effect at one instant: a null pointer is only     *)
(* ever returned at an instant at which the queue is empty, two threads    *)
(* never get the same item, and append_from moves items without a moment   *)
(* in which they are in neither queue or in both.                          *)
Linearizable == Abstract!Spec

(* A wait_pop with a timeout returns, and so does append_from: its two     *)
(* locks are never requested in a circle.                                  *)
TimedCallsReturn ==
    \A t \in Threads :
        /\ (pc[t] \in {"wait", "asleep", "woken"} /\ timed[t]) ~> pc[t] = "idle"
        /\ pc[t] = "append" ~> pc[t] = "idle"
=============================================================================
