--------------------------- MODULE DataQueueProofs ---------------------------
(***************************************************************************)
(* The theorems about DataQueue, for any number of threads, queues and     *)
(* pushes: typing, the lock discipline of append_from, first-in first-out  *)
(* order, that a push wakes everyone who slept before it, and that the     *)
(* queue implements AbstractQueue.                                         *)
(***************************************************************************)
EXTENDS DataQueue, SequenceTheorems, TLAPS

-----------------------------------------------------------------------------
(* Facts about sequences. *)

(* A sequence is its head followed by its tail (what raw_pop takes apart). *)
LEMMA HeadThenTail ==
    ASSUME NEW S, NEW s \in Seq(S), s # <<>>
    PROVE  <<Head(s)>> \o Tail(s) = s
<1>1. Len(s) \in Nat \ {0}
  BY EmptySeq
<1>2. SubSeq(s, 1, Len(s)) = <<s[1]>> \o SubSeq(s, 2, Len(s))
  BY <1>1, SubSeqRecursiveFirst
<1>3. Tail(s) = SubSeq(s, 2, Len(s))
  BY TailIsSubSeq
<1>4. Head(s) = s[1]
  BY <1>1, SMT
<1> QED
  BY <1>2, <1>3, <1>4, SubSeqFull

(* A sequence cut after its first k elements (what append_from moves). *)
LEMMA CutAt ==
    ASSUME NEW S, NEW s \in Seq(S), NEW k \in 0..Len(s)
    PROVE  /\ SubSeq(s, 1, k) \in Seq(S)
           /\ SubSeq(s, k + 1, Len(s)) \in Seq(S)
           /\ SubSeq(s, 1, k) \o SubSeq(s, k + 1, Len(s)) = s
<1>1. Len(s) \in Nat /\ k \in Nat /\ k <= Len(s)
  BY LenProperties
<1>2. \A i \in 1..Len(s) : s[i] \in S
  BY ElementOfSeq
<1>3. SubSeq(s, 1, k) \in Seq(S)
  <2>1. \A i \in 1..k : s[i] \in S
    BY <1>1, <1>2
  <2> QED
    BY <1>1, <2>1, SubSeqProperties
<1>4. SubSeq(s, k + 1, Len(s)) \in Seq(S)
  <2>1. \A i \in (k + 1)..Len(s) : s[i] \in S
    BY <1>1, <1>2
  <2> QED
    BY <1>1, <2>1, SubSeqProperties
<1>5. SubSeq(s, 1, k) \o SubSeq(s, k + 1, Len(s)) = SubSeq(s, 1, Len(s))
  <2>1. 1 \in 1..Len(s)+1 /\ k \in (1-1)..Len(s) /\ Len(s) \in k..Len(s)
    BY <1>1
  <2> QED
    BY <2>1, ConcatAdjacentSubSeq
<1> QED
  BY <1>3, <1>4, <1>5, SubSeqFull

(* Adding at the back keeps "taken, then queued" equal to "arrived". *)
LEMMA AppendKeepsOrder ==
    \A p, q \in Seq(Items), d \in Items : Append(p \o q, d) = p \o Append(q, d)
<1> TAKE p, q \in Seq(Items), d \in Items
<1>1. p \o q \in Seq(Items) /\ <<d>> \in Seq(Items)
  BY ConcatProperties
<1>2. Append(p \o q, d) = (p \o q) \o <<d>>
  BY <1>1, AppendIsConcat
<1>3. Append(q, d) = q \o <<d>>
  BY AppendIsConcat
<1> QED
  BY <1>1, <1>2, <1>3, ConcatAssociative

(* So does taking from the front. *)
LEMMA TakeKeepsOrder ==
    ASSUME NEW S, NEW p \in Seq(S), NEW q \in Seq(S), q # <<>>
    PROVE  p \o q = Append(p, Head(q)) \o Tail(q)
<1>1. Head(q) \in S /\ Tail(q) \in Seq(S)
  BY HeadTailProperties
<1>2. <<Head(q)>> \in Seq(S)
  BY <1>1
<1>3. Append(p, Head(q)) = p \o <<Head(q)>>
  BY <1>1, AppendIsConcat
<1>4. (p \o <<Head(q)>>) \o Tail(q) = p \o (<<Head(q)>> \o Tail(q))
  BY <1>1, <1>2, ConcatAssociative
<1> QED
  BY <1>3, <1>4, HeadThenTail

(* Concatenation of items is associative, in the form the provers match. *)
LEMMA ItemsAssociative ==
    \A p, q, r \in Seq(Items) : (p \o q) \o r = p \o (q \o r)
BY ConcatAssociative

-----------------------------------------------------------------------------
(* The inductive invariant: each part needs TypeOK, and TypeOK needs the   *)
(* lock discipline, since append_move reads on[t] and them[t].             *)
IInv == TypeOK /\ AccessHeldByAppend /\ FIFO /\ SleeperWillBeWoken

LEMMA InitIInv == Init => IInv
<1> SUFFICES ASSUME Init PROVE IInv
  OBVIOUS
<1> USE QueueAssumption DEF Init
<1>1. TypeOK
  <2>1. 0 \in 0..MaxPushes /\ <<>> \in Seq(Items)
    BY DEF Items
  <2> QED
    BY <2>1 DEF TypeOK, SharedTypes, LocalTypes, Locations
<1>2. AccessHeldByAppend
  BY DEF AccessHeldByAppend, Unlocked
<1>3. FIFO
  <2>1. <<>> \o <<>> = <<>>
    BY ConcatEmptySeq, EmptySeq
  <2> QED
    BY <2>1 DEF FIFO
<1>4. SleeperWillBeWoken
  BY DEF SleeperWillBeWoken
<1> QED
  BY <1>1, <1>2, <1>3, <1>4 DEF IInv

(* raw_pop keeps the queues typed and in order, and tells what it took. *)
LEMMA RawPop ==
    ASSUME TypeOK, FIFO, NEW t \in Threads, NEW q \in Queues, raw_pop(t, q)
    PROVE  /\ queue' \in [Queues -> Seq(Items)]
           /\ taken' \in [Queues -> Seq(Items)]
           /\ ret' \in [Threads -> Items \cup {Null}]
           /\ \A r \in Queues : arrived[r] = taken'[r] \o queue'[r]
<1> USE DEF raw_pop
<1>0. /\ queue \in [Queues -> Seq(Items)]
      /\ taken \in [Queues -> Seq(Items)]
      /\ ret \in [Threads -> Items \cup {Null}]
  BY DEF TypeOK, SharedTypes, LocalTypes
<1>1. CASE queue[q] = <<>>
  BY <1>0, <1>1 DEF FIFO
<1>2. CASE queue[q] # <<>>
  <2>1. Head(queue[q]) \in Items /\ Tail(queue[q]) \in Seq(Items)
    BY <1>0, <1>2, HeadTailProperties
  <2>2. Append(taken[q], Head(queue[q])) \in Seq(Items)
    BY <1>0, <2>1, AppendProperties
  <2>3. arrived[q] = Append(taken[q], Head(queue[q])) \o Tail(queue[q])
    BY <1>0, <1>2, TakeKeepsOrder DEF FIFO
  <2>4. /\ ret' = [ret EXCEPT ![t] = Head(queue[q])]
        /\ queue' = [queue EXCEPT ![q] = Tail(queue[q])]
        /\ taken' = [taken EXCEPT ![q] = Append(taken[q], Head(queue[q]))]
    BY <1>2
  <2>5. \A r \in Queues : arrived[r] = taken'[r] \o queue'[r]
    BY <1>0, <2>3, <2>4 DEF FIFO
  <2> QED
    BY <1>0, <2>1, <2>2, <2>4, <2>5
<1> QED
  BY <1>1, <1>2

(* So does the move of append_from. *)
LEMMA Moves ==
    ASSUME TypeOK, FIFO, NEW us \in Queues, NEW other \in Queues, us # other,
           NEW k \in 0..Len(queue[other]), MoveItems(us, other, k)
    PROVE  /\ queue' \in [Queues -> Seq(Items)]
           /\ arrived' \in [Queues -> Seq(Items)]
           /\ taken' \in [Queues -> Seq(Items)]
           /\ FIFO'
<1> DEFINE moved == SubSeq(queue[other], 1, k)
           rest == SubSeq(queue[other], k + 1, Len(queue[other]))
<1>1. /\ queue \in [Queues -> Seq(Items)]
      /\ arrived \in [Queues -> Seq(Items)]
      /\ taken \in [Queues -> Seq(Items)]
  BY DEF TypeOK, SharedTypes, LocalTypes
<1>2. moved \in Seq(Items) /\ rest \in Seq(Items) /\ moved \o rest = queue[other]
  BY <1>1, CutAt
<1>3. /\ queue' = [queue EXCEPT ![us] = queue[us] \o moved, ![other] = rest]
      /\ arrived' = [arrived EXCEPT ![us] = arrived[us] \o moved]
      /\ taken' = [taken EXCEPT ![other] = taken[other] \o moved]
  BY DEF MoveItems
<1> HIDE DEF moved, rest
<1>4. /\ queue[us] \o moved \in Seq(Items)
      /\ arrived[us] \o moved \in Seq(Items)
      /\ taken[other] \o moved \in Seq(Items)
  BY <1>1, <1>2, ConcatProperties
<1>5. /\ queue' \in [Queues -> Seq(Items)]
      /\ arrived' \in [Queues -> Seq(Items)]
      /\ taken' \in [Queues -> Seq(Items)]
  BY <1>1, <1>2, <1>3, <1>4
<1>6. arrived'[us] = taken'[us] \o queue'[us]
  <2>1. arrived[us] \o moved = (taken[us] \o queue[us]) \o moved
    BY DEF FIFO
  <2>2. (taken[us] \o queue[us]) \o moved = taken[us] \o (queue[us] \o moved)
    <3>1. /\ taken[us] \in Seq(Items) /\ queue[us] \in Seq(Items)
          /\ moved \in Seq(Items)
      BY <1>1, <1>2
    <3> QED
      BY <3>1, ItemsAssociative, Zenon
  <2>3. /\ arrived'[us] = arrived[us] \o moved
        /\ taken'[us] = taken[us]
        /\ queue'[us] = queue[us] \o moved
    BY <1>1, <1>3
  <2> QED
    BY <2>1, <2>2, <2>3
<1>7. arrived'[other] = taken'[other] \o queue'[other]
  <2>1. arrived[other] = taken[other] \o (moved \o rest)
    BY <1>2 DEF FIFO
  <2>2. (taken[other] \o moved) \o rest = taken[other] \o (moved \o rest)
    <3>1. /\ taken[other] \in Seq(Items)
          /\ moved \in Seq(Items) /\ rest \in Seq(Items)
      BY <1>1, <1>2
    <3> QED
      BY <3>1, ItemsAssociative, Zenon
  <2>3. /\ arrived'[other] = arrived[other]
        /\ taken'[other] = taken[other] \o moved
        /\ queue'[other] = rest
    BY <1>1, <1>3
  <2> QED
    BY <2>1, <2>2, <2>3
<1>8. \A q \in Queues \ {us, other} : arrived'[q] = taken'[q] \o queue'[q]
  <2> TAKE q \in Queues \ {us, other}
  <2>1. arrived'[q] = arrived[q] /\ taken'[q] = taken[q] /\ queue'[q] = queue[q]
    BY <1>1, <1>3
  <2> QED
    BY <2>1 DEF FIFO
<1> QED
  BY <1>5, <1>6, <1>7, <1>8 DEF FIFO

-----------------------------------------------------------------------------
(* Typing and order are preserved by every step. *)
LEMMA StepTypeAndOrder ==
    IInv /\ [Next]_vars => TypeOK' /\ FIFO'
<1> SUFFICES ASSUME IInv, [Next]_vars
             PROVE  TypeOK' /\ FIFO'
  OBVIOUS
<1> USE QueueAssumption DEF IInv
<1>1. ASSUME NEW t \in Threads, NEW q \in Queues, push(t, q)
      PROVE  TypeOK' /\ FIFO'
  <2>1. made + 1 \in Items /\ made + 1 \in 0..MaxPushes
    BY <1>1 DEF TypeOK, SharedTypes, LocalTypes, push, Items
  <2>2. /\ Append(queue[q], made + 1) \in Seq(Items)
        /\ Append(arrived[q], made + 1) \in Seq(Items)
    BY <2>1, AppendProperties DEF TypeOK, SharedTypes, LocalTypes
  <2>3. Append(arrived[q], made + 1) = taken[q] \o Append(queue[q], made + 1)
    <3>1. queue[q] \in Seq(Items) /\ taken[q] \in Seq(Items)
      BY DEF TypeOK, SharedTypes, LocalTypes
    <3>2. Append(taken[q] \o queue[q], made + 1) = taken[q] \o Append(queue[q], made + 1)
      BY <2>1, <3>1, AppendKeepsOrder, Zenon
    <3> QED
      BY <3>2 DEF FIFO
  <2>4. SharedTypes'
    BY <1>1, <2>1, <2>2 DEF TypeOK, SharedTypes, push, raw_push
  <2>5. LocalTypes'
    <3>1. \A s \in Threads : pc'[s] # "idle" => on'[s] \in Queues
      BY <1>1 DEF TypeOK, LocalTypes, push
    <3>2. unseen' \in [Threads -> SUBSET Items]
      BY <1>1, <2>1 DEF TypeOK, LocalTypes, push
    <3>3. \A s \in Threads : pc'[s] # "asleep" => unseen'[s] = {}
      BY <1>1 DEF TypeOK, LocalTypes, push, SleepsOn
    <3> QED
      BY <1>1, <3>1, <3>2, <3>3 DEF TypeOK, LocalTypes, push, Locations
  <2>6. FIFO'
    BY <1>1, <2>3 DEF FIFO, TypeOK, SharedTypes, push, raw_push
  <2> QED
    BY <2>4, <2>5, <2>6 DEF TypeOK
<1>2. ASSUME NEW t \in Threads, NEW q \in Queues, push_fails(t, q)
      PROVE  TypeOK' /\ FIFO'
  <2>1. made + 1 \in Items /\ made + 1 \in 0..MaxPushes
    BY <1>2 DEF TypeOK, SharedTypes, LocalTypes, push_fails, Items
  <2> QED
    BY <1>2, <2>1 DEF TypeOK, SharedTypes, LocalTypes, FIFO, push_fails
<1>3. ASSUME NEW t \in Threads, NEW q \in Queues, pop(t, q)
      PROVE  TypeOK' /\ FIFO'
  <2>1. raw_pop(t, q)
    BY <1>3 DEF pop
  <2> QED
    BY <1>3, <2>1, RawPop DEF TypeOK, SharedTypes, LocalTypes, FIFO, pop
<1>4. ASSUME NEW t \in Threads, NEW q \in Queues, NEW tm \in BOOLEAN,
             wait_pop(t, q, tm)
      PROVE  TypeOK' /\ FIFO'
  <2>1. CASE queue[q] # <<>>
    <3>1. raw_pop(t, q)
      BY <1>4, <2>1 DEF wait_pop
    <3>2. /\ UNCHANGED <<access, pc, on, them, timed, expired>>
          /\ UNCHANGED <<made, freed, arrived, unseen>>
      BY <1>4, <2>1 DEF wait_pop
    <3> QED
      BY <3>1, <3>2, RawPop DEF TypeOK, SharedTypes, LocalTypes, FIFO
  <2>2. CASE queue[q] = <<>>
    <3>1. /\ UNCHANGED <<queue, access, made, freed, arrived, taken>>
          /\ UNCHANGED <<them, expired, ret, unseen>>
          /\ pc[t] = "idle"
          /\ pc' = [pc EXCEPT ![t] = "wait"]
          /\ on' = [on EXCEPT ![t] = q]
          /\ timed' = [timed EXCEPT ![t] = tm]
      BY <1>4, <2>2 DEF wait_pop
    <3>2. SharedTypes' /\ FIFO'
      BY <3>1 DEF TypeOK, SharedTypes, FIFO
    <3>3. LocalTypes'
      BY <3>1 DEF TypeOK, LocalTypes, Locations
    <3> QED
      BY <3>2, <3>3 DEF TypeOK
  <2> QED
    BY <2>1, <2>2
<1>5. ASSUME NEW t \in Threads, push_broadcast(t)
      PROVE  TypeOK' /\ FIFO'
  <2>1. \A s \in Threads : pc'[s] # "idle" => on'[s] \in Queues
    BY <1>5 DEF TypeOK, SharedTypes, LocalTypes, push_broadcast, SleepsOn
  <2> QED
    BY <1>5, <2>1 DEF TypeOK, SharedTypes, LocalTypes, FIFO, push_broadcast, Locations
<1>6. ASSUME NEW t \in Threads, wait_pop_sleep(t)
      PROVE  TypeOK' /\ FIFO'
  BY <1>6 DEF TypeOK, SharedTypes, LocalTypes, FIFO, wait_pop_sleep, Locations
<1>7. ASSUME NEW t \in Threads, wait_pop_timeout(t)
      PROVE  TypeOK' /\ FIFO'
  BY <1>7 DEF TypeOK, SharedTypes, LocalTypes, FIFO, wait_pop_timeout, Locations
<1>8. ASSUME NEW t \in Threads, wait_pop_spurious(t)
      PROVE  TypeOK' /\ FIFO'
  BY <1>8 DEF TypeOK, SharedTypes, LocalTypes, FIFO, wait_pop_spurious, Locations
<1>9. ASSUME NEW t \in Threads, wait_pop_recheck(t)
      PROVE  TypeOK' /\ FIFO'
  <2>1. CASE queue[on[t]] = <<>> /\ ~timed[t]
    BY <1>9, <2>1 DEF TypeOK, SharedTypes, LocalTypes, FIFO, wait_pop_recheck, Locations
  <2>2. CASE ~(queue[on[t]] = <<>> /\ ~timed[t])
    <3>1. on[t] \in Queues
      BY <1>9 DEF TypeOK, SharedTypes, LocalTypes, wait_pop_recheck
    <3>2. raw_pop(t, on[t])
      BY <1>9, <2>2 DEF wait_pop_recheck
    <3>3. /\ queue' \in [Queues -> Seq(Items)]
          /\ taken' \in [Queues -> Seq(Items)]
          /\ ret' \in [Threads -> Items \cup {Null}]
          /\ \A r \in Queues : arrived[r] = taken'[r] \o queue'[r]
      BY <3>1, <3>2, RawPop
    <3>4. TypeOK'
      <4>1. /\ pc' = [pc EXCEPT ![t] = "idle"]
            /\ on' = [on EXCEPT ![t] = NoQueue]
            /\ timed' = [timed EXCEPT ![t] = FALSE]
            /\ expired' = [expired EXCEPT ![t] = FALSE]
            /\ UNCHANGED <<access, them, made, freed, arrived, unseen>>
        BY <1>9, <2>2 DEF wait_pop_recheck
      <4>2. \A s \in Threads : pc'[s] # "idle" => on'[s] \in Queues
        BY <4>1 DEF TypeOK, SharedTypes, LocalTypes
      <4> QED
        BY <1>9, <3>3, <4>1, <4>2 DEF TypeOK, SharedTypes, LocalTypes, Locations, wait_pop_recheck
    <3>5. FIFO'
      BY <1>9, <3>3 DEF FIFO, wait_pop_recheck
    <3> QED
      BY <3>4, <3>5
  <2> QED
    BY <2>1, <2>2
<1>10. ASSUME NEW t \in Threads, NEW p \in AppendPairs, append_from(t, p[1], p[2])
       PROVE  TypeOK' /\ FIFO'
  <2>1. p[1] \in Queues /\ p[2] \in Queues
    OBVIOUS
  <2> QED
    BY <1>10, <2>1 DEF TypeOK, SharedTypes, LocalTypes, FIFO, append_from, Locations
<1>11. ASSUME NEW t \in Threads, append_move(t)
       PROVE  TypeOK' /\ FIFO'
  <2>1. /\ on[t] \in Queues /\ them[t] \in Queues
        /\ on[t] # them[t]
    BY <1>11 DEF AccessHeldByAppend, append_move
  <2>2. PICK k \in 0..Len(queue[them[t]]) :
          /\ MoveItems(on[t], them[t], k)
          /\ IF k = Len(queue[them[t]])
             THEN UNCHANGED freed
             ELSE AllocFails /\ freed' = freed \cup {queue[them[t]][k + 1]}
    BY <1>11 DEF append_move
  <2>3. /\ queue' \in [Queues -> Seq(Items)]
        /\ arrived' \in [Queues -> Seq(Items)]
        /\ taken' \in [Queues -> Seq(Items)]
        /\ FIFO'
    BY <2>1, <2>2, Moves
  <2>4. freed' \in SUBSET Items
    <3>1. CASE k = Len(queue[them[t]])
      BY <2>2, <3>1 DEF TypeOK, SharedTypes, LocalTypes
    <3>2. CASE k # Len(queue[them[t]])
      <4>1. queue[them[t]] \in Seq(Items)
        BY <2>1 DEF TypeOK, SharedTypes, LocalTypes
      <4>2. k + 1 \in 1..Len(queue[them[t]])
        BY <4>1, <3>2, LenProperties
      <4>3. queue[them[t]][k + 1] \in Items
        BY <4>1, <4>2, ElementOfSeq
      <4> QED
        BY <2>2, <3>2, <4>3 DEF TypeOK, SharedTypes, LocalTypes
    <3> QED
      BY <3>1, <3>2
  <2> QED
    BY <1>11, <2>3, <2>4 DEF TypeOK, SharedTypes, LocalTypes, append_move, Locations
<1>12. CASE UNCHANGED vars
  BY <1>12 DEF TypeOK, SharedTypes, LocalTypes, FIFO, vars
<1> QED
  BY <1>1, <1>2, <1>3, <1>4, <1>5, <1>6, <1>7, <1>8, <1>9, <1>10, <1>11,
     <1>12 DEF Next

(* A step by a thread outside append_from that touches no mutex keeps the  *)
(* lock discipline: the threads inside append_from are the same.           *)
LEMMA OutsideAppend ==
    ASSUME TypeOK, AccessHeldByAppend, NEW t \in Threads,
           pc[t] # "append", pc'[t] # "append",
           \A s \in Threads \ {t} :
              /\ pc'[s] = "append" <=> pc[s] = "append"
              /\ pc[s] = "append" => on'[s] = on[s],
           UNCHANGED <<access, them>>
    PROVE  AccessHeldByAppend'
<1> USE QueueAssumption
<1>1. ASSUME NEW q \in Queues, access'[q] # Nobody
      PROVE  pc'[access'[q]] = "append" /\ on'[access'[q]] = q
  <2>1. access[q] \in Threads /\ pc[access[q]] = "append" /\ on[access[q]] = q
    BY <1>1 DEF AccessHeldByAppend, Unlocked, TypeOK, SharedTypes, LocalTypes
  <2> QED
    BY <2>1
<1>2. ASSUME NEW s \in Threads, pc'[s] = "append"
      PROVE  access'[on'[s]] = s /\ <<on'[s], them'[s]>> \in AppendPairs
  BY <1>2 DEF AccessHeldByAppend
<1> QED
  BY <1>1, <1>2 DEF AccessHeldByAppend, Unlocked

(* The lock discipline is preserved by every step: only append_from's two  *)
(* steps touch a mutex, and they take and release the one of on[t].        *)
LEMMA StepAccess ==
    IInv /\ [Next]_vars => AccessHeldByAppend'
<1> SUFFICES ASSUME IInv, [Next]_vars
             PROVE  AccessHeldByAppend'
  OBVIOUS
<1> USE QueueAssumption DEF IInv
<1>1. ASSUME NEW t \in Threads, NEW q \in Queues, push(t, q)
      PROVE  AccessHeldByAppend'
  BY <1>1, OutsideAppend DEF push, TypeOK, SharedTypes, LocalTypes
<1>2. ASSUME NEW t \in Threads, NEW q \in Queues, push_fails(t, q)
      PROVE  AccessHeldByAppend'
  BY <1>2, OutsideAppend DEF push_fails
<1>3. ASSUME NEW t \in Threads, NEW q \in Queues, pop(t, q)
      PROVE  AccessHeldByAppend'
  BY <1>3, OutsideAppend DEF pop
<1>4. ASSUME NEW t \in Threads, NEW q \in Queues, NEW tm \in BOOLEAN,
             wait_pop(t, q, tm)
      PROVE  AccessHeldByAppend'
  <2>1. CASE queue[q] # <<>>
    BY <1>4, <2>1, OutsideAppend DEF wait_pop
  <2>2. CASE queue[q] = <<>>
    BY <1>4, <2>2, OutsideAppend DEF wait_pop, TypeOK, SharedTypes, LocalTypes
  <2> QED
    BY <2>1, <2>2
<1>5. ASSUME NEW t \in Threads, push_broadcast(t)
      PROVE  AccessHeldByAppend'
  BY <1>5, OutsideAppend DEF push_broadcast, SleepsOn, TypeOK, SharedTypes, LocalTypes
<1>6. ASSUME NEW t \in Threads,
             wait_pop_sleep(t) \/ wait_pop_timeout(t) \/ wait_pop_spurious(t)
      PROVE  AccessHeldByAppend'
  BY <1>6, OutsideAppend
     DEF wait_pop_sleep, wait_pop_timeout, wait_pop_spurious, TypeOK, SharedTypes, LocalTypes
<1>7. ASSUME NEW t \in Threads, wait_pop_recheck(t)
      PROVE  AccessHeldByAppend'
  <2>1. CASE queue[on[t]] = <<>> /\ ~timed[t]
    BY <1>7, <2>1, OutsideAppend DEF wait_pop_recheck, TypeOK, SharedTypes, LocalTypes
  <2>2. CASE ~(queue[on[t]] = <<>> /\ ~timed[t])
    BY <1>7, <2>2, OutsideAppend DEF wait_pop_recheck, TypeOK, SharedTypes, LocalTypes
  <2> QED
    BY <2>1, <2>2
<1>8. ASSUME NEW t \in Threads, NEW p \in AppendPairs, append_from(t, p[1], p[2])
      PROVE  AccessHeldByAppend'
  <2>1. p[1] \in Queues /\ p[2] \in Queues /\ p = <<p[1], p[2]>>
    OBVIOUS
  <2>2. /\ pc[t] = "idle" /\ access[p[1]] = Nobody
        /\ access' = [access EXCEPT ![p[1]] = t]
        /\ pc' = [pc EXCEPT ![t] = "append"]
        /\ on' = [on EXCEPT ![t] = p[1]]
        /\ them' = [them EXCEPT ![t] = p[2]]
    BY <1>8 DEF append_from, Unlocked
  <2>3. \A q \in Queues : access[q] # t
    BY <2>2 DEF AccessHeldByAppend, Unlocked
  <2>4. \A q \in Queues : access'[q] # Nobody =>
          pc'[access'[q]] = "append" /\ on'[access'[q]] = q
    BY <2>1, <2>2, <2>3 DEF TypeOK, SharedTypes, LocalTypes, AccessHeldByAppend, Unlocked
  <2>5. \A s \in Threads : pc'[s] = "append" =>
          access'[on'[s]] = s /\ <<on'[s], them'[s]>> \in AppendPairs
    <3> TAKE s \in Threads
    <3>1. CASE s = t
      BY <2>1, <2>2, <3>1 DEF TypeOK, SharedTypes, LocalTypes
    <3>2. CASE s # t
      <4>1. pc'[s] = pc[s] /\ on'[s] = on[s] /\ them'[s] = them[s]
        BY <2>2, <3>2 DEF TypeOK, LocalTypes
      <4>2. pc[s] = "append" => /\ access[on[s]] = s
                                /\ <<on[s], them[s]>> \in AppendPairs
        BY DEF AccessHeldByAppend
      <4>3. pc[s] = "append" => on[s] \in Queues /\ on[s] # p[1]
        BY <2>2, <4>2
      <4> QED
        BY <2>2, <4>1, <4>2, <4>3 DEF TypeOK, SharedTypes
    <3> QED
      BY <3>1, <3>2
  <2> QED
    BY <2>4, <2>5 DEF AccessHeldByAppend, Unlocked
<1>9. ASSUME NEW t \in Threads, append_move(t)
      PROVE  AccessHeldByAppend'
  <2>1. /\ pc[t] = "append" /\ on[t] \in Queues /\ access[on[t]] = t
        /\ access' = [access EXCEPT ![on[t]] = Nobody]
        /\ pc' = [pc EXCEPT ![t] = "idle"]
        /\ on' = [on EXCEPT ![t] = NoQueue]
        /\ them' = [them EXCEPT ![t] = NoQueue]
    BY <1>9 DEF append_move, AccessHeldByAppend, TypeOK, SharedTypes, LocalTypes
  <2>2. \A q \in Queues : access[q] = t => q = on[t]
    BY DEF AccessHeldByAppend, Unlocked
  <2> QED
    BY <2>1, <2>2 DEF TypeOK, SharedTypes, LocalTypes, AccessHeldByAppend, Unlocked
<1>10. CASE UNCHANGED vars
  BY <1>10 DEF vars, AccessHeldByAppend, Unlocked
<1> QED
  BY <1>1, <1>2, <1>3, <1>4, <1>5, <1>6, <1>7, <1>8, <1>9, <1>10 DEF Next

(* A step that leaves broadcasting threads and sleepers as they are, or    *)
(* wakes some, keeps SleeperWillBeWoken.                                   *)
LEMMA SleepersKept ==
    ASSUME SleeperWillBeWoken,
           \A s \in Threads : pc'[s] = "asleep" /\ unseen'[s] # {} =>
                pc[s] = "asleep" /\ unseen[s] # {} /\ on'[s] = on[s],
           \A s \in Threads : pc[s] = "broadcast" =>
                pc'[s] = "broadcast" /\ on'[s] = on[s]
    PROVE  SleeperWillBeWoken'
BY DEF SleeperWillBeWoken

(* Sleepers: an item is only added by a push that is then about to         *)
(* broadcast, and its broadcast wakes all sleepers of the queue.           *)
LEMMA StepSleepers ==
    IInv /\ [Next]_vars => SleeperWillBeWoken'
<1> SUFFICES ASSUME IInv, [Next]_vars
             PROVE  SleeperWillBeWoken'
  OBVIOUS
<1> USE QueueAssumption DEF IInv
<1>1. ASSUME NEW t \in Threads, NEW q \in Queues, push(t, q)
      PROVE  SleeperWillBeWoken'
  <2> SUFFICES ASSUME NEW s \in Threads, pc'[s] = "asleep", unseen'[s] # {}
               PROVE  \E p \in Threads : pc'[p] = "broadcast" /\ on'[p] = on'[s]
    BY DEF SleeperWillBeWoken
  <2>1. s # t /\ pc[s] = "asleep" /\ on'[s] = on[s]
    BY <1>1 DEF push, TypeOK, SharedTypes, LocalTypes
  <2>2. CASE on[s] = q
    BY <1>1, <2>1, <2>2 DEF push, TypeOK, SharedTypes, LocalTypes
  <2>3. CASE on[s] # q
    <3>1. unseen[s] # {}
      BY <1>1, <2>3 DEF push, SleepsOn
    <3>2. PICK p \in Threads : pc[p] = "broadcast" /\ on[p] = on[s]
      BY <2>1, <3>1 DEF SleeperWillBeWoken
    <3> QED
      BY <1>1, <2>1, <3>2 DEF push, TypeOK, SharedTypes, LocalTypes
  <2> QED
    BY <2>2, <2>3
<1>2. ASSUME NEW t \in Threads, push_broadcast(t)
      PROVE  SleeperWillBeWoken'
  <2> SUFFICES ASSUME NEW s \in Threads, pc'[s] = "asleep", unseen'[s] # {}
               PROVE  \E p \in Threads : pc'[p] = "broadcast" /\ on'[p] = on'[s]
    BY DEF SleeperWillBeWoken
  <2>1. s # t /\ pc[s] = "asleep" /\ on[s] # on[t] /\ unseen[s] # {}
    BY <1>2 DEF push_broadcast, SleepsOn
  <2>2. PICK p \in Threads : pc[p] = "broadcast" /\ on[p] = on[s]
    BY <2>1 DEF SleeperWillBeWoken
  <2> QED
    BY <1>2, <2>1, <2>2 DEF push_broadcast, SleepsOn, TypeOK, SharedTypes, LocalTypes
<1>3. ASSUME NEW t \in Threads, NEW q \in Queues,
             push_fails(t, q) \/ pop(t, q)
      PROVE  SleeperWillBeWoken'
  BY <1>3, SleepersKept DEF push_fails, pop
<1>4. ASSUME NEW t \in Threads, NEW q \in Queues, NEW tm \in BOOLEAN,
             wait_pop(t, q, tm)
      PROVE  SleeperWillBeWoken'
  <2>1. CASE queue[q] # <<>>
    BY <1>4, <2>1, SleepersKept DEF wait_pop
  <2>2. CASE queue[q] = <<>>
    BY <1>4, <2>2, SleepersKept DEF wait_pop, TypeOK, SharedTypes, LocalTypes
  <2> QED
    BY <2>1, <2>2
<1>5. ASSUME NEW t \in Threads,
             wait_pop_sleep(t) \/ wait_pop_timeout(t) \/ wait_pop_spurious(t)
      PROVE  SleeperWillBeWoken'
  BY <1>5, SleepersKept
     DEF wait_pop_sleep, wait_pop_timeout, wait_pop_spurious, TypeOK, SharedTypes, LocalTypes
<1>6. ASSUME NEW t \in Threads, wait_pop_recheck(t)
      PROVE  SleeperWillBeWoken'
  <2>1. CASE queue[on[t]] = <<>> /\ ~timed[t]
    BY <1>6, <2>1, SleepersKept DEF wait_pop_recheck, TypeOK, SharedTypes, LocalTypes
  <2>2. CASE ~(queue[on[t]] = <<>> /\ ~timed[t])
    BY <1>6, <2>2, SleepersKept DEF wait_pop_recheck, TypeOK, SharedTypes, LocalTypes
  <2> QED
    BY <2>1, <2>2
<1>7. ASSUME NEW t \in Threads, NEW p \in AppendPairs, append_from(t, p[1], p[2])
      PROVE  SleeperWillBeWoken'
  BY <1>7, SleepersKept DEF append_from, TypeOK, SharedTypes, LocalTypes
<1>8. ASSUME NEW t \in Threads, append_move(t)
      PROVE  SleeperWillBeWoken'
  BY <1>8, SleepersKept DEF append_move, TypeOK, SharedTypes, LocalTypes
<1>9. CASE UNCHANGED vars
  BY <1>9 DEF vars, SleeperWillBeWoken
<1> QED
  BY <1>1, <1>2, <1>3, <1>4, <1>5, <1>6, <1>7, <1>8, <1>9 DEF Next

LEMMA StepIInv == IInv /\ [Next]_vars => IInv'
BY StepTypeAndOrder, StepAccess, StepSleepers DEF IInv

LEMMA Invariance == Spec => []IInv
BY InitIInv, StepIInv, PTL DEF Spec

-----------------------------------------------------------------------------
(* Every variable keeps its type, and a thread in a call has a queue. *)
THEOREM TypeCorrect == Spec => []TypeOK
BY Invariance, PTL DEF IInv

(* The queues are first-in first-out, for any number of threads, whatever  *)
(* the interleaving of push, pop, wait_pop and append_from.                *)
THEOREM FifoOrder == Spec => []FIFO
BY Invariance, PTL DEF IInv

(* A thread asleep in wait_pop when an item is pushed is woken: the push   *)
(* has not returned before its broadcast.                                  *)
THEOREM PushWakesSleepers == Spec => []SleeperWillBeWoken
BY Invariance, PTL DEF IInv

(* m_accessMutex is held across a step only by append_from, on its own     *)
(* queue.                                                                  *)
THEOREM LockDiscipline == Spec => []AccessHeldByAppend
BY Invariance, PTL DEF IInv

-----------------------------------------------------------------------------
(* Refinement: raw_push is Put, raw_pop is Take or TakeNothing,            *)
(* append_move is Move, and every other step leaves contents and results.  *)
LEMMA RawPopIsTake ==
    ASSUME NEW t \in Threads, NEW q \in Queues, raw_pop(t, q)
    PROVE  Abstract!Next
<1>1. Abstract!Take(t, q) \/ Abstract!TakeNothing(t, q)
  BY DEF raw_pop, Abstract!Take, Abstract!TakeNothing
<1> QED
  BY <1>1 DEF Abstract!Next

LEMMA StepRefines == IInv /\ [Next]_vars => [Abstract!Next]_Abstract!vars
<1> SUFFICES ASSUME IInv, [Next]_vars
             PROVE  Abstract!Next \/ UNCHANGED <<queue, ret>>
  BY DEF Abstract!vars
<1> USE QueueAssumption DEF IInv
<1>1. ASSUME NEW t \in Threads, NEW q \in Queues, push(t, q)
      PROVE  Abstract!Next
  <2>1. made + 1 \in Items
    BY <1>1 DEF TypeOK, SharedTypes, push, Items
  <2>2. Abstract!Put(q, made + 1)
    BY <1>1 DEF push, raw_push, Abstract!Put
  <2> QED
    BY <2>1, <2>2 DEF Abstract!Next
<1>2. ASSUME NEW t \in Threads, NEW q \in Queues, push_fails(t, q)
      PROVE  UNCHANGED <<queue, ret>>
  BY <1>2 DEF push_fails
<1>3. ASSUME NEW t \in Threads, NEW q \in Queues, pop(t, q)
      PROVE  Abstract!Next
  BY <1>3, RawPopIsTake DEF pop
<1>4. ASSUME NEW t \in Threads, NEW q \in Queues, NEW tm \in BOOLEAN,
             wait_pop(t, q, tm)
      PROVE  Abstract!Next \/ UNCHANGED <<queue, ret>>
  BY <1>4, RawPopIsTake DEF wait_pop
<1>5. ASSUME NEW t \in Threads,
             push_broadcast(t) \/ wait_pop_sleep(t) \/ wait_pop_timeout(t)
               \/ wait_pop_spurious(t)
      PROVE  UNCHANGED <<queue, ret>>
  BY <1>5 DEF push_broadcast, wait_pop_sleep, wait_pop_timeout, wait_pop_spurious
<1>6. ASSUME NEW t \in Threads, wait_pop_recheck(t)
      PROVE  Abstract!Next \/ UNCHANGED <<queue, ret>>
  <2>1. on[t] \in Queues
    BY <1>6 DEF TypeOK, LocalTypes, wait_pop_recheck
  <2> QED
    BY <1>6, <2>1, RawPopIsTake DEF wait_pop_recheck
<1>7. ASSUME NEW t \in Threads, NEW p \in AppendPairs, append_from(t, p[1], p[2])
      PROVE  UNCHANGED <<queue, ret>>
  BY <1>7 DEF append_from
<1>8. ASSUME NEW t \in Threads, append_move(t)
      PROVE  Abstract!Next
  <2>1. /\ on[t] \in Queues /\ them[t] \in Queues
        /\ on[t] # them[t]
    BY <1>8 DEF AccessHeldByAppend, append_move
  <2>2. PICK k \in 0..Len(queue[them[t]]) : MoveItems(on[t], them[t], k)
    BY <1>8 DEF append_move
  <2>3. Abstract!Move(on[t], them[t], k)
    BY <1>8, <2>1, <2>2 DEF Abstract!Move, MoveItems, append_move
  <2> QED
    BY <2>1, <2>3 DEF Abstract!Next
<1>9. CASE UNCHANGED vars
  BY <1>9 DEF vars
<1> QED
  BY <1>1, <1>2, <1>3, <1>4, <1>5, <1>6, <1>7, <1>8, <1>9 DEF Next

(* DataQueue implements AbstractQueue: with its mutexes, condition waits   *)
(* and broadcasts, every queue still behaves as if each operation happened *)
(* at one instant.                                                         *)
THEOREM QueueIsLinearizable == Spec => Linearizable
<1>1. Init => Abstract!Init
  BY DEF Init, Abstract!Init
<1>2. QED
  BY <1>1, StepRefines, Invariance, PTL DEF Spec, Linearizable, Abstract!Spec
=============================================================================
