---------------------------- MODULE RouterProofs ----------------------------
(***************************************************************************)
(* The theorems about Router, for any number of application threads,       *)
(* sockets, queue entries, buffers and packets: typing, that every buffer  *)
(* is owned exactly once, that an unregistered entry's queue is empty,     *)
(* that queues keep the device's order, that only unclaimed packets reach  *)
(* m_default, and (when the condition wait has no spurious wakeup) that    *)
(* the read thread uses the device only while it is open.                  *)
(***************************************************************************)
EXTENDS Router, SequenceTheorems, TLAPS

-----------------------------------------------------------------------------
(* What the inductive invariant adds to the properties.  Each part relies  *)
(* on the others: the order of the packets on who owns the buffers, the    *)
(* ownership on empty retired queues, those on injective registrations.    *)

Busy == {"bulk", "routing", "lookup", "default", "call", "handler", "error",
         "callback", "unwind"}
Carrying == {"routing", "lookup", "default"}
Holders == Queues \cup Apps \cup {"reader"}

In(s, b) == \E i \in 1..Len(s) : s[i] = b
Injective(s) == \A i, j \in 1..Len(s) : s[i] = s[j] => i = j

(* The read thread's DataHandle owns a buffer from the fetch to the unwind. *)
ReaderHolds == rpc \in Busy <=> rbuf # None

(* A thread inside SocketRead has its QueueEntryPtr, and a DataHandle is   *)
(* filled by the read and emptied before the next one.                     *)
AppHolds ==
    \A t \in Apps :
        /\ apc[t] \in {"wait", "release"} => aref[t] \in Entries
        /\ abuf[t] # None => apc[t] \in {"release", "using"}

(* No two sockets share an entry. *)
RegInjective ==
    \A s, r \in Sockets : reg[s] # None /\ reg[s] = reg[r] => s = r

(* Every holder's buffers were allocated, every allocated buffer has a     *)
(* holder, no two holders share one, and no queue repeats one.             *)
Ownership ==
    /\ \A q \in Queues : Injective(queue[q])
    /\ \A p \in Holders, b \in Buffers : Holds(p, b) => b <= made
    /\ \A b \in 1..made : \E p \in Holders : Holds(p, b)
    /\ \A p, r \in Holders, b \in Buffers : Holds(p, b) /\ Holds(r, b) => p = r

(* The packet the reader routes is the last one sent. *)
PacketInHand ==
    rpc \in Carrying => content[rbuf] # None /\ content[rbuf].n = sent

(* m_interest says exactly whether some socket is registered. *)
InterestExact == interest <=> \E s \in Sockets : reg[s] # None

(* Until the reader looks it up, a packet nobody accepts now is one that   *)
(* nobody accepted at some instant.                                        *)
Claims ==
    rpc \in {"routing", "lookup"} /\ ~Accepts(content[rbuf]) => unclaimed

(* What is queued was sent, and before the packet in the reader's hand. *)
QueuedBefore ==
    \A q \in Queues \ {Free} : \A i \in 1..Len(queue[q]) :
        /\ content[queue[q][i]].n <= sent
        /\ rpc \in Carrying => content[queue[q][i]].n < sent

IInv ==
    /\ TypeOK
    /\ ReaderHolds /\ AppHolds /\ RegInjective
    /\ Ownership /\ RetiredQueueEmpty
    /\ PacketInHand /\ QueuesInOrder /\ QueuedBefore
    /\ InterestExact /\ Claims /\ DefaultOnlyIfUnclaimed

(* The controller's side: it clears m_dev before it waits, and a wait that *)
(* ended was ended by the end of a DoRead after that.                      *)
DeviceLent ==
    /\ dev <=> cpc = "attached"
    /\ cpc # "detached" => open
    /\ cpc \in {"cleared", "detached"} => rpc \notin Busy

-----------------------------------------------------------------------------
(* Facts about the queues as sequences of buffers. *)

LEMMA BufferElements ==
    \A s \in Seq(Buffers) : Len(s) \in Nat /\ \A i \in 1..Len(s) : s[i] \in Buffers
BY LenProperties, ElementOfSeq

LEMMA AppendFacts ==
    \A s \in Seq(Buffers), b \in Buffers :
        /\ Append(s, b) \in Seq(Buffers)
        /\ Len(Append(s, b)) = Len(s) + 1
        /\ Append(s, b)[Len(s) + 1] = b
        /\ \A i \in 1..Len(s) : Append(s, b)[i] = s[i]
<1> TAKE s \in Seq(Buffers), b \in Buffers
<1> QED
  BY AppendProperties, LenProperties

LEMMA TailFacts ==
    \A s \in Seq(Buffers) : s # <<>> =>
        /\ Tail(s) \in Seq(Buffers)
        /\ Head(s) = s[1] /\ Head(s) \in Buffers
        /\ Len(s) >= 1 /\ Len(Tail(s)) = Len(s) - 1
        /\ \A i \in 1..(Len(s) - 1) : Tail(s)[i] = s[i + 1]
<1> SUFFICES ASSUME NEW s \in Seq(Buffers), s # <<>>
             PROVE  /\ Tail(s) \in Seq(Buffers)
                    /\ Head(s) = s[1] /\ Head(s) \in Buffers
                    /\ Len(s) >= 1 /\ Len(Tail(s)) = Len(s) - 1
                    /\ \A i \in 1..(Len(s) - 1) : Tail(s)[i] = s[i + 1]
  OBVIOUS
<1>1. Len(s) \in Nat /\ Len(s) # 0
  BY EmptySeq, LenProperties
<1>2. Head(s) \in Buffers /\ Tail(s) \in Seq(Buffers)
  BY HeadTailProperties
<1>3. Len(Tail(s)) = Len(s) - 1 /\ \A i \in 1..Len(Tail(s)) : Tail(s)[i] = s[i + 1]
  BY HeadTailProperties
<1>4. Head(s) = s[1]
  BY <1>1, SMT
<1> QED
  BY <1>1, <1>2, <1>3, <1>4

LEMMA ConcatFacts ==
    \A s, r \in Seq(Buffers) :
        /\ s \o r \in Seq(Buffers)
        /\ Len(s \o r) = Len(s) + Len(r)
        /\ \A i \in 1..(Len(s) + Len(r)) :
              (s \o r)[i] = IF i <= Len(s) THEN s[i] ELSE r[i - Len(s)]
<1> TAKE s, r \in Seq(Buffers)
<1> QED
  BY ConcatProperties, LenProperties

(* Putting a buffer in a queue, ... *)
LEMMA PutBuffer ==
    \A s \in Seq(Buffers), b \in Buffers :
        /\ Append(s, b) \in Seq(Buffers)
        /\ \A c : In(Append(s, b), c) <=> In(s, c) \/ c = b
        /\ Injective(s) /\ ~In(s, b) => Injective(Append(s, b))
<1> SUFFICES ASSUME NEW s \in Seq(Buffers), NEW b \in Buffers
             PROVE  /\ Append(s, b) \in Seq(Buffers)
                    /\ \A c : In(Append(s, b), c) <=> In(s, c) \/ c = b
                    /\ Injective(s) /\ ~In(s, b) => Injective(Append(s, b))
  OBVIOUS
<1> DEFINE a == Append(s, b)
<1>1. /\ a \in Seq(Buffers) /\ Len(a) = Len(s) + 1 /\ a[Len(s) + 1] = b
      /\ \A i \in 1..Len(s) : a[i] = s[i]
      /\ Len(s) \in Nat
  BY AppendFacts, BufferElements, Zenon
<1> HIDE DEF a
<1>2. \A i \in 1..Len(a) : i = Len(s) + 1 \/ i \in 1..Len(s)
  BY <1>1
<1>3. \A i \in 1..Len(s) : i \in 1..Len(a)
  BY <1>1
<1>4. Len(s) + 1 \in 1..Len(a)
  BY <1>1
<1>5. ASSUME NEW c PROVE In(a, c) <=> In(s, c) \/ c = b
  BY <1>1, <1>2, <1>3, <1>4, Zenon DEF In
<1>6. ASSUME Injective(s), ~In(s, b) PROVE Injective(a)
  BY <1>1, <1>2, <1>6 DEF Injective, In
<1> QED
  BY <1>1, <1>5, <1>6 DEF a

(* ... taking the first one out, ... *)
LEMMA TakeBuffer ==
    \A s \in Seq(Buffers) : s # <<>> /\ Injective(s) =>
        /\ Tail(s) \in Seq(Buffers)
        /\ Head(s) \in Buffers /\ In(s, Head(s))
        /\ \A c : In(Tail(s), c) <=> In(s, c) /\ c # Head(s)
        /\ Injective(Tail(s))
<1> SUFFICES ASSUME NEW s \in Seq(Buffers), s # <<>>, Injective(s)
             PROVE  /\ Tail(s) \in Seq(Buffers)
                    /\ Head(s) \in Buffers /\ In(s, Head(s))
                    /\ \A c : In(Tail(s), c) <=> In(s, c) /\ c # Head(s)
                    /\ Injective(Tail(s))
  OBVIOUS
<1> DEFINE a == Tail(s)
           h == Head(s)
<1>1. /\ a \in Seq(Buffers) /\ h = s[1] /\ h \in Buffers
      /\ Len(s) >= 1 /\ Len(a) = Len(s) - 1
      /\ \A i \in 1..(Len(s) - 1) : a[i] = s[i + 1]
      /\ Len(s) \in Nat
  BY TailFacts, BufferElements, Zenon
<1> HIDE DEF a, h
<1>2. In(s, h)
  BY <1>1 DEF In
<1>3. ASSUME NEW c, In(a, c) PROVE In(s, c) /\ c # h
  <2>1. PICK i \in 1..Len(a) : a[i] = c
    BY <1>3 DEF In
  <2>2. i + 1 \in 1..Len(s) /\ s[i + 1] = c /\ i + 1 # 1 /\ 1 \in 1..Len(s)
    BY <1>1, <2>1
  <2> QED
    BY <1>1, <2>2 DEF In, Injective
<1>4. ASSUME NEW c, In(s, c), c # h PROVE In(a, c)
  <2>1. PICK i \in 1..Len(s) : s[i] = c
    BY <1>4 DEF In
  <2>2. i - 1 \in 1..Len(a) /\ a[i - 1] = c
    BY <1>1, <1>4, <2>1
  <2> QED
    BY <2>2 DEF In
<1>5. Injective(a)
  <2>1. SUFFICES ASSUME NEW i \in 1..Len(a), NEW j \in 1..Len(a), a[i] = a[j]
                 PROVE  i = j
    BY DEF Injective
  <2>2. /\ i + 1 \in 1..Len(s) /\ j + 1 \in 1..Len(s)
        /\ s[i + 1] = s[j + 1]
    BY <1>1, <2>1
  <2>3. i + 1 = j + 1
    BY <2>2 DEF Injective
  <2> QED
    BY <1>1, <2>3
<1> QED
  BY <1>1, <1>2, <1>3, <1>4, <1>5 DEF a, h

(* ... and moving all of one queue to the back of another. *)
LEMMA JoinBuffers ==
    \A s, r \in Seq(Buffers) :
        /\ s \o r \in Seq(Buffers)
        /\ \A c : In(s \o r, c) <=> In(s, c) \/ In(r, c)
        /\ Injective(s) /\ Injective(r) /\ (\A c : ~(In(s, c) /\ In(r, c)))
              => Injective(s \o r)
<1> SUFFICES ASSUME NEW s \in Seq(Buffers), NEW r \in Seq(Buffers)
             PROVE  /\ s \o r \in Seq(Buffers)
                    /\ \A c : In(s \o r, c) <=> In(s, c) \/ In(r, c)
                    /\ Injective(s) /\ Injective(r) /\ (\A c : ~(In(s, c) /\ In(r, c)))
                          => Injective(s \o r)
  OBVIOUS
<1> DEFINE a == s \o r
<1>1. /\ a \in Seq(Buffers) /\ Len(a) = Len(s) + Len(r)
      /\ Len(s) \in Nat /\ Len(r) \in Nat
      /\ \A i \in 1..(Len(s) + Len(r)) :
            a[i] = IF i <= Len(s) THEN s[i] ELSE r[i - Len(s)]
  BY ConcatFacts, BufferElements, Zenon
<1> HIDE DEF a
<1>2. \A i \in 1..Len(s) : i \in 1..Len(a) /\ a[i] = s[i]
  BY <1>1
<1>3. ASSUME NEW i \in 1..Len(r)
      PROVE  i + Len(s) \in 1..Len(a) /\ a[i + Len(s)] = r[i]
  <2>1. /\ i + Len(s) \in 1..(Len(s) + Len(r)) /\ ~(i + Len(s) <= Len(s))
        /\ (i + Len(s)) - Len(s) = i
    BY <1>1
  <2> QED
    BY <1>1, <2>1
<1>4. \A i \in 1..Len(a) :
         \/ i \in 1..Len(s) /\ a[i] = s[i]
         \/ i - Len(s) \in 1..Len(r) /\ a[i] = r[i - Len(s)]
  <2> TAKE i \in 1..Len(a)
  <2>1. CASE i <= Len(s)
    BY <1>1, <2>1
  <2>2. CASE ~(i <= Len(s))
    <3>1. i - Len(s) \in 1..Len(r)
      BY <1>1, <2>2
    <3> QED
      BY <1>1, <2>2, <3>1
  <2> QED
    BY <2>1, <2>2
<1>5. ASSUME NEW c PROVE In(a, c) <=> In(s, c) \/ In(r, c)
  BY <1>2, <1>3, <1>4, Zenon DEF In
<1>6. ASSUME Injective(s), Injective(r), \A c : ~(In(s, c) /\ In(r, c))
      PROVE  Injective(a)
  <2>1. \A i \in 1..Len(s), j \in 1..Len(r) : s[i] # r[j]
    BY <1>6, Zenon DEF In
  <2>2. SUFFICES ASSUME NEW i \in 1..Len(a), NEW j \in 1..Len(a), a[i] = a[j]
                 PROVE  i = j
    BY DEF Injective
  <2>3. CASE i \in 1..Len(s) /\ a[i] = s[i] /\ j \in 1..Len(s) /\ a[j] = s[j]
    BY <1>6, <2>2, <2>3 DEF Injective
  <2>4. CASE /\ i - Len(s) \in 1..Len(r) /\ a[i] = r[i - Len(s)]
             /\ j - Len(s) \in 1..Len(r) /\ a[j] = r[j - Len(s)]
    <3>1. i - Len(s) = j - Len(s)
      BY <1>6, <2>2, <2>4 DEF Injective
    <3> QED
      BY <1>1, <3>1
  <2> QED
    BY <1>4, <2>1, <2>2, <2>3, <2>4
<1> QED
  BY <1>1, <1>5, <1>6 DEF a

-----------------------------------------------------------------------------
(* Which steps touch what. *)

(* The steps that move a buffer. *)
BufferStep ==
    \/ DoReadFetch \/ QueuePacket \/ QueueDefault \/ DropBuffer
    \/ \E s \in Sockets : UnregisterInterest(s)
    \/ \E t \in Apps : \/ SocketReadPop(t) \/ SocketReadRelease(t)
                       \/ DefaultRead(t) \/ DropHandle(t)

LEMMA BufferFrame ==
    ASSUME [Next]_vars
    PROVE  BufferStep \/ UNCHANGED <<queue, made, rbuf, abuf>>
<1> USE DEF routerVars, readerVars, appVars, ctlVars, bufferVars, BufferStep
<1>1. CASE UNCHANGED vars
  BY <1>1 DEF vars
<1>2. CASE SpinoffSimpleReadThread \/ Destroy
  BY <1>2 DEF SpinoffSimpleReadThread, Destroy
<1>3. CASE ReaderStep
  BY <1>3 DEF ReaderStep, ReadThreadExits, DoReadIdle, BulkReadNothing, BulkReadError,
       BulkReadPacket, ReadInterest, RouteToHandler, NotAccepted, CallHandler,
       HandlerReturns, CollectHandlers, CallbacksReturn, ReadWaitSignal
<1>4. CASE ControllerStep
  BY <1>4 DEF ControllerStep, SetUsbDevice, ClearUsbDevice, ClearUsbDeviceWait,
       ClearUsbDeviceSpurious, CloseDevice
<1>5. ASSUME NEW s \in Sockets, NEW h \in BOOLEAN, NEW ty \in InterestType,
             RegisterInterestAndType(s, h, ty)
      PROVE  UNCHANGED <<queue, made, rbuf, abuf>>
  BY <1>5 DEF RegisterInterestAndType
<1>6. ASSUME NEW s \in Sockets, NEW ty \in InterestType, ChangeInterest(s, ty)
      PROVE  UNCHANGED <<queue, made, rbuf, abuf>>
  BY <1>6 DEF ChangeInterest
<1>7. ASSUME NEW t \in Apps, AppStep(t)
      PROVE  BufferStep \/ UNCHANGED <<queue, made, rbuf, abuf>>
  BY <1>7 DEF AppStep, SocketRead
<1> QED
  BY <1>1, <1>2, <1>3, <1>4, <1>5, <1>6, <1>7, Zenon DEF Next

(* The steps that change who is registered for what. *)
InterestStep ==
    \/ \E s \in Sockets, h \in BOOLEAN, ty \in InterestType :
          RegisterInterestAndType(s, h, ty)
    \/ \E s \in Sockets : UnregisterInterest(s)
    \/ \E s \in Sockets, ty \in InterestType : ChangeInterest(s, ty)

LEMMA InterestFrame ==
    ASSUME [Next]_vars
    PROVE  InterestStep \/ UNCHANGED <<interest, reg, handler, type>>
<1> USE DEF routerVars, readerVars, appVars, ctlVars, bufferVars, InterestStep
<1>1. CASE UNCHANGED vars
  BY <1>1 DEF vars
<1>2. CASE SpinoffSimpleReadThread \/ Destroy
  BY <1>2 DEF SpinoffSimpleReadThread, Destroy
<1>3. CASE ReaderStep
  BY <1>3 DEF ReaderStep, ReadThreadExits, DoReadIdle, DoReadFetch, BulkReadNothing,
       BulkReadError, BulkReadPacket, ReadInterest, QueuePacket, RouteToHandler,
       NotAccepted, QueueDefault, CallHandler, HandlerReturns, CollectHandlers,
       CallbacksReturn, DropBuffer, ReadWaitSignal
<1>4. CASE ControllerStep
  BY <1>4 DEF ControllerStep, SetUsbDevice, ClearUsbDevice, ClearUsbDeviceWait,
       ClearUsbDeviceSpurious, CloseDevice
<1>5. ASSUME NEW t \in Apps, AppStep(t)
      PROVE  UNCHANGED <<interest, reg, handler, type>>
  BY <1>5 DEF AppStep, SocketRead, SocketReadPop, SocketReadRelease, DefaultRead,
       DropHandle
<1> QED
  BY <1>1, <1>2, <1>3, <1>4, <1>5, Zenon DEF Next

(* The read thread's place, its packet count and the packets change with   *)
(* the read thread only, except that a buffer given back loses its packet. *)
LEMMA ReaderFrame ==
    ASSUME [Next]_vars
    PROVE  \/ ReaderStep
           \/ /\ rpc' = rpc \/ SpinoffSimpleReadThread
              /\ UNCHANGED <<rbuf, rentry, sent>>
<1> USE DEF routerVars, readerVars, appVars, ctlVars, bufferVars
<1>1. CASE UNCHANGED vars
  BY <1>1 DEF vars
<1>2. CASE SpinoffSimpleReadThread \/ Destroy
  BY <1>2 DEF SpinoffSimpleReadThread, Destroy
<1>3. CASE ControllerStep
  BY <1>3 DEF ControllerStep, SetUsbDevice, ClearUsbDevice, ClearUsbDeviceWait,
       ClearUsbDeviceSpurious, CloseDevice
<1>4. CASE InterestStep
  BY <1>4 DEF InterestStep, RegisterInterestAndType, UnregisterInterest, ChangeInterest
<1>5. ASSUME NEW t \in Apps, AppStep(t)
      PROVE  UNCHANGED <<rpc, rbuf, rentry, sent>>
  BY <1>5 DEF AppStep, SocketRead, SocketReadPop, SocketReadRelease, DefaultRead,
       DropHandle
<1> QED
  BY <1>1, <1>2, <1>3, <1>4, <1>5, Zenon DEF Next, InterestStep

-----------------------------------------------------------------------------
(* The initial states. *)
LEMMA InitIInv == Init => IInv /\ DeviceLent
<1> SUFFICES ASSUME Init PROVE IInv /\ DeviceLent
  OBVIOUS
<1> USE DEF Init
<1> DEFINE pre == [i \in 1..Prealloc |-> i]
<1>0. /\ Prealloc \in Nat /\ MaxBuffers \in Nat /\ MaxPackets \in Nat
      /\ Prealloc <= MaxBuffers
  BY RouterAssumption
<1>1. pre \in Seq(Buffers) /\ Len(pre) = Prealloc /\ \A i \in 1..Prealloc : pre[i] = i
  BY <1>0 DEF Buffers
<1>2. <<>> \in Seq(Buffers) /\ Len(<<>>) = 0
  OBVIOUS
<1> HIDE DEF pre
<1>3. /\ queue = [q \in Queues |-> IF q = Free THEN pre ELSE <<>>]
      /\ Free \in Queues /\ queue[Free] = pre
      /\ \A q \in Queues \ {Free} : queue[q] = <<>>
  BY DEF Queues, pre
<1>4. queue \in [Queues -> Seq(Buffers)]
  BY <1>1, <1>2, <1>3
<1>5. TypeOK
  <2>1. made \in 0..MaxBuffers /\ sent \in 0..MaxPackets
    BY <1>0
  <2>2. /\ reg \in [Sockets -> Entries \cup {None}]
        /\ handler \in [Entries -> BOOLEAN]
        /\ type \in [Entries -> InterestType]
        /\ content \in [Buffers -> Packet \cup {None}]
        /\ apc \in [Apps -> {"idle", "wait", "release", "default", "using"}]
        /\ aref \in [Apps -> Entries \cup {None}]
        /\ abuf \in [Apps -> Buffers \cup {None}]
    BY DEF InterestType
  <2> QED
    BY <1>4, <2>1, <2>2 DEF TypeOK, ReaderAt
<1>6. ReaderHolds /\ AppHolds /\ RegInjective
  BY DEF ReaderHolds, AppHolds, RegInjective, Busy
<1>7. Ownership
  <2>1. \A q \in Queues : Injective(queue[q])
    BY <1>1, <1>2, <1>3 DEF Injective
  <2>2. \A p \in Holders, b \in Buffers : Holds(p, b) <=> p = Free /\ b <= Prealloc
    <3> SUFFICES ASSUME NEW p \in Holders, NEW b \in Buffers
                 PROVE  Holds(p, b) <=> p = Free /\ b <= Prealloc
      OBVIOUS
    <3>1. rbuf # b /\ (p \in Apps => abuf[p] # b)
      BY RouterAssumption
    <3>2. CASE p = Free
      BY <1>0, <1>1, <1>3, <3>1, <3>2 DEF Holds, Buffers
    <3>3. CASE p # Free
      BY <1>2, <1>3, <3>1, <3>3 DEF Holds
    <3> QED
      BY <3>2, <3>3
  <2>3. Free \in Holders /\ \A b \in 1..made : b \in Buffers /\ b <= Prealloc
    BY <1>0 DEF Holders, Queues, Buffers
  <2> QED
    BY <2>1, <2>2, <2>3 DEF Ownership
<1>8. RetiredQueueEmpty /\ QueuesInOrder /\ QueuedBefore
  <2>1. \A q \in Queues \ {Free} : queue[q] = <<>> /\ Len(queue[q]) = 0
    BY <1>2, <1>3
  <2>2. \A e \in Entries : e \in Queues \ {Free}
    BY RouterAssumption DEF Queues
  <2> QED
    BY <2>1, <2>2 DEF RetiredQueueEmpty, QueuesInOrder, QueuedBefore
<1>9. PacketInHand /\ InterestExact /\ Claims /\ DefaultOnlyIfUnclaimed
  BY DEF PacketInHand, InterestExact, Claims, DefaultOnlyIfUnclaimed, Carrying
<1>10. DeviceLent
  BY DEF DeviceLent, Busy
<1> QED
  BY <1>5, <1>6, <1>7, <1>8, <1>9, <1>10 DEF IInv

-----------------------------------------------------------------------------
(* What the invariant says of the reader's buffer and packet. *)
LEMMA InHand ==
    ASSUME IInv
    PROVE  /\ rpc \in Busy => rbuf \in Buffers
           /\ rpc \in Carrying => /\ rbuf \in Buffers
                                  /\ content[rbuf] \in Packet
                                  /\ content[rbuf].socket \in Sockets
                                  /\ content[rbuf].n = sent
<1>1. rpc \in Busy => rbuf \in Buffers
  BY DEF IInv, TypeOK, ReaderHolds
<1>2. Carrying \subseteq Busy
  BY DEF Carrying, Busy
<1>3. rpc \in Carrying => content[rbuf] \in Packet /\ content[rbuf].n = sent
  BY <1>1, <1>2 DEF IInv, TypeOK, PacketInHand
<1> QED
  BY <1>1, <1>2, <1>3 DEF Packet

(* The entry an accepted packet goes to. *)
LEMMA AcceptingEntry ==
    ASSUME IInv, rpc = "lookup", Accepts(content[rbuf])
    PROVE  reg[content[rbuf].socket] \in Entries
BY InHand DEF Carrying, IInv, TypeOK, Accepts, AcceptsIn

(* Distinct names: no entry is m_free or m_default. *)
LEMMA Names ==
    /\ Free \in Queues /\ Default \in Queues /\ Entries \subseteq Queues
    /\ Free # Default /\ Free \notin Entries /\ Default \notin Entries
    /\ None \notin Entries /\ None \notin Buffers /\ None \notin Packet
    /\ "reader" \notin Queues /\ "reader" \notin Apps
    /\ \A t \in Apps : t \notin Queues
BY RouterAssumption DEF Queues

(* A buffer moves between the queues and handles it may be in. *)
LEMMA BufferTypes ==
    ASSUME IInv, [Next]_vars
    PROVE  /\ queue' \in [Queues -> Seq(Buffers)]
           /\ made' \in 0..MaxBuffers
           /\ rbuf' \in Buffers \cup {None}
           /\ abuf' \in [Apps -> Buffers \cup {None}]
<1>0. /\ queue \in [Queues -> Seq(Buffers)]
      /\ made \in 0..MaxBuffers
      /\ rbuf \in Buffers \cup {None}
      /\ abuf \in [Apps -> Buffers \cup {None}]
      /\ MaxBuffers \in Nat
      /\ \A q \in Queues : queue[q] \in Seq(Buffers) /\ Injective(queue[q])
  BY RouterAssumption DEF IInv, TypeOK, Ownership
<1>1. CASE UNCHANGED <<queue, made, rbuf, abuf>>
  BY <1>0, <1>1
<1>2. CASE DoReadFetch
  <2>1. CASE queue[Free] # <<>>
    <3>1. Tail(queue[Free]) \in Seq(Buffers) /\ Head(queue[Free]) \in Buffers
      BY <1>0, <2>1, TakeBuffer, Names, Zenon
    <3> QED
      BY <1>0, <1>2, <2>1, <3>1 DEF DoReadFetch, appVars
  <2>2. CASE queue[Free] = <<>>
    BY <1>0, <1>2, <2>2 DEF DoReadFetch, appVars, Buffers
  <2> QED
    BY <2>1, <2>2
<1>3. CASE QueuePacket
  <2>1. rpc = "lookup" /\ Accepts(content[rbuf])
    BY <1>3 DEF QueuePacket
  <2> DEFINE e == reg[content[rbuf].socket]
  <2>2. e \in Queues /\ rbuf \in Buffers
    BY <2>1, AcceptingEntry, InHand, Names DEF Carrying
  <2>3. Append(queue[e], rbuf) \in Seq(Buffers)
    BY <1>0, <2>2, PutBuffer, Zenon
  <2>4. /\ queue' = [queue EXCEPT ![e] = Append(queue[e], rbuf)]
        /\ rbuf' = None /\ made' = made /\ abuf' = abuf
    BY <1>3 DEF QueuePacket, appVars
  <2> QED
    BY <1>0, <2>2, <2>3, <2>4
<1>4. CASE QueueDefault
  <2>1. rbuf \in Buffers
    BY <1>4, InHand DEF QueueDefault, Carrying
  <2>2. Append(queue[Default], rbuf) \in Seq(Buffers)
    BY <1>0, <2>1, PutBuffer, Names, Zenon
  <2> QED
    BY <1>0, <1>4, <2>2 DEF QueueDefault, appVars
<1>5. CASE DropBuffer
  <2>1. rbuf \in Buffers
    BY <1>5, InHand DEF DropBuffer, Busy
  <2>2. Append(queue[Free], rbuf) \in Seq(Buffers)
    BY <1>0, <2>1, PutBuffer, Names, Zenon
  <2> QED
    BY <1>0, <1>5, <2>2 DEF DropBuffer, ReturnBuffer, appVars
<1>6. ASSUME NEW s \in Sockets, UnregisterInterest(s)
      PROVE  /\ queue' \in [Queues -> Seq(Buffers)]
             /\ UNCHANGED <<made, rbuf, abuf>>
  <2>1. reg[s] \in Queues
    BY <1>6, Names DEF UnregisterInterest, IInv, TypeOK
  <2>2. queue[Free] \o queue[reg[s]] \in Seq(Buffers) /\ <<>> \in Seq(Buffers)
    BY <1>0, <2>1, JoinBuffers, Names
  <2>3. /\ queue' = [queue EXCEPT ![Free] = queue[Free] \o queue[reg[s]],
                                  ![reg[s]] = <<>>]
        /\ UNCHANGED <<made, rbuf, abuf>>
    BY <1>6 DEF UnregisterInterest, appVars
  <2> QED
    BY <1>0, <2>2, <2>3
<1>7. ASSUME NEW t \in Apps, SocketReadPop(t)
      PROVE  /\ queue' \in [Queues -> Seq(Buffers)]
             /\ abuf' \in [Apps -> Buffers \cup {None}]
             /\ UNCHANGED <<made, rbuf>>
  <2>1. aref[t] \in Queues
    BY <1>7, Names DEF SocketReadPop, IInv, AppHolds
  <2>2. UNCHANGED <<made, rbuf>>
    BY <1>7 DEF SocketReadPop, readerVars
  <2>3. CASE queue[aref[t]] # <<>>
    <3>1. Tail(queue[aref[t]]) \in Seq(Buffers) /\ Head(queue[aref[t]]) \in Buffers
      BY <1>0, <2>1, <2>3, TakeBuffer, Zenon
    <3>2. /\ queue' = [queue EXCEPT ![aref[t]] = Tail(queue[aref[t]])]
          /\ abuf' = [abuf EXCEPT ![t] = Head(queue[aref[t]])]
      BY <1>7, <2>3 DEF SocketReadPop
    <3> QED
      BY <1>0, <2>1, <2>2, <3>1, <3>2
  <2>4. CASE queue[aref[t]] = <<>>
    BY <1>0, <1>7, <2>2, <2>4 DEF SocketReadPop
  <2> QED
    BY <2>3, <2>4
<1>8. ASSUME NEW t \in Apps, SocketReadRelease(t)
      PROVE  /\ queue' \in [Queues -> Seq(Buffers)]
             /\ UNCHANGED <<made, rbuf, abuf>>
  <2>1. UNCHANGED <<made, rbuf, abuf>>
    BY <1>8 DEF SocketReadRelease, readerVars
  <2>2. queue' = queue \/ queue' = [queue EXCEPT ![aref[t]] = <<>>]
    BY <1>8 DEF SocketReadRelease
  <2>3. <<>> \in Seq(Buffers)
    OBVIOUS
  <2> QED
    BY <1>0, <2>1, <2>2, <2>3
<1>9. ASSUME NEW t \in Apps, DefaultRead(t)
      PROVE  /\ queue' \in [Queues -> Seq(Buffers)]
             /\ abuf' \in [Apps -> Buffers \cup {None}]
             /\ UNCHANGED <<made, rbuf>>
  <2>1. CASE queue[Default] # <<>>
    <3>1. Tail(queue[Default]) \in Seq(Buffers) /\ Head(queue[Default]) \in Buffers
      BY <1>0, <2>1, TakeBuffer, Names, Zenon
    <3> QED
      BY <1>0, <1>9, <2>1, <3>1 DEF DefaultRead, readerVars
  <2>2. CASE queue[Default] = <<>>
    BY <1>0, <1>9, <2>2 DEF DefaultRead, readerVars
  <2> QED
    BY <2>1, <2>2
<1>10. ASSUME NEW t \in Apps, DropHandle(t)
       PROVE  /\ queue' \in [Queues -> Seq(Buffers)]
              /\ abuf' \in [Apps -> Buffers \cup {None}]
              /\ UNCHANGED <<made, rbuf>>
  <2>1. CASE abuf[t] = None
    BY <1>0, <1>10, <2>1 DEF DropHandle, readerVars
  <2>2. CASE abuf[t] # None
    <3>1. Append(queue[Free], abuf[t]) \in Seq(Buffers)
      BY <1>0, <2>2, PutBuffer, Names, Zenon
    <3> QED
      BY <1>0, <1>10, <2>2, <3>1 DEF DropHandle, ReturnBuffer, readerVars
  <2> QED
    BY <2>1, <2>2
<1> QED
  BY <1>0, <1>1, <1>2, <1>3, <1>4, <1>5, <1>6, <1>7, <1>8, <1>9, <1>10, BufferFrame
     DEF BufferStep

(* The packet a BulkRead delivers. *)
LEMMA NewPacket ==
    ASSUME IInv, NEW s \in Sockets, NEW sq \in BOOLEAN, BulkReadPacket(s, sq)
    PROVE  LET p == [n |-> sent + 1, socket |-> s, seq |-> sq]
           IN  /\ p \in Packet /\ p # None
               /\ rbuf \in Buffers
               /\ content' = [content EXCEPT ![rbuf] = p]
               /\ sent' = sent + 1 /\ sent' \in 0..MaxPackets
               /\ unclaimed' = ~Accepts(p)
<1>1. rbuf \in Buffers
  BY InHand DEF BulkReadPacket, Busy
<1>2. sent \in Nat /\ MaxPackets \in Nat /\ sent < MaxPackets
  BY RouterAssumption DEF IInv, TypeOK, BulkReadPacket
<1>3. [n |-> sent + 1, socket |-> s, seq |-> sq] \in Packet
  BY <1>2 DEF Packet
<1> QED
  BY <1>1, <1>2, <1>3, Names DEF BulkReadPacket

(* The steps that change what a buffer holds. *)
LEMMA ContentFrame ==
    ASSUME IInv, [Next]_vars
    PROVE  \/ UNCHANGED content
           \/ \E s \in Sockets, sq \in BOOLEAN : BulkReadPacket(s, sq)
           \/ DropBuffer
           \/ \E s \in Sockets : UnregisterInterest(s)
           \/ \E t \in Apps : DropHandle(t)
<1> USE DEF routerVars, readerVars, appVars, ctlVars, bufferVars
<1>1. CASE UNCHANGED vars
  BY <1>1 DEF vars
<1>2. CASE SpinoffSimpleReadThread \/ Destroy
  BY <1>2 DEF SpinoffSimpleReadThread, Destroy
<1>3. CASE ReaderStep
  BY <1>3 DEF ReaderStep, ReadThreadExits, DoReadIdle, DoReadFetch, BulkReadNothing,
       BulkReadError, ReadInterest, QueuePacket, RouteToHandler, NotAccepted,
       QueueDefault, CallHandler, HandlerReturns, CollectHandlers, CallbacksReturn,
       ReadWaitSignal
<1>4. CASE ControllerStep
  BY <1>4 DEF ControllerStep, SetUsbDevice, ClearUsbDevice, ClearUsbDeviceWait,
       ClearUsbDeviceSpurious, CloseDevice
<1>5. ASSUME NEW s \in Sockets, NEW h \in BOOLEAN, NEW ty \in InterestType,
             RegisterInterestAndType(s, h, ty)
      PROVE  UNCHANGED content
  BY <1>5 DEF RegisterInterestAndType
<1>6. ASSUME NEW s \in Sockets, NEW ty \in InterestType, ChangeInterest(s, ty)
      PROVE  UNCHANGED content
  BY <1>6 DEF ChangeInterest
<1>7. ASSUME NEW t \in Apps, AppStep(t)
      PROVE  UNCHANGED content \/ DropHandle(t)
  BY <1>7 DEF AppStep, SocketRead, SocketReadPop, SocketReadRelease, DefaultRead
<1> QED
  BY <1>1, <1>2, <1>3, <1>4, <1>5, <1>6, <1>7, Zenon DEF Next

LEMMA ContentTypes ==
    ASSUME IInv, [Next]_vars
    PROVE  /\ content' \in [Buffers -> Packet \cup {None}]
           /\ sent' \in 0..MaxPackets
<1>0. content \in [Buffers -> Packet \cup {None}] /\ sent \in 0..MaxPackets
  BY DEF IInv, TypeOK
<1>1. ASSUME NEW s \in Sockets, NEW sq \in BOOLEAN, BulkReadPacket(s, sq)
      PROVE  content' \in [Buffers -> Packet \cup {None}] /\ sent' \in 0..MaxPackets
  BY <1>0, <1>1, NewPacket
<1>2. ASSUME NEW s \in Sockets, UnregisterInterest(s)
      PROVE  content' \in [Buffers -> Packet \cup {None}]
  BY <1>0, <1>2 DEF UnregisterInterest
<1>3. content' \in [Buffers -> Packet \cup {None}]
  BY <1>0, <1>1, <1>2, ContentFrame DEF DropBuffer, DropHandle, ReturnBuffer
<1>4. sent' = sent \/ \E s \in Sockets, sq \in BOOLEAN : BulkReadPacket(s, sq)
  BY ReaderFrame DEF ReaderStep, ReadThreadExits, DoReadIdle, DoReadFetch,
     BulkReadNothing, BulkReadError, ReadInterest, QueuePacket, RouteToHandler,
     NotAccepted, QueueDefault, CallHandler, HandlerReturns, CollectHandlers,
     CallbacksReturn, DropBuffer, ReadWaitSignal
<1> QED
  BY <1>0, <1>1, <1>3, <1>4

LEMMA InterestTypes ==
    ASSUME IInv, [Next]_vars
    PROVE  /\ reg' \in [Sockets -> Entries \cup {None}]
           /\ handler' \in [Entries -> BOOLEAN]
           /\ type' \in [Entries -> InterestType]
           /\ interest' \in BOOLEAN
<1>0. /\ reg \in [Sockets -> Entries \cup {None}]
      /\ handler \in [Entries -> BOOLEAN]
      /\ type \in [Entries -> InterestType]
      /\ interest \in BOOLEAN
      /\ "data" \in InterestType
  BY DEF IInv, TypeOK, InterestType
<1>1. ASSUME NEW s \in Sockets, NEW h \in BOOLEAN, NEW ty \in InterestType,
             RegisterInterestAndType(s, h, ty)
      PROVE  /\ reg' \in [Sockets -> Entries \cup {None}]
             /\ handler' \in [Entries -> BOOLEAN]
             /\ type' \in [Entries -> InterestType]
             /\ interest' \in BOOLEAN
  BY <1>0, <1>1 DEF RegisterInterestAndType
<1>2. ASSUME NEW s \in Sockets, UnregisterInterest(s)
      PROVE  /\ reg' \in [Sockets -> Entries \cup {None}]
             /\ handler' \in [Entries -> BOOLEAN]
             /\ type' \in [Entries -> InterestType]
             /\ interest' \in BOOLEAN
  BY <1>0, <1>2 DEF UnregisterInterest
<1>3. ASSUME NEW s \in Sockets, NEW ty \in InterestType, ChangeInterest(s, ty)
      PROVE  /\ reg' = reg /\ handler' = handler
             /\ type' \in [Entries -> InterestType]
             /\ interest' = interest
  BY <1>0, <1>3 DEF ChangeInterest
<1> QED
  BY <1>0, <1>1, <1>2, <1>3, InterestFrame DEF InterestStep

(* The rest of the types: where everyone is, and the flags. *)
LEMMA PlaceTypes ==
    ASSUME IInv, [Next]_vars
    PROVE  /\ dev' \in BOOLEAN /\ seen_error' \in BOOLEAN /\ running' \in BOOLEAN
           /\ unclaimed' \in BOOLEAN /\ open' \in BOOLEAN
           /\ rpc' \in ReaderAt /\ rentry' \in Entries \cup {None}
           /\ apc' \in [Apps -> {"idle", "wait", "release", "default", "using"}]
           /\ aref' \in [Apps -> Entries \cup {None}]
           /\ cpc' \in {"detached", "attached", "clearing", "asleep", "cleared"}
<1> DEFINE Places ==
      /\ dev \in BOOLEAN /\ seen_error \in BOOLEAN /\ running \in BOOLEAN
      /\ unclaimed \in BOOLEAN /\ open \in BOOLEAN
      /\ rpc \in ReaderAt /\ rentry \in Entries \cup {None}
      /\ apc \in [Apps -> {"idle", "wait", "release", "default", "using"}]
      /\ aref \in [Apps -> Entries \cup {None}]
      /\ cpc \in {"detached", "attached", "clearing", "asleep", "cleared"}
<1> USE DEF routerVars, readerVars, appVars, ctlVars, bufferVars, ReaderAt
<1>0. Places /\ reg \in [Sockets -> Entries \cup {None}]
  BY DEF IInv, TypeOK
<1>1. CASE UNCHANGED vars
  BY <1>0, <1>1 DEF vars
<1>2. CASE SpinoffSimpleReadThread \/ Destroy
  BY <1>0, <1>2 DEF SpinoffSimpleReadThread, Destroy
<1>3. CASE ReaderStep
  <2>1. CASE RouteToHandler
    <3>1. rpc = "lookup" /\ Accepts(content[rbuf]) /\ rentry' = reg[content[rbuf].socket]
      BY <2>1 DEF RouteToHandler
    <3>2. rentry' \in Entries
      BY <3>1, AcceptingEntry
    <3> QED
      BY <1>0, <2>1, <3>2 DEF RouteToHandler
  <2>2. ASSUME NEW s \in Sockets, NEW sq \in BOOLEAN, BulkReadPacket(s, sq)
        PROVE  Places'
    BY <1>0, <2>2 DEF BulkReadPacket, Accepts, AcceptsIn
  <2>3. CASE \/ ReadThreadExits \/ DoReadIdle \/ DoReadFetch \/ BulkReadNothing
             \/ BulkReadError \/ ReadInterest \/ QueuePacket
    BY <1>0, <2>3 DEF ReadThreadExits, DoReadIdle, DoReadFetch, BulkReadNothing,
       BulkReadError, ReadInterest, QueuePacket
  <2>4. CASE \/ NotAccepted \/ QueueDefault \/ CallHandler \/ HandlerReturns
             \/ CollectHandlers \/ CallbacksReturn \/ DropBuffer \/ ReadWaitSignal
    BY <1>0, <2>4 DEF NotAccepted, QueueDefault, CallHandler, HandlerReturns,
       CollectHandlers, CallbacksReturn, DropBuffer, ReadWaitSignal
  <2> QED
    BY <1>3, <2>1, <2>2, <2>3, <2>4 DEF ReaderStep
<1>4. CASE ControllerStep
  BY <1>0, <1>4 DEF ControllerStep, SetUsbDevice, ClearUsbDevice, ClearUsbDeviceWait,
       ClearUsbDeviceSpurious, CloseDevice
<1>5. ASSUME NEW s \in Sockets, NEW h \in BOOLEAN, NEW ty \in InterestType,
             RegisterInterestAndType(s, h, ty)
      PROVE  Places'
  BY <1>0, <1>5 DEF RegisterInterestAndType
<1>6. ASSUME NEW s \in Sockets, UnregisterInterest(s)
      PROVE  Places'
  BY <1>0, <1>6 DEF UnregisterInterest, StillUnclaimed, AcceptsIn
<1>7. ASSUME NEW s \in Sockets, NEW ty \in InterestType, ChangeInterest(s, ty)
      PROVE  Places'
  BY <1>0, <1>7 DEF ChangeInterest, StillUnclaimed, AcceptsIn
<1>8. ASSUME NEW t \in Apps, AppStep(t)
      PROVE  Places'
  <2>1. ASSUME NEW s \in Sockets, SocketRead(t, s)
        PROVE  Places'
    BY <1>0, <2>1 DEF SocketRead
  <2>2. CASE SocketReadPop(t) \/ SocketReadRelease(t) \/ DefaultRead(t) \/ DropHandle(t)
    BY <1>0, <2>2 DEF SocketReadPop, SocketReadRelease, DefaultRead, DropHandle
  <2> QED
    BY <1>8, <2>1, <2>2 DEF AppStep
<1> QED
  BY <1>1, <1>2, <1>3, <1>4, <1>5, <1>6, <1>7, <1>8 DEF Next

LEMMA TypeOKStep ==
    ASSUME IInv, [Next]_vars
    PROVE  TypeOK'
BY BufferTypes, ContentTypes, InterestTypes, PlaceTypes DEF TypeOK

-----------------------------------------------------------------------------
(* One lemma for each part of the invariant that a step could disturb. *)

LEMMA ReaderHoldsStep ==
    ASSUME IInv, [Next]_vars
    PROVE  ReaderHolds'
<1>0. /\ rpc \in Busy <=> rbuf # None
      /\ rpc \in ReaderAt
      /\ made \in Nat
      /\ queue \in [Queues -> Seq(Buffers)] /\ \A q \in Queues : Injective(queue[q])
  BY RouterAssumption DEF IInv, TypeOK, ReaderHolds, Ownership
<1>1. CASE DoReadFetch
  <2>1. rbuf' \in Buffers
    <3>1. CASE queue[Free] # <<>>
      <4>1. Head(queue[Free]) \in Buffers
        BY <1>0, <3>1, TakeBuffer, Names, Zenon
      <4> QED
        BY <1>1, <3>1, <4>1 DEF DoReadFetch
    <3>2. CASE queue[Free] = <<>>
      BY <1>0, <1>1, <3>2, RouterAssumption DEF DoReadFetch, Buffers
    <3> QED
      BY <3>1, <3>2
  <2>2. rpc' = "bulk"
    BY <1>1 DEF DoReadFetch
  <2> QED
    BY <2>1, <2>2, Names DEF ReaderHolds, Busy
<1>2. CASE \/ ReadThreadExits \/ DoReadIdle \/ BulkReadNothing \/ BulkReadError
           \/ ReadInterest \/ QueuePacket \/ RouteToHandler \/ NotAccepted
  BY <1>0, <1>2 DEF ReaderHolds, Busy, ReadThreadExits, DoReadIdle, BulkReadNothing,
     BulkReadError, ReadInterest, QueuePacket, RouteToHandler, NotAccepted
<1>3. CASE \/ QueueDefault \/ CallHandler \/ HandlerReturns \/ CollectHandlers
           \/ CallbacksReturn \/ DropBuffer \/ ReadWaitSignal
  BY <1>0, <1>3 DEF ReaderHolds, Busy, QueueDefault, CallHandler, HandlerReturns,
     CollectHandlers, CallbacksReturn, DropBuffer, ReadWaitSignal
<1>4. CASE \E s \in Sockets, sq \in BOOLEAN : BulkReadPacket(s, sq)
  BY <1>0, <1>4 DEF ReaderHolds, Busy, BulkReadPacket
<1>5. CASE rbuf' = rbuf /\ (rpc' = rpc \/ SpinoffSimpleReadThread)
  BY <1>0, <1>5 DEF ReaderHolds, Busy, SpinoffSimpleReadThread
<1> QED
  BY <1>1, <1>2, <1>3, <1>4, <1>5, ReaderFrame DEF ReaderStep

LEMMA AppFrame ==
    ASSUME [Next]_vars
    PROVE  UNCHANGED appVars \/ \E t \in Apps : AppStep(t)
<1> USE DEF routerVars, readerVars, ctlVars, bufferVars
<1>1. CASE UNCHANGED vars
  BY <1>1 DEF vars
<1>2. CASE SpinoffSimpleReadThread \/ Destroy
  BY <1>2 DEF SpinoffSimpleReadThread, Destroy
<1>3. CASE ReaderStep
  BY <1>3 DEF ReaderStep, ReadThreadExits, DoReadIdle, DoReadFetch, BulkReadNothing,
       BulkReadError, BulkReadPacket, ReadInterest, QueuePacket, RouteToHandler,
       NotAccepted, QueueDefault, CallHandler, HandlerReturns, CollectHandlers,
       CallbacksReturn, DropBuffer, ReadWaitSignal
<1>4. CASE ControllerStep
  BY <1>4 DEF ControllerStep, SetUsbDevice, ClearUsbDevice, ClearUsbDeviceWait,
       ClearUsbDeviceSpurious, CloseDevice
<1>5. CASE InterestStep
  BY <1>5 DEF InterestStep, RegisterInterestAndType, UnregisterInterest, ChangeInterest
<1> QED
  BY <1>1, <1>2, <1>3, <1>4, <1>5, Zenon DEF Next, InterestStep

LEMMA AppHoldsStep ==
    ASSUME IInv, [Next]_vars
    PROVE  AppHolds'
<1>0. /\ AppHolds
      /\ apc \in [Apps -> {"idle", "wait", "release", "default", "using"}]
      /\ aref \in [Apps -> Entries \cup {None}]
      /\ abuf \in [Apps -> Buffers \cup {None}]
      /\ reg \in [Sockets -> Entries \cup {None}]
  BY DEF IInv, TypeOK
<1>1. CASE UNCHANGED appVars
  BY <1>0, <1>1 DEF appVars, AppHolds
<1>2. ASSUME NEW t \in Apps, AppStep(t)
      PROVE  AppHolds'
  <2>1. ASSUME NEW s \in Sockets, SocketRead(t, s)
        PROVE  AppHolds'
    BY <1>0, <2>1 DEF AppHolds, SocketRead
  <2>2. CASE SocketReadPop(t)
    BY <1>0, <2>2 DEF AppHolds, SocketReadPop
  <2>3. CASE SocketReadRelease(t)
    BY <1>0, <2>3 DEF AppHolds, SocketReadRelease
  <2>4. CASE DefaultRead(t)
    BY <1>0, <2>4 DEF AppHolds, DefaultRead
  <2>5. CASE DropHandle(t)
    BY <1>0, <2>5 DEF AppHolds, DropHandle
  <2> QED
    BY <1>2, <2>1, <2>2, <2>3, <2>4, <2>5 DEF AppStep
<1> QED
  BY <1>1, <1>2, AppFrame

(* Only an entry nobody refers to is registered anew, so registrations     *)
(* stay injective; m_interest follows the map.                             *)
LEMMA RegistrationStep ==
    ASSUME IInv, [Next]_vars
    PROVE  RegInjective' /\ InterestExact'
<1>0. /\ RegInjective /\ InterestExact
      /\ reg \in [Sockets -> Entries \cup {None}]
  BY DEF IInv, TypeOK
<1>1. CASE UNCHANGED <<interest, reg, handler, type>>
  BY <1>0, <1>1 DEF RegInjective, InterestExact
<1>2. ASSUME NEW s \in Sockets, NEW h \in BOOLEAN, NEW ty \in InterestType,
             RegisterInterestAndType(s, h, ty)
      PROVE  RegInjective' /\ InterestExact'
  <2>1. PICK e \in Entries : ~Registered(e) /\ reg' = [reg EXCEPT ![s] = e]
    BY <1>2 DEF RegisterInterestAndType, Alive
  <2>2. interest' = TRUE
    BY <1>2 DEF RegisterInterestAndType
  <2> QED
    BY <1>0, <2>1, <2>2, Names DEF RegInjective, InterestExact, Registered
<1>3. ASSUME NEW s \in Sockets, UnregisterInterest(s)
      PROVE  RegInjective' /\ InterestExact'
  BY <1>0, <1>3 DEF RegInjective, InterestExact, UnregisterInterest
<1>4. ASSUME NEW s \in Sockets, NEW ty \in InterestType, ChangeInterest(s, ty)
      PROVE  RegInjective' /\ InterestExact'
  BY <1>0, <1>4 DEF RegInjective, InterestExact, ChangeInterest
<1> QED
  BY <1>1, <1>2, <1>3, <1>4, InterestFrame DEF InterestStep

(* An entry leaves the map with its queue emptied, and only a registered   *)
(* entry's queue is filled.                                                *)
LEMMA RetiredStep ==
    ASSUME IInv, [Next]_vars
    PROVE  RetiredQueueEmpty'
<1>0. /\ RetiredQueueEmpty /\ RegInjective
      /\ reg \in [Sockets -> Entries \cup {None}]
      /\ queue \in [Queues -> Seq(Buffers)]
  BY DEF IInv, TypeOK
<1>1. ASSUME UNCHANGED reg, \A e \in Entries : queue[e] = <<>> => queue'[e] = <<>>
      PROVE  RetiredQueueEmpty'
  BY <1>0, <1>1 DEF RetiredQueueEmpty, Registered
<1>2. ASSUME NEW s \in Sockets, UnregisterInterest(s)
      PROVE  RetiredQueueEmpty'
  <2>1. /\ reg[s] \in Entries
        /\ reg' = [reg EXCEPT ![s] = None]
        /\ queue' = [queue EXCEPT ![Free] = queue[Free] \o queue[reg[s]],
                                  ![reg[s]] = <<>>]
    BY <1>0, <1>2 DEF UnregisterInterest
  <2>2. SUFFICES ASSUME NEW e \in Entries, ~Registered(e)'
                 PROVE  queue'[e] = <<>>
    BY DEF RetiredQueueEmpty
  <2>3. CASE e = reg[s]
    BY <1>0, <2>1, <2>3, Names
  <2>4. CASE e # reg[s]
    <3>1. ~Registered(e)
      BY <1>0, <2>1, <2>2, <2>4, Names DEF Registered
    <3> QED
      BY <1>0, <2>1, <2>4, <3>1, Names DEF RetiredQueueEmpty
  <2> QED
    BY <2>3, <2>4
<1>3. ASSUME NEW s \in Sockets, NEW h \in BOOLEAN, NEW ty \in InterestType,
             RegisterInterestAndType(s, h, ty)
      PROVE  RetiredQueueEmpty'
  <2>1. PICK e \in Entries : reg' = [reg EXCEPT ![s] = e]
    BY <1>3 DEF RegisterInterestAndType
  <2>2. queue' = queue /\ reg[s] = None
    BY <1>3 DEF RegisterInterestAndType, bufferVars
  <2> QED
    BY <1>0, <2>1, <2>2, Names DEF RetiredQueueEmpty, Registered
<1>4. ASSUME NEW s \in Sockets, NEW ty \in InterestType, ChangeInterest(s, ty)
      PROVE  UNCHANGED <<reg, queue>>
  BY <1>4 DEF ChangeInterest, bufferVars
<1>5. CASE QueuePacket
  <2>1. rpc = "lookup" /\ Accepts(content[rbuf])
    BY <1>5 DEF QueuePacket
  <2> DEFINE f == reg[content[rbuf].socket]
  <2>2. f \in Entries /\ Registered(f)
    BY <2>1, AcceptingEntry, InHand DEF Registered, Carrying
  <2>3. reg' = reg /\ queue' = [queue EXCEPT ![f] = Append(queue[f], rbuf)]
    BY <1>5 DEF QueuePacket, routerVars
  <2> HIDE DEF f
  <2>4. ASSUME NEW e \in Entries, ~Registered(e)'
        PROVE  queue'[e] = <<>>
    <3>1. ~Registered(e) /\ e # f
      BY <2>2, <2>3, <2>4 DEF Registered
    <3> QED
      BY <1>0, <2>3, <3>1, Names DEF RetiredQueueEmpty
  <2> QED
    BY <2>4 DEF RetiredQueueEmpty
<1>6. CASE DoReadFetch \/ QueueDefault \/ DropBuffer
  <2>1. UNCHANGED reg
    BY <1>6 DEF DoReadFetch, QueueDefault, DropBuffer, routerVars
  <2>2. \A e \in Entries : queue'[e] = queue[e]
    BY <1>0, <1>6, Names DEF DoReadFetch, QueueDefault, DropBuffer, ReturnBuffer
  <2> QED
    BY <1>1, <2>1, <2>2
<1>7. ASSUME NEW t \in Apps,
             \/ SocketReadPop(t) \/ SocketReadRelease(t)
             \/ DefaultRead(t) \/ DropHandle(t)
      PROVE  RetiredQueueEmpty'
  <2>1. UNCHANGED reg
    BY <1>7 DEF SocketReadPop, SocketReadRelease, DefaultRead, DropHandle, routerVars
  <2>2. ASSUME NEW e \in Entries, queue[e] = <<>>
        PROVE  queue'[e] = <<>>
    <3>1. CASE SocketReadPop(t)
      BY <1>0, <2>2, <3>1, Names DEF SocketReadPop
    <3>2. CASE SocketReadRelease(t)
      BY <1>0, <2>2, <3>2, Names DEF SocketReadRelease
    <3>3. CASE DefaultRead(t) \/ DropHandle(t)
      BY <1>0, <2>2, <3>3, Names DEF DefaultRead, DropHandle, ReturnBuffer
    <3> QED
      BY <1>7, <3>1, <3>2, <3>3
  <2> QED
    BY <1>1, <2>1, <2>2
<1>8. CASE UNCHANGED <<queue, made, rbuf, abuf>>
  BY <1>1, <1>2, <1>3, <1>4, <1>8, InterestFrame DEF InterestStep
<1> QED
  BY <1>2, <1>5, <1>6, <1>7, <1>8, BufferFrame DEF BufferStep

-----------------------------------------------------------------------------
(* Who holds which buffer. *)

LEMMA HoldsWhere ==
    ASSUME NEW b \in Buffers
    PROVE  /\ \A q \in Queues : Holds(q, b) <=> In(queue[q], b)
           /\ \A t \in Apps : Holds(t, b) <=> abuf[t] = b
           /\ Holds("reader", b) <=> rbuf = b
BY Names DEF Holds, In

LEMMA HoldsWhereNext ==
    ASSUME NEW b \in Buffers
    PROVE  /\ \A q \in Queues : Holds(q, b)' <=> In(queue'[q], b)
           /\ \A t \in Apps : Holds(t, b)' <=> abuf'[t] = b
           /\ Holds("reader", b)' <=> rbuf' = b
BY Names DEF Holds, In

(* A step that moves the buffers of M from p to r keeps every buffer owned *)
(* once.                                                                   *)
LEMMA MoveBuffers ==
    ASSUME IInv, UNCHANGED made,
           NEW p \in Holders, NEW r \in Holders, NEW M,
           \A b \in Buffers, x \in Holders \ {p, r} : Holds(x, b)' <=> Holds(x, b),
           \A b \in Buffers : b \in M => Holds(p, b),
           \A b \in Buffers : Holds(p, b)' <=> Holds(p, b) /\ b \notin M,
           \A b \in Buffers : Holds(r, b)' <=> Holds(r, b) \/ b \in M,
           \A q \in Queues : Injective(queue'[q])
    PROVE  Ownership'
<1>0. /\ \A x \in Holders, b \in Buffers : Holds(x, b) => b <= made
      /\ \A b \in 1..made : \E x \in Holders : Holds(x, b)
      /\ \A x, y \in Holders, b \in Buffers : Holds(x, b) /\ Holds(y, b) => x = y
      /\ \A b \in 1..made : b \in Buffers
  BY RouterAssumption DEF IInv, Ownership, TypeOK, Buffers
<1>1. \A x \in Holders, b \in Buffers : Holds(x, b)' => b <= made
  BY <1>0
<1>2. \A b \in 1..made : \E x \in Holders : Holds(x, b)'
  <2> TAKE b \in 1..made
  <2>1. PICK x \in Holders : Holds(x, b)
    BY <1>0
  <2>2. CASE b \in M
    BY <1>0, <2>2
  <2>3. CASE b \notin M
    BY <1>0, <2>1, <2>3
  <2> QED
    BY <2>2, <2>3
<1>3. ASSUME NEW x \in Holders, NEW y \in Holders, NEW b \in Buffers,
             Holds(x, b)', Holds(y, b)'
      PROVE  x = y
  <2>1. CASE b \in M
    <3>1. \A z \in Holders : Holds(z, b) => z = p
      BY <1>0, <2>1
    <3>2. \A z \in Holders : Holds(z, b)' => z = r
      BY <2>1, <3>1
    <3> QED
      BY <1>3, <3>2
  <2>2. CASE b \notin M
    <3>1. \A z \in Holders : Holds(z, b)' => Holds(z, b)
      BY <2>2
    <3> QED
      BY <1>0, <1>3, <3>1
  <2> QED
    BY <2>1, <2>2
<1> QED
  BY <1>1, <1>2, <1>3 DEF Ownership

LEMMA HolderNames ==
    /\ Queues \subseteq Holders /\ Apps \subseteq Holders /\ "reader" \in Holders
    /\ \A x \in Holders : x \in Queues \/ x \in Apps \/ x = "reader"
BY DEF Holders

Handles == Apps \cup {"reader"}

(* A handle takes the first buffer of a queue, ... *)
LEMMA TakeIntoHandle ==
    ASSUME IInv, UNCHANGED made, NEW q \in Queues, NEW h \in Handles, queue[q] # <<>>,
           queue' = [queue EXCEPT ![q] = Tail(queue[q])],
           \A b \in Buffers : ~Holds(h, b),
           \A b \in Buffers : Holds(h, b)' <=> b = Head(queue[q]),
           \A b \in Buffers, x \in Handles \ {h} : Holds(x, b)' <=> Holds(x, b)
    PROVE  Ownership'
<1> DEFINE M == {Head(queue[q])}
<1>0. /\ queue \in [Queues -> Seq(Buffers)]
      /\ \A x \in Queues : Injective(queue[x]) /\ queue[x] \in Seq(Buffers)
  BY DEF IInv, TypeOK, Ownership
<1>1. /\ In(queue[q], Head(queue[q]))
      /\ \A c : In(Tail(queue[q]), c) <=> In(queue[q], c) /\ c # Head(queue[q])
      /\ Injective(Tail(queue[q]))
  BY <1>0, TakeBuffer, Zenon
<1>2. queue'[q] = Tail(queue[q]) /\ \A x \in Queues \ {q} : queue'[x] = queue[x]
  BY <1>0
<1>3. \A x \in Queues : Injective(queue'[x])
  BY <1>0, <1>1, <1>2, Zenon
<1>4. q \in Holders /\ h \in Holders
  BY DEF Holders, Handles
<1>5. \A b \in Buffers, x \in Holders \ {q, h} : Holds(x, b)' <=> Holds(x, b)
  <2> TAKE b \in Buffers, x \in Holders \ {q, h}
  <2>1. CASE x \in Queues
    BY <1>2, <2>1, HoldsWhere, HoldsWhereNext
  <2>2. CASE x \in Handles
    BY <2>2
  <2> QED
    BY <2>1, <2>2 DEF Holders, Handles
<1>6. \A b \in Buffers : b \in M => Holds(q, b)
  BY <1>1, HoldsWhere
<1>7. \A b \in Buffers : Holds(q, b)' <=> Holds(q, b) /\ b \notin M
  <2> TAKE b \in Buffers
  <2> QED
    BY <1>1, <1>2, HoldsWhere, HoldsWhereNext
<1>8. \A b \in Buffers : Holds(h, b)' <=> Holds(h, b) \/ b \in M
  OBVIOUS
<1> HIDE DEF M
<1> QED
  BY <1>3, <1>4, <1>5, <1>6, <1>7, <1>8, MoveBuffers

(* ... or puts its buffer at the back of one. *)
LEMMA PutFromHandle ==
    ASSUME IInv, UNCHANGED made, NEW q \in Queues, NEW h \in Handles,
           NEW c \in Buffers,
           queue' = [queue EXCEPT ![q] = Append(queue[q], c)],
           \A b \in Buffers : Holds(h, b) <=> b = c,
           \A b \in Buffers : ~Holds(h, b)',
           \A b \in Buffers, x \in Handles \ {h} : Holds(x, b)' <=> Holds(x, b)
    PROVE  Ownership'
<1> DEFINE M == {c}
<1>0. /\ queue \in [Queues -> Seq(Buffers)]
      /\ \A x \in Queues : Injective(queue[x]) /\ queue[x] \in Seq(Buffers)
      /\ \A x, y \in Holders, b \in Buffers : Holds(x, b) /\ Holds(y, b) => x = y
  BY DEF IInv, TypeOK, Ownership
<1>1. q \in Holders /\ h \in Holders /\ h # q
  BY Names DEF Holders, Handles
<1>2. ~In(queue[q], c)
  BY <1>0, <1>1, HoldsWhere
<1>3. /\ \A b : In(Append(queue[q], c), b) <=> In(queue[q], b) \/ b = c
      /\ Injective(Append(queue[q], c))
  BY <1>0, <1>2, PutBuffer, Zenon
<1>4. queue'[q] = Append(queue[q], c) /\ \A x \in Queues \ {q} : queue'[x] = queue[x]
  BY <1>0
<1>5. \A x \in Queues : Injective(queue'[x])
  BY <1>0, <1>3, <1>4, Zenon
<1>6. \A b \in Buffers, x \in Holders \ {h, q} : Holds(x, b)' <=> Holds(x, b)
  <2> TAKE b \in Buffers, x \in Holders \ {h, q}
  <2>1. CASE x \in Queues
    BY <1>4, <2>1, HoldsWhere, HoldsWhereNext
  <2>2. CASE x \in Handles
    BY <2>2
  <2> QED
    BY <2>1, <2>2 DEF Holders, Handles
<1>7. \A b \in Buffers : b \in M => Holds(h, b)
  OBVIOUS
<1>8. \A b \in Buffers : Holds(h, b)' <=> Holds(h, b) /\ b \notin M
  OBVIOUS
<1>9. \A b \in Buffers : Holds(q, b)' <=> Holds(q, b) \/ b \in M
  <2> TAKE b \in Buffers
  <2> QED
    BY <1>3, <1>4, HoldsWhere, HoldsWhereNext
<1> HIDE DEF M
<1> QED
  BY <1>1, <1>5, <1>6, <1>7, <1>8, <1>9, MoveBuffers

LEMMA OwnershipStep ==
    ASSUME IInv, [Next]_vars
    PROVE  Ownership'
<1>0. /\ queue \in [Queues -> Seq(Buffers)]
      /\ abuf \in [Apps -> Buffers \cup {None}]
      /\ rbuf \in Buffers \cup {None}
      /\ \A x \in Queues : Injective(queue[x]) /\ queue[x] \in Seq(Buffers)
  BY DEF IInv, TypeOK, Ownership
<1>r. "reader" \in Handles /\ Handles \ {"reader"} = Apps
  BY Names DEF Handles
<1>a. \A t \in Apps : t \in Handles /\ t # "reader"
  BY Names DEF Handles
<1>1. CASE UNCHANGED <<queue, made, rbuf, abuf>>
  BY <1>1 DEF IInv, Ownership, Holds
<1>2. CASE DoReadFetch
  <2>1. rpc = "top" /\ abuf' = abuf
    BY <1>2 DEF DoReadFetch, appVars
  <2>2. rbuf = None
    BY <2>1 DEF IInv, ReaderHolds, Busy
  <2>3. \A b \in Buffers : ~Holds("reader", b)
    BY <2>2, HoldsWhere, Names
  <2>4. \A b \in Buffers, x \in Handles \ {"reader"} : Holds(x, b)' <=> Holds(x, b)
    BY <1>r, <2>1, HoldsWhere, HoldsWhereNext
  <2>5. CASE queue[Free] # <<>>
    <3>1. /\ queue' = [queue EXCEPT ![Free] = Tail(queue[Free])]
          /\ rbuf' = Head(queue[Free]) /\ UNCHANGED made
      BY <1>2, <2>5 DEF DoReadFetch
    <3>2. \A b \in Buffers : Holds("reader", b)' <=> b = Head(queue[Free])
      BY <3>1, HoldsWhereNext
    <3> QED
      BY <1>r, <2>3, <2>4, <2>5, <3>1, <3>2, TakeIntoHandle, Names
  <2>6. CASE queue[Free] = <<>>
    <3>1. /\ queue' = queue /\ made' = made + 1 /\ rbuf' = made + 1
          /\ made \in Nat /\ made + 1 \in Buffers
      BY <1>2, <2>6, RouterAssumption DEF DoReadFetch, IInv, TypeOK, Buffers
    <3>2. \A x \in Holders \ {"reader"}, b \in Buffers : Holds(x, b)' <=> Holds(x, b)
      BY <2>1, <3>1, HolderNames, HoldsWhere, HoldsWhereNext
    <3>3. \A b \in Buffers : Holds("reader", b)' <=> b = made + 1
      BY <3>1, HoldsWhereNext
    <3>4. /\ \A x \in Holders, b \in Buffers : Holds(x, b) => b <= made
          /\ \A b \in 1..made : \E x \in Holders : Holds(x, b)
          /\ \A x, y \in Holders, b \in Buffers : Holds(x, b) /\ Holds(y, b) => x = y
      BY DEF IInv, Ownership
    <3>5. \A b \in Buffers : b \in Nat
      BY DEF Buffers
    <3>6. \A x \in Holders, b \in Buffers : Holds(x, b)' => b <= made'
      BY <3>1, <3>2, <3>3, <3>4, <3>5
    <3>7. \A b \in 1..made' : \E x \in Holders : Holds(x, b)'
      <4> TAKE b \in 1..made'
      <4>1. CASE b = made + 1
        BY <3>1, <3>3, <4>1, HolderNames
      <4>2. CASE b # made + 1
        <5>1. b \in 1..made /\ b \in Buffers
          BY <3>1, <4>2, RouterAssumption DEF Buffers
        <5>2. PICK x \in Holders : Holds(x, b)
          BY <3>4, <5>1
        <5> QED
          BY <2>3, <3>2, <5>1, <5>2
      <4> QED
        BY <4>1, <4>2
    <3>8. ASSUME NEW x \in Holders, NEW y \in Holders, NEW b \in Buffers,
                 Holds(x, b)', Holds(y, b)'
          PROVE  x = y
      <4>1. CASE b = made + 1
        <5>1. \A z \in Holders : ~Holds(z, b)
          BY <3>1, <3>4, <4>1
        <5> QED
          BY <3>2, <3>8, <5>1
      <4>2. CASE b # made + 1
        BY <3>2, <3>3, <3>4, <3>8, <4>2
      <4> QED
        BY <4>1, <4>2
    <3>9. \A x \in Queues : Injective(queue'[x])
      BY <1>0, <3>1
    <3> QED
      BY <3>6, <3>7, <3>8, <3>9 DEF Ownership
  <2> QED
    BY <2>5, <2>6
<1>3. ASSUME NEW q \in Queues, rbuf \in Buffers, rbuf' = None, UNCHANGED <<made, abuf>>,
             queue' = [queue EXCEPT ![q] = Append(queue[q], rbuf)]
      PROVE  Ownership'
  <2>1. \A b \in Buffers : Holds("reader", b) <=> b = rbuf
    BY HoldsWhere
  <2>2. \A b \in Buffers : ~Holds("reader", b)'
    BY <1>3, HoldsWhereNext, Names
  <2>3. \A b \in Buffers, x \in Handles \ {"reader"} : Holds(x, b)' <=> Holds(x, b)
    BY <1>3, <1>r, HoldsWhere, HoldsWhereNext
  <2> QED
    BY <1>3, <1>r, <2>1, <2>2, <2>3, PutFromHandle
<1>4. CASE QueuePacket
  <2>1. rpc = "lookup" /\ Accepts(content[rbuf])
    BY <1>4 DEF QueuePacket
  <2>2. reg[content[rbuf].socket] \in Queues /\ rbuf \in Buffers
    BY <2>1, AcceptingEntry, InHand, Names DEF Carrying
  <2> QED
    BY <1>3, <1>4, <2>2 DEF QueuePacket, appVars
<1>5. CASE QueueDefault
  <2>1. rbuf \in Buffers
    BY <1>5, InHand DEF QueueDefault, Carrying
  <2> QED
    BY <1>3, <1>5, <2>1, Names DEF QueueDefault, appVars
<1>6. CASE DropBuffer
  <2>1. rbuf \in Buffers
    BY <1>6, InHand DEF DropBuffer, Busy
  <2> QED
    BY <1>3, <1>6, <2>1, Names DEF DropBuffer, ReturnBuffer, appVars
<1>7. ASSUME NEW t \in Apps, NEW q \in Queues, abuf[t] = None, queue[q] # <<>>,
             UNCHANGED <<made, rbuf>>,
             queue' = [queue EXCEPT ![q] = Tail(queue[q])],
             abuf' = [abuf EXCEPT ![t] = Head(queue[q])]
      PROVE  Ownership'
  <2>1. \A b \in Buffers : ~Holds(t, b)
    BY <1>7, HoldsWhere, Names
  <2>2. \A b \in Buffers : Holds(t, b)' <=> b = Head(queue[q])
    BY <1>0, <1>7, HoldsWhereNext
  <2>3. \A b \in Buffers, x \in Handles \ {t} : Holds(x, b)' <=> Holds(x, b)
    BY <1>0, <1>7, HoldsWhere, HoldsWhereNext DEF Handles
  <2> QED
    BY <1>7, <1>a, <2>1, <2>2, <2>3, TakeIntoHandle
<1>8. ASSUME NEW t \in Apps, SocketReadPop(t)
      PROVE  Ownership'
  <2>1. aref[t] \in Queues /\ abuf[t] = None
    BY <1>8, Names DEF SocketReadPop, IInv, AppHolds
  <2>2. CASE queue[aref[t]] # <<>>
    BY <1>7, <1>8, <2>1, <2>2 DEF SocketReadPop, readerVars
  <2>3. CASE queue[aref[t]] = <<>>
    BY <1>1, <1>8, <2>3 DEF SocketReadPop, readerVars
  <2> QED
    BY <2>2, <2>3
<1>9. ASSUME NEW t \in Apps, DefaultRead(t)
      PROVE  Ownership'
  <2>1. abuf[t] = None
    BY <1>9 DEF DefaultRead, IInv, AppHolds
  <2>2. CASE queue[Default] # <<>>
    BY <1>7, <1>9, <2>1, <2>2, Names DEF DefaultRead, readerVars
  <2>3. CASE queue[Default] = <<>>
    BY <1>1, <1>9, <2>3 DEF DefaultRead, readerVars
  <2> QED
    BY <2>2, <2>3
<1>10. ASSUME NEW t \in Apps, SocketReadRelease(t)
       PROVE  Ownership'
  <2>1. UNCHANGED <<made, rbuf, abuf>> /\ aref[t] \in Entries
    BY <1>10 DEF SocketReadRelease, readerVars, IInv, AppHolds
  <2>2. queue' = queue \/ (~Registered(aref[t]) /\ queue' = [queue EXCEPT ![aref[t]] = <<>>])
    BY <1>10 DEF SocketReadRelease
  <2>3. ~Registered(aref[t]) => queue[aref[t]] = <<>>
    BY <2>1 DEF IInv, RetiredQueueEmpty
  <2>4. queue' = queue
    BY <1>0, <2>2, <2>3
  <2> QED
    BY <1>1, <2>1, <2>4
<1>11. ASSUME NEW t \in Apps, DropHandle(t)
       PROVE  Ownership'
  <2>1. UNCHANGED <<made, rbuf>> /\ abuf' = [abuf EXCEPT ![t] = None]
    BY <1>11 DEF DropHandle, readerVars
  <2>2. CASE abuf[t] = None
    <3>1. queue' = queue /\ abuf' = abuf
      BY <1>0, <1>11, <2>1, <2>2 DEF DropHandle
    <3> QED
      BY <1>1, <2>1, <3>1
  <2>3. CASE abuf[t] # None
    <3>1. /\ abuf[t] \in Buffers
          /\ queue' = [queue EXCEPT ![Free] = Append(queue[Free], abuf[t])]
      BY <1>0, <1>11, <2>3 DEF DropHandle, ReturnBuffer
    <3>2. \A b \in Buffers : Holds(t, b) <=> b = abuf[t]
      BY HoldsWhere
    <3>3. \A b \in Buffers : ~Holds(t, b)'
      BY <1>0, <2>1, HoldsWhereNext, Names
    <3>4. \A b \in Buffers, x \in Handles \ {t} : Holds(x, b)' <=> Holds(x, b)
      BY <1>0, <2>1, HoldsWhere, HoldsWhereNext DEF Handles
    <3> QED
      BY <1>a, <2>1, <3>1, <3>2, <3>3, <3>4, PutFromHandle, Names
  <2> QED
    BY <2>2, <2>3
<1>12. ASSUME NEW s \in Sockets, UnregisterInterest(s)
       PROVE  Ownership'
  <2>0. PICK e \in Entries : e = reg[s]
    BY <1>12 DEF UnregisterInterest, IInv, TypeOK
  <2>1. /\ e \in Entries /\ e \in Queues /\ e # Free
        /\ queue' = [queue EXCEPT ![Free] = queue[Free] \o queue[e], ![e] = <<>>]
        /\ UNCHANGED <<made, rbuf, abuf>>
    BY <1>12, <2>0, Names DEF UnregisterInterest, appVars
  <2>m. PICK M : M = {b \in Buffers : In(queue[e], b)}
    OBVIOUS
  <2>2. /\ queue'[Free] = queue[Free] \o queue[e] /\ queue'[e] = <<>>
        /\ \A x \in Queues \ {Free, e} : queue'[x] = queue[x]
    BY <1>0, <2>1, Names
  <2>3. \A c \in Buffers : ~(In(queue[Free], c) /\ In(queue[e], c))
    BY <2>1, Names, HolderNames, HoldsWhere DEF IInv, Ownership
  <2>4. \A c : In(queue[e], c) => c \in Buffers
    BY <1>0, <2>1, BufferElements DEF In
  <2>5. Injective(queue[Free] \o queue[e])
    <3>1. \A c : ~(In(queue[Free], c) /\ In(queue[e], c))
      BY <2>3, <2>4
    <3>2. /\ queue[Free] \in Seq(Buffers) /\ queue[e] \in Seq(Buffers)
          /\ Injective(queue[Free]) /\ Injective(queue[e])
      BY <1>0, <2>1, Names
    <3> QED
      BY <3>1, <3>2, JoinBuffers, Zenon
  <2>6. \A c : In(queue[Free] \o queue[e], c) <=> In(queue[Free], c) \/ In(queue[e], c)
    BY <1>0, <2>1, JoinBuffers, Names, Zenon
  <2>7. Injective(<<>>) /\ \A c : ~In(<<>>, c)
    BY DEF Injective, In
  <2>8. \A x \in Queues : Injective(queue'[x])
    BY <1>0, <2>2, <2>5, <2>7, Zenon
  <2>9. e \in Holders /\ Free \in Holders
    BY <2>1, Names, HolderNames
  <2>10. \A b \in Buffers, x \in Holders \ {e, Free} : Holds(x, b)' <=> Holds(x, b)
    <3> TAKE b \in Buffers, x \in Holders \ {e, Free}
    <3>1. CASE x \in Queues
      BY <2>2, <3>1, HoldsWhere, HoldsWhereNext
    <3>2. CASE x \notin Queues
      BY <2>1, <3>2, HolderNames, HoldsWhere, HoldsWhereNext
    <3> QED
      BY <3>1, <3>2
  <2>11. \A b \in Buffers : b \in M => Holds(e, b)
    BY <2>1, <2>m, HoldsWhere
  <2>12. \A b \in Buffers : Holds(e, b)' <=> Holds(e, b) /\ b \notin M
    <3> TAKE b \in Buffers
    <3>0. Holds(e, b)' <=> In(queue'[e], b)
      BY HoldsWhereNext, Names
    <3>1. ~Holds(e, b)'
      BY <2>2, <2>7, <3>0
    <3>2. Holds(e, b) => b \in M
      BY <2>1, <2>m, HoldsWhere
    <3> QED
      BY <3>1, <3>2
  <2>13. \A b \in Buffers : Holds(Free, b)' <=> Holds(Free, b) \/ b \in M
    <3> TAKE b \in Buffers
    <3>1. Holds(Free, b)' <=> In(queue[Free] \o queue[e], b)
      <4>1. Holds(Free, b)' <=> In(queue'[Free], b)
        BY HoldsWhereNext, Names
      <4> QED
        BY <2>2, <4>1
    <3>2. Holds(Free, b) <=> In(queue[Free], b)
      BY HoldsWhere, Names
    <3>3. b \in M <=> In(queue[e], b)
      BY <2>m
    <3> QED
      BY <2>6, <3>1, <3>2, <3>3
  <2> QED
    BY <2>1, <2>8, <2>9, <2>10, <2>11, <2>12, <2>13, MoveBuffers
<1> QED
  BY <1>1, <1>2, <1>4, <1>5, <1>6, <1>8, <1>9, <1>10, <1>11, <1>12, BufferFrame
     DEF BufferStep

-----------------------------------------------------------------------------
(* Packets. *)

(* A buffer's packet changes only when the reader fills it or when it goes *)
(* back to m_free.                                                         *)
LEMMA ContentKept ==
    ASSUME IInv, [Next]_vars, NEW b \in Buffers, content'[b] # content[b]
    PROVE  \/ Holds(Free, b)'
           \/ /\ \E s \in Sockets, sq \in BOOLEAN : BulkReadPacket(s, sq)
              /\ rbuf' = b
<1>0. /\ content \in [Buffers -> Packet \cup {None}]
      /\ queue \in [Queues -> Seq(Buffers)]
      /\ abuf \in [Apps -> Buffers \cup {None}]
  BY DEF IInv, TypeOK
<1>w. Holds(Free, b)' <=> In(queue'[Free], b)
  BY HoldsWhereNext, Names
<1>1. ASSUME NEW s \in Sockets, NEW sq \in BOOLEAN, BulkReadPacket(s, sq)
      PROVE  rbuf' = b
  BY <1>0, <1>1 DEF BulkReadPacket
<1>2. ASSUME NEW c \in Buffers, ReturnBuffer(c)
      PROVE  Holds(Free, b)'
  <2>1. b = c
    BY <1>0, <1>2 DEF ReturnBuffer
  <2>2. queue'[Free] = Append(queue[Free], c)
    BY <1>0, <1>2, Names DEF ReturnBuffer
  <2>3. In(Append(queue[Free], c), c)
    BY <1>0, PutBuffer, Names, Zenon
  <2> QED
    BY <1>w, <2>1, <2>2, <2>3
<1>3. CASE DropBuffer
  BY <1>2, <1>3, InHand DEF DropBuffer, Busy
<1>4. ASSUME NEW t \in Apps, DropHandle(t)
      PROVE  Holds(Free, b)'
  <2>1. abuf[t] # None
    BY <1>4 DEF DropHandle
  <2> QED
    BY <1>0, <1>2, <1>4, <2>1 DEF DropHandle
<1>5. ASSUME NEW s \in Sockets, UnregisterInterest(s)
      PROVE  Holds(Free, b)'
  <2>1. reg[s] \in Queues /\ reg[s] # Free
    BY <1>5, Names DEF UnregisterInterest, IInv, TypeOK
  <2>2. In(queue[reg[s]], b)
    BY <1>0, <1>5 DEF UnregisterInterest, In
  <2>3. queue' = [queue EXCEPT ![Free] = queue[Free] \o queue[reg[s]], ![reg[s]] = <<>>]
    BY <1>5 DEF UnregisterInterest
  <2>4. queue'[Free] = queue[Free] \o queue[reg[s]]
    BY <1>0, <2>1, <2>3, Names
  <2>5. queue[Free] \in Seq(Buffers) /\ queue[reg[s]] \in Seq(Buffers)
    BY <1>0, <2>1, Names
  <2>6. In(queue[Free] \o queue[reg[s]], b)
    BY <2>2, <2>5, JoinBuffers, Zenon
  <2> QED
    BY <1>w, <2>4, <2>6
<1> QED
  BY <1>1, <1>3, <1>4, <1>5, ContentFrame

(* So what waits in a socket's queue or in m_default keeps its packet, ... *)
LEMMA QueuedKept ==
    ASSUME IInv, [Next]_vars, NEW q \in Queues \ {Free}, NEW b \in Buffers,
           In(queue'[q], b)
    PROVE  content'[b] = content[b]
<1>1. Holds(q, b)'
  BY HoldsWhereNext
<1>2. \A x \in Holders : Holds(x, b)' => x = q
  <2>1. \A x, y \in Holders, c \in Buffers : Holds(x, c)' /\ Holds(y, c)' => x = y
    BY OwnershipStep DEF Ownership
  <2> QED
    BY <1>1, <2>1, HolderNames
<1>3. rbuf' = b => Holds("reader", b)'
  BY HoldsWhereNext
<1> QED
  BY <1>2, <1>3, ContentKept, HolderNames, Names

(* ... and so does the buffer in the reader's hand. *)
LEMMA CarriedKept ==
    ASSUME IInv, [Next]_vars, rpc' \in Carrying
    PROVE  \/ \E s \in Sockets, sq \in BOOLEAN : BulkReadPacket(s, sq)
           \/ /\ rpc \in Carrying /\ UNCHANGED <<rbuf, sent>>
              /\ rbuf \in Buffers /\ content'[rbuf] = content[rbuf]
              /\ rpc' = rpc \/ ReadInterest \/ NotAccepted
<1>1. \/ \E s \in Sockets, sq \in BOOLEAN : BulkReadPacket(s, sq)
      \/ /\ rpc \in Carrying /\ UNCHANGED <<rbuf, sent>>
         /\ rpc' = rpc \/ ReadInterest \/ NotAccepted
  <2> USE DEF Carrying
  <2>1. CASE \/ ReadThreadExits \/ DoReadIdle \/ DoReadFetch \/ BulkReadNothing
             \/ BulkReadError \/ QueuePacket \/ RouteToHandler \/ QueueDefault
    BY <2>1 DEF ReadThreadExits, DoReadIdle, DoReadFetch, BulkReadNothing,
       BulkReadError, QueuePacket, RouteToHandler, QueueDefault
  <2>2. CASE \/ CallHandler \/ HandlerReturns \/ CollectHandlers \/ CallbacksReturn
             \/ DropBuffer \/ ReadWaitSignal
    BY <2>2 DEF CallHandler, HandlerReturns, CollectHandlers, CallbacksReturn,
       DropBuffer, ReadWaitSignal
  <2>3. CASE ReadInterest \/ NotAccepted
    BY <2>3 DEF ReadInterest, NotAccepted
  <2>4. CASE SpinoffSimpleReadThread
    BY <2>4 DEF SpinoffSimpleReadThread
  <2> QED
    BY <2>1, <2>2, <2>3, <2>4, ReaderFrame DEF ReaderStep
<1>2. CASE rpc \in Carrying /\ UNCHANGED <<rbuf, sent>>
  <2>1. rbuf \in Buffers
    BY <1>2, InHand
  <2>2. Holds("reader", rbuf)'
    BY <1>2, <2>1 DEF Holds
  <2>3. ~Holds(Free, rbuf)'
    <3>1. \A x, y \in Holders, c \in Buffers : Holds(x, c)' /\ Holds(y, c)' => x = y
      BY OwnershipStep DEF Ownership
    <3> QED
      BY <1>2, <2>1, <2>2, <3>1, HolderNames, Names
  <2> QED
    BY <1>1, <1>2, <2>1, <2>3, ContentKept
<1> QED
  BY <1>1, <1>2

LEMMA PacketInHandStep ==
    ASSUME IInv, [Next]_vars
    PROVE  PacketInHand'
<1> SUFFICES ASSUME rpc' \in Carrying
             PROVE  content'[rbuf'] # None /\ content'[rbuf'].n = sent'
  BY DEF PacketInHand
<1>1. ASSUME NEW s \in Sockets, NEW sq \in BOOLEAN, BulkReadPacket(s, sq)
      PROVE  content'[rbuf'] # None /\ content'[rbuf'].n = sent'
  <2>1. rbuf' = rbuf /\ content \in [Buffers -> Packet \cup {None}]
    BY <1>1 DEF BulkReadPacket, IInv, TypeOK
  <2>2. PICK p \in Packet : p.n = sent' /\ content' = [content EXCEPT ![rbuf] = p]
    BY <1>1, NewPacket
  <2>3. rbuf \in Buffers
    BY <1>1, NewPacket
  <2>4. content'[rbuf'] = p
    BY <2>1, <2>2, <2>3
  <2> QED
    BY <2>2, <2>4, Names
<1> QED
  BY <1>1, CarriedKept DEF IInv, PacketInHand

(* How the queue of a socket, or m_default, changes. *)
LEMMA QueueChange ==
    ASSUME IInv, [Next]_vars, NEW q \in Queues \ {Free}
    PROVE  \/ queue'[q] = queue[q]
           \/ queue'[q] = <<>>
           \/ queue[q] # <<>> /\ queue'[q] = Tail(queue[q])
           \/ /\ rpc \in Carrying /\ rpc' = "signal" /\ UNCHANGED <<sent, reg>>
              /\ queue'[q] = Append(queue[q], rbuf)
              /\ q \in Entries => reg[content[rbuf].socket] = q
<1>0. queue \in [Queues -> Seq(Buffers)]
  BY DEF IInv, TypeOK
<1>1. CASE UNCHANGED queue
  BY <1>1
<1>2. CASE DoReadFetch \/ DropBuffer
  BY <1>0, <1>2 DEF DoReadFetch, DropBuffer, ReturnBuffer
<1>3. CASE QueuePacket
  <2> DEFINE e == reg[content[rbuf].socket]
  <2>1. /\ queue' = [queue EXCEPT ![e] = Append(queue[e], rbuf)]
        /\ rpc \in Carrying /\ rpc' = "signal" /\ UNCHANGED <<sent, reg>>
    BY <1>3 DEF QueuePacket, Carrying, routerVars
  <2>2. e = q \/ queue'[q] = queue[q]
    BY <1>0, <2>1
  <2> QED
    BY <1>0, <2>1, <2>2
<1>4. CASE QueueDefault
  <2>1. /\ queue' = [queue EXCEPT ![Default] = Append(queue[Default], rbuf)]
        /\ rpc \in Carrying /\ rpc' = "signal" /\ UNCHANGED <<sent, reg>>
    BY <1>4 DEF QueueDefault, Carrying, routerVars
  <2> QED
    BY <1>0, <2>1, Names
<1>5. ASSUME NEW s \in Sockets, UnregisterInterest(s)
      PROVE  queue'[q] = queue[q] \/ queue'[q] = <<>>
  BY <1>0, <1>5 DEF UnregisterInterest
<1>6. ASSUME NEW t \in Apps,
             SocketReadPop(t) \/ SocketReadRelease(t) \/ DefaultRead(t) \/ DropHandle(t)
      PROVE  \/ queue'[q] = queue[q] \/ queue'[q] = <<>>
             \/ queue[q] # <<>> /\ queue'[q] = Tail(queue[q])
  <2>1. CASE SocketReadPop(t)
    BY <1>0, <2>1 DEF SocketReadPop
  <2>2. CASE SocketReadRelease(t)
    BY <1>0, <2>2 DEF SocketReadRelease
  <2>3. CASE DefaultRead(t)
    BY <1>0, <2>3 DEF DefaultRead
  <2>4. CASE DropHandle(t)
    BY <1>0, <2>4 DEF DropHandle, ReturnBuffer
  <2> QED
    BY <1>6, <2>1, <2>2, <2>3, <2>4
<1> QED
  BY <1>1, <1>2, <1>3, <1>4, <1>5, <1>6, BufferFrame DEF BufferStep

(* A registration goes only together with what its queue held. *)
LEMMA RegKept ==
    ASSUME IInv, [Next]_vars, NEW s \in Sockets, reg[s] # None,
           queue'[reg[s]] # <<>>
    PROVE  reg'[s] = reg[s]
<1>0. /\ reg \in [Sockets -> Entries \cup {None}]
      /\ queue \in [Queues -> Seq(Buffers)]
  BY DEF IInv, TypeOK
<1>1. ASSUME NEW r \in Sockets, NEW h \in BOOLEAN, NEW ty \in InterestType,
             RegisterInterestAndType(r, h, ty)
      PROVE  reg'[s] = reg[s]
  BY <1>0, <1>1 DEF RegisterInterestAndType
<1>2. ASSUME NEW r \in Sockets, UnregisterInterest(r)
      PROVE  reg'[s] = reg[s]
  <2>1. /\ reg' = [reg EXCEPT ![r] = None] /\ reg[r] \in Queues /\ reg[r] # Free
        /\ queue' = [queue EXCEPT ![Free] = queue[Free] \o queue[reg[r]], ![reg[r]] = <<>>]
    BY <1>0, <1>2, Names DEF UnregisterInterest
  <2>2. queue'[reg[r]] = <<>>
    BY <1>0, <2>1
  <2> QED
    BY <1>0, <2>1, <2>2
<1>3. ASSUME NEW r \in Sockets, NEW ty \in InterestType, ChangeInterest(r, ty)
      PROVE  reg' = reg
  BY <1>3 DEF ChangeInterest
<1> QED
  BY <1>1, <1>2, <1>3, InterestFrame DEF InterestStep

(* What is queued keeps its place behind older packets and before the one  *)
(* in the reader's hand, and an entry's queue its own socket's packets.    *)
LEMMA OrderStep ==
    ASSUME IInv, [Next]_vars
    PROVE  QueuesInOrder' /\ QueuedBefore'
<1> SUFFICES ASSUME NEW q \in Queues \ {Free}, NEW i \in 1..Len(queue'[q])
             PROVE  /\ content'[queue'[q][i]] # None
                    /\ \A j \in 1..(i - 1) :
                          content'[queue'[q][j]].n < content'[queue'[q][i]].n
                    /\ q \in Entries => reg'[content'[queue'[q][i]].socket] = q
                    /\ content'[queue'[q][i]].n <= sent'
                    /\ rpc' \in Carrying => content'[queue'[q][i]].n < sent'
  BY DEF QueuesInOrder, QueuedBefore
<1>0. /\ content \in [Buffers -> Packet \cup {None}]
      /\ queue[q] \in Seq(Buffers) /\ queue'[q] \in Seq(Buffers)
      /\ Len(queue[q]) \in Nat /\ Len(queue'[q]) \in Nat
      /\ \A j \in 1..Len(queue[q]) : queue[q][j] \in Buffers
      /\ \A j \in 1..Len(queue'[q]) : queue'[q][j] \in Buffers
      /\ sent \in Nat
      /\ \A p \in Packet : p.n \in Nat /\ p.socket \in Sockets
  <2>1. queue[q] \in Seq(Buffers) /\ queue'[q] \in Seq(Buffers)
    BY BufferTypes DEF IInv, TypeOK
  <2> QED
    BY <2>1, BufferElements, RouterAssumption DEF IInv, TypeOK, Packet
<1>1. \A j \in 1..Len(queue'[q]) : content'[queue'[q][j]] = content[queue'[q][j]]
  BY <1>0, QueuedKept DEF In
<1>2. \A j \in 1..Len(queue[q]) :
        /\ content[queue[q][j]] \in Packet
        /\ content[queue[q][j]].n <= sent
        /\ rpc \in Carrying => content[queue[q][j]].n < sent
        /\ q \in Entries => reg[content[queue[q][j]].socket] = q
  BY <1>0 DEF IInv, QueuesInOrder, QueuedBefore
<1>3. \A j, k \in 1..Len(queue[q]) :
        j < k => content[queue[q][j]].n < content[queue[q][k]].n
  <2> TAKE j, k \in 1..Len(queue[q])
  <2>1. j < k => j \in 1..(k - 1)
    BY <1>0
  <2> QED
    BY <2>1 DEF IInv, QueuesInOrder
<1>s. /\ sent' >= sent /\ sent' \in Nat
      /\ rpc' \in Carrying => (rpc \in Carrying /\ sent' = sent) \/ sent' > sent
  <2>1. sent' = sent \/ sent' = sent + 1
    BY ReaderFrame DEF ReaderStep, ReadThreadExits, DoReadIdle, DoReadFetch,
       BulkReadNothing, BulkReadError, BulkReadPacket, ReadInterest, QueuePacket,
       RouteToHandler, NotAccepted, QueueDefault, CallHandler, HandlerReturns,
       CollectHandlers, CallbacksReturn, DropBuffer, ReadWaitSignal
  <2>2. rpc' \in Carrying => (rpc \in Carrying /\ sent' = sent) \/ sent' = sent + 1
    BY CarriedKept DEF BulkReadPacket
  <2> QED
    BY <1>0, <2>1, <2>2
<1>r. ASSUME NEW b \in Buffers, content[b] \in Packet, q \in Entries,
             reg[content[b].socket] = q
      PROVE  reg'[content[b].socket] = q
  <2>1. queue'[q] # <<>>
    BY <1>0
  <2> QED
    BY <1>0, <1>r, <2>1, RegKept, Names
<1>4. ASSUME NEW d \in Nat, \A j \in 1..Len(queue'[q]) :
                j + d \in 1..Len(queue[q]) /\ queue'[q][j] = queue[q][j + d]
      PROVE  /\ content'[queue'[q][i]] # None
             /\ \A j \in 1..(i - 1) :
                   content'[queue'[q][j]].n < content'[queue'[q][i]].n
             /\ q \in Entries => reg'[content'[queue'[q][i]].socket] = q
             /\ content'[queue'[q][i]].n <= sent'
             /\ rpc' \in Carrying => content'[queue'[q][i]].n < sent'
  <2>1. /\ i + d \in 1..Len(queue[q]) /\ queue'[q][i] = queue[q][i + d]
        /\ content'[queue'[q][i]] = content[queue[q][i + d]]
    BY <1>1, <1>4
  <2>2. content'[queue'[q][i]] \in Packet
    BY <1>2, <2>1
  <2>3. \A j \in 1..(i - 1) : content'[queue'[q][j]].n < content'[queue'[q][i]].n
    <3> TAKE j \in 1..(i - 1)
    <3>1. j \in 1..Len(queue'[q]) /\ j + d < i + d
      BY <1>0
    <3>2. j + d \in 1..Len(queue[q]) /\ content'[queue'[q][j]] = content[queue[q][j + d]]
      BY <1>1, <1>4, <3>1
    <3> QED
      BY <1>3, <2>1, <3>1, <3>2
  <2>4. q \in Entries => reg'[content'[queue'[q][i]].socket] = q
    BY <1>0, <1>2, <1>r, <2>1
  <2>5. /\ content'[queue'[q][i]].n <= sent'
        /\ rpc' \in Carrying => content'[queue'[q][i]].n < sent'
    <3>1. /\ content'[queue'[q][i]].n \in Nat
          /\ content'[queue'[q][i]].n <= sent
          /\ rpc \in Carrying => content'[queue'[q][i]].n < sent
      BY <1>0, <1>2, <2>1
    <3> QED
      BY <1>0, <1>s, <3>1
  <2> QED
    BY <2>2, <2>3, <2>4, <2>5, Names
<1>5. CASE queue'[q] = queue[q]
  <2>1. \A j \in 1..Len(queue'[q]) :
            j + 0 \in 1..Len(queue[q]) /\ queue'[q][j] = queue[q][j + 0]
    BY <1>0, <1>5
  <2> QED
    BY <1>4, <2>1
<1>6. CASE queue'[q] = <<>>
  BY <1>6
<1>7. CASE queue[q] # <<>> /\ queue'[q] = Tail(queue[q])
  <2>1. /\ Len(queue'[q]) = Len(queue[q]) - 1
        /\ \A j \in 1..(Len(queue[q]) - 1) : queue'[q][j] = queue[q][j + 1]
    BY <1>0, <1>7, TailFacts, Zenon
  <2>2. \A j \in 1..Len(queue'[q]) :
            j + 1 \in 1..Len(queue[q]) /\ queue'[q][j] = queue[q][j + 1]
    BY <1>0, <2>1
  <2> QED
    BY <1>4, <2>2
<1>8. CASE /\ rpc \in Carrying /\ rpc' = "signal" /\ UNCHANGED <<sent, reg>>
           /\ queue'[q] = Append(queue[q], rbuf)
           /\ q \in Entries => reg[content[rbuf].socket] = q
  <2>0. rbuf \in Buffers /\ content[rbuf] \in Packet /\ content[rbuf].n = sent
    BY <1>8, InHand
  <2>1. /\ Len(queue'[q]) = Len(queue[q]) + 1
        /\ queue'[q][Len(queue[q]) + 1] = rbuf
        /\ \A j \in 1..Len(queue[q]) : queue'[q][j] = queue[q][j]
    <3>1. /\ Len(Append(queue[q], rbuf)) = Len(queue[q]) + 1
          /\ Append(queue[q], rbuf)[Len(queue[q]) + 1] = rbuf
          /\ \A j \in 1..Len(queue[q]) : Append(queue[q], rbuf)[j] = queue[q][j]
      BY <1>0, <2>0, AppendFacts, Zenon
    <3> QED
      BY <1>8, <3>1, Zenon
  <2>2. rpc' \notin Carrying
    BY <1>8 DEF Carrying
  <2>3. CASE i = Len(queue[q]) + 1
    <3>1. content'[queue'[q][i]] = content[rbuf]
      BY <1>1, <2>1, <2>3
    <3>2. \A j \in 1..(i - 1) : content'[queue'[q][j]].n < content'[queue'[q][i]].n
      <4> TAKE j \in 1..(i - 1)
      <4>1. j \in 1..Len(queue[q]) /\ j \in 1..Len(queue'[q])
        BY <1>0, <2>3
      <4>2. content'[queue'[q][j]] = content[queue[q][j]]
        BY <1>1, <2>1, <4>1
      <4> QED
        BY <1>2, <1>8, <2>0, <3>1, <4>1, <4>2
    <3>3. content'[queue'[q][i]].n <= sent'
      BY <1>0, <1>8, <2>0, <3>1
    <3> QED
      BY <1>8, <2>0, <2>2, <3>1, <3>2, <3>3, Names
  <2>4. CASE i # Len(queue[q]) + 1
    <3>1. i \in 1..Len(queue[q]) /\ content'[queue'[q][i]] = content[queue[q][i]]
      BY <1>0, <1>1, <2>1, <2>4
    <3>2. \A j \in 1..(i - 1) : content'[queue'[q][j]].n < content'[queue'[q][i]].n
      <4> TAKE j \in 1..(i - 1)
      <4>1. j \in 1..Len(queue[q]) /\ j \in 1..Len(queue'[q]) /\ j < i
        BY <1>0, <3>1
      <4>2. content'[queue'[q][j]] = content[queue[q][j]]
        BY <1>1, <2>1, <4>1
      <4> QED
        BY <1>3, <3>1, <4>1, <4>2
    <3>3. content'[queue'[q][i]].n <= sent'
      BY <1>2, <1>8, <3>1
    <3> QED
      BY <1>2, <1>8, <2>2, <3>1, <3>2, <3>3, Names
  <2> QED
    BY <2>3, <2>4
<1> QED
  BY <1>5, <1>6, <1>7, <1>8, QueueChange

(* Whoever stops accepting the packet in the reader's hand says so in      *)
(* unclaimed, and an m_interest read as FALSE means that nobody accepts.   *)
LEMMA ClaimsStep ==
    ASSUME IInv, [Next]_vars
    PROVE  Claims' /\ DefaultOnlyIfUnclaimed'
<1> SUFFICES ASSUME rpc' \in Carrying,
                    rpc' = "default" \/ ~Accepts(content[rbuf])'
             PROVE  unclaimed'
  BY DEF Claims, DefaultOnlyIfUnclaimed, Carrying
<1>0. /\ reg \in [Sockets -> Entries \cup {None}]
      /\ type \in [Entries -> InterestType]
      /\ RegInjective /\ InterestExact /\ Claims /\ DefaultOnlyIfUnclaimed
  BY DEF IInv, TypeOK
<1>1. ASSUME NEW s \in Sockets, NEW sq \in BOOLEAN, BulkReadPacket(s, sq)
      PROVE  unclaimed'
  <2>1. /\ UNCHANGED <<reg, type, rbuf>> /\ rpc' = "routing"
        /\ content \in [Buffers -> Packet \cup {None}]
    BY <1>1 DEF BulkReadPacket, routerVars, IInv, TypeOK
  <2>2. PICK p : rbuf \in Buffers /\ content' = [content EXCEPT ![rbuf] = p]
                 /\ unclaimed' = ~Accepts(p)
    BY <1>1, NewPacket
  <2>3. content'[rbuf'] = p
    BY <2>1, <2>2
  <2> QED
    BY <2>1, <2>2, <2>3 DEF Accepts, AcceptsIn
<1> DEFINE p == content[rbuf]
<1>2. ASSUME rpc \in Carrying, UNCHANGED rbuf, content'[rbuf] = p,
             rpc' = rpc \/ ReadInterest \/ NotAccepted
      PROVE  unclaimed'
  <2>0. p.socket \in Sockets
    BY <1>2, InHand
  <2>a. Accepts(content[rbuf])' <=> AcceptsIn(reg', type', p)
    BY <1>2 DEF Accepts, AcceptsIn
  <2> HIDE DEF p
  <2>1. CASE ReadInterest
    <3>1. UNCHANGED <<reg, type, unclaimed>> /\ rpc = "routing"
          /\ (rpc' = "default" => ~interest)
      BY <2>1 DEF ReadInterest, routerVars
    <3>2. ~interest => ~AcceptsIn(reg, type, p)
      BY <1>0, <2>0 DEF InterestExact, AcceptsIn
    <3>3. ~AcceptsIn(reg, type, p)
      BY <2>a, <3>1, <3>2
    <3> QED
      BY <1>0, <3>1, <3>3 DEF Claims, Accepts, p
  <2>2. CASE NotAccepted
    BY <1>0, <2>2 DEF NotAccepted, Claims
  <2>3. CASE rpc' = rpc
    <3>1. rpc = "default" \/ ~AcceptsIn(reg, type, p) => unclaimed
      BY <1>0, <1>2 DEF Claims, DefaultOnlyIfUnclaimed, Accepts, Carrying, p
    <3>2. ASSUME NEW s \in Sockets, NEW h \in BOOLEAN, NEW ty \in InterestType,
                 RegisterInterestAndType(s, h, ty)
          PROVE  unclaimed'
      <4>1. PICK e \in Entries : /\ ~Registered(e)
                                 /\ reg' = [reg EXCEPT ![s] = e]
                                 /\ type' = [type EXCEPT ![e] = ty]
        BY <3>2 DEF RegisterInterestAndType, Alive
      <4>2. unclaimed' = unclaimed /\ reg[s] = None
        BY <3>2 DEF RegisterInterestAndType, readerVars
      <4>3. AcceptsIn(reg, type, p) => AcceptsIn(reg', type', p)
        BY <1>0, <2>0, <4>1, <4>2 DEF AcceptsIn, Registered
      <4> QED
        BY <2>3, <2>a, <3>1, <4>2, <4>3
    <3>3. ASSUME NEW s \in Sockets, UnregisterInterest(s)
          PROVE  unclaimed'
      <4>1. /\ reg' = [reg EXCEPT ![s] = None]
            /\ type' = [type EXCEPT ![reg[s]] = "data"]
            /\ unclaimed' = StillUnclaimed(reg', type)
            /\ reg[s] # None
        BY <3>3 DEF UnregisterInterest
      <4>2. AcceptsIn(reg', type', p) <=> AcceptsIn(reg', type, p)
        BY <1>0, <2>0, <4>1 DEF AcceptsIn, RegInjective
      <4> QED
        BY <1>2, <2>3, <2>a, <3>1, <4>1, <4>2 DEF StillUnclaimed, Carrying, p
    <3>4. ASSUME NEW s \in Sockets, NEW ty \in InterestType, ChangeInterest(s, ty)
          PROVE  unclaimed'
      <4>1. reg' = reg /\ unclaimed' = StillUnclaimed(reg, type')
        BY <3>4 DEF ChangeInterest
      <4> QED
        BY <1>2, <2>3, <2>a, <3>1, <4>1 DEF StillUnclaimed, Carrying, p
    <3>5. CASE ~InterestStep
      <4>0. UNCHANGED <<interest, reg, handler, type>>
        BY <3>5, InterestFrame
      <4>1. unclaimed' = unclaimed
        <5> USE DEF routerVars, readerVars, appVars, ctlVars, bufferVars
        <5>1. CASE UNCHANGED vars
          BY <5>1 DEF vars
        <5>2. CASE SpinoffSimpleReadThread \/ Destroy
          BY <5>2 DEF SpinoffSimpleReadThread, Destroy
        <5>3. CASE ReaderStep
          BY <1>2, <2>3, <5>3 DEF ReaderStep, ReadThreadExits, DoReadIdle, DoReadFetch,
             BulkReadNothing, BulkReadError, BulkReadPacket, ReadInterest, QueuePacket,
             RouteToHandler, NotAccepted, QueueDefault, CallHandler, HandlerReturns,
             CollectHandlers, CallbacksReturn, DropBuffer, ReadWaitSignal, Carrying
        <5>4. CASE ControllerStep
          BY <5>4 DEF ControllerStep, SetUsbDevice, ClearUsbDevice, ClearUsbDeviceWait,
             ClearUsbDeviceSpurious, CloseDevice
        <5>5. ASSUME NEW t \in Apps, AppStep(t)
              PROVE  unclaimed' = unclaimed
          BY <5>5 DEF AppStep, SocketRead, SocketReadPop, SocketReadRelease,
             DefaultRead, DropHandle
        <5> QED
          BY <3>5, <5>1, <5>2, <5>3, <5>4, <5>5, Zenon DEF Next, InterestStep
      <4> QED
        BY <2>3, <2>a, <3>1, <4>0, <4>1 DEF AcceptsIn
    <3> QED
      BY <3>2, <3>3, <3>4, <3>5 DEF InterestStep
  <2> QED
    BY <1>2, <2>1, <2>2, <2>3
<1> QED
  BY <1>1, <1>2, CarriedKept

-----------------------------------------------------------------------------
LEMMA StepIInv == IInv /\ [Next]_vars => IInv'
BY TypeOKStep, ReaderHoldsStep, AppHoldsStep, RegistrationStep, OwnershipStep,
   RetiredStep, PacketInHandStep, OrderStep, ClaimsStep, Zenon DEF IInv

LEMMA AlwaysIInv == Spec => []IInv
<1>1. Init => IInv
  BY InitIInv
<1> QED
  BY <1>1, StepIInv, PTL DEF Spec

(* The variables of SocketRoutingQueue and of its users keep their types.  *)
THEOREM TypeCorrect == Spec => []TypeOK
<1>1. IInv => TypeOK
  BY DEF IInv
<1> QED
  BY <1>1, AlwaysIInv, PTL

(* Every Data object the router ever allocated is in exactly one queue, at *)
(* one position, or in one DataHandle: DoRead, the handlers, SocketRead,   *)
(* DefaultRead and UnregisterInterest neither leak nor share a buffer.     *)
THEOREM BuffersOwnedOnce == Spec => []OwnedOnce
<1>1. ASSUME IInv PROVE OwnedOnce
  <2>1. \A q \in Queues : \A i, j \in 1..Len(queue[q]) :
            queue[q][i] = queue[q][j] => i = j
    BY <1>1 DEF IInv, Ownership, Injective
  <2>2. ASSUME NEW b \in 1..made
        PROVE  \E p \in Holders : Holds(p, b) /\ \A r \in Holders : Holds(r, b) => r = p
    <3>1. b \in Buffers
      BY <1>1, RouterAssumption DEF IInv, TypeOK, Buffers
    <3>2. PICK p \in Holders : Holds(p, b)
      BY <1>1 DEF IInv, Ownership
    <3>3. \A r \in Holders : Holds(r, b) => r = p
      BY <1>1, <3>1, <3>2 DEF IInv, Ownership
    <3> QED
      BY <3>2, <3>3
  <2> QED
    BY <2>1, <2>2 DEF OwnedOnce, Holders
<1> QED
  BY <1>1, AlwaysIInv, PTL

(* The queue of an entry that UnregisterInterest took out of the map is    *)
(* empty and stays so while a SocketRead still refers to it.               *)
THEOREM RetiredEntriesEmpty == Spec => []RetiredQueueEmpty
<1>1. IInv => RetiredQueueEmpty
  BY DEF IInv
<1> QED
  BY <1>1, AlwaysIInv, PTL

(* Packets wait in every queue in the order the device sent them, and each *)
(* entry's queue holds only its own socket's packets.                      *)
THEOREM PacketsInOrder == Spec => []QueuesInOrder
<1>1. IInv => QueuesInOrder
  BY DEF IInv
<1> QED
  BY <1>1, AlwaysIInv, PTL

(* DoRead sends a packet to m_default only if at some instant since it was *)
(* read nobody was registered for it, although m_interest is read without  *)
(* m_mutex.                                                                *)
THEOREM DefaultUnclaimed == Spec => []DefaultOnlyIfUnclaimed
<1>1. IInv => DefaultOnlyIfUnclaimed
  BY DEF IInv
<1> QED
  BY <1>1, AlwaysIInv, PTL

-----------------------------------------------------------------------------
(* The device the controller lends. *)

LEMMA DeviceLentStep ==
    ASSUME ~Spurious, IInv, DeviceLent, [Next]_vars
    PROVE  DeviceLent'
<1> USE DEF DeviceLent, Busy, routerVars, readerVars, appVars, ctlVars, bufferVars
<1>0. rpc \in ReaderAt /\ cpc \in {"detached", "attached", "clearing", "asleep", "cleared"}
  BY DEF IInv, TypeOK
<1>1. CASE UNCHANGED vars
  BY <1>1 DEF vars
<1>2. CASE SpinoffSimpleReadThread \/ Destroy
  BY <1>2 DEF SpinoffSimpleReadThread, Destroy
<1>3. CASE ReaderStep
  <2>1. ASSUME NEW s \in Sockets, NEW sq \in BOOLEAN, BulkReadPacket(s, sq)
        PROVE  DeviceLent'
    BY <2>1 DEF BulkReadPacket
  <2>2. CASE \/ ReadThreadExits \/ DoReadIdle \/ BulkReadNothing
             \/ BulkReadError \/ ReadInterest \/ QueuePacket \/ RouteToHandler
    BY <2>2 DEF ReadThreadExits, DoReadIdle, BulkReadNothing,
       BulkReadError, ReadInterest, QueuePacket, RouteToHandler
  <2>3. CASE DoReadFetch
    BY <2>3 DEF DoReadFetch
  <2>4. CASE \/ NotAccepted \/ QueueDefault \/ CallHandler \/ HandlerReturns
             \/ CollectHandlers \/ CallbacksReturn \/ DropBuffer
    BY <2>4 DEF NotAccepted, QueueDefault, CallHandler, HandlerReturns,
       CollectHandlers, CallbacksReturn, DropBuffer
  <2>5. CASE ReadWaitSignal
    BY <2>5 DEF ReadWaitSignal
  <2> QED
    BY <1>3, <2>1, <2>2, <2>3, <2>4, <2>5 DEF ReaderStep
<1>4. CASE ControllerStep
  BY <1>0, <1>4 DEF ControllerStep, SetUsbDevice, ClearUsbDevice, ClearUsbDeviceWait,
     ClearUsbDeviceSpurious, CloseDevice
<1>5. CASE InterestStep
  <2>1. UNCHANGED <<dev, cpc, open, rpc>>
    BY <1>5 DEF InterestStep, RegisterInterestAndType, UnregisterInterest, ChangeInterest
  <2> QED
    BY <2>1
<1>6. ASSUME NEW t \in Apps, AppStep(t)
      PROVE  DeviceLent'
  BY <1>6 DEF AppStep, SocketRead, SocketReadPop, SocketReadRelease, DefaultRead,
     DropHandle
<1> QED
  BY <1>1, <1>2, <1>3, <1>4, <1>5, <1>6, Zenon DEF Next, InterestStep

(* When the condition wait of ClearUsbDevice has no spurious wakeup, the   *)
(* read thread uses the lent Usb::Device, and calls the controller's       *)
(* callback, only while the device is open.  (With spurious wakeups the    *)
(* statement is false: the wait tests no predicate.)                       *)
THEOREM DeviceOutlivesReads ==
    ASSUME ~Spurious
    PROVE  Spec => []DeviceOpenWhileUsed
<1>1. Init => IInv /\ DeviceLent
  BY InitIInv
<1>2. (IInv /\ DeviceLent) /\ [Next]_vars => (IInv /\ DeviceLent)'
  BY StepIInv, DeviceLentStep
<1>3. IInv /\ DeviceLent => DeviceOpenWhileUsed
  BY DEF DeviceLent, DeviceOpenWhileUsed, Busy
<1> QED
  BY <1>1, <1>2, <1>3, PTL DEF Spec
=============================================================================
