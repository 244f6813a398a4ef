------------------------------- MODULE Router -------------------------------
(***************************************************************************)
(* Barry::SocketRoutingQueue (src/src/router.cc, router.h) with the USB    *)
(* read thread that feeds it, the application threads that register for    *)
(* sockets and read from them, and the controller that lends it the USB    *)
(* device and takes it back (~PrivateControllerData).                      *)
(*                                                                         *)
(* A section under m_mutex is one step.  m_free, m_default and the queues  *)
(* of the registered sockets are DataQueues and are used as AbstractQueue  *)
(* allows: push and pop are one step, wait_pop is a step that takes an     *)
(* item, or nothing while the queue is empty.  A QueueEntry is a member of *)
(* Entries; it lives while the map or a SocketRead in progress refers to   *)
(* it (shared_ptr), and a dead one can be allocated again.                 *)
(***************************************************************************)
EXTENDS Naturals, Sequences

CONSTANTS Apps,         \* the application's threads
          Sockets,      \* the socket numbers in use
          Entries,      \* the QueueEntry objects
          Free, Default,\* the names of m_free and m_default
          None,         \* null pointer, nothing
          Prealloc,     \* buffers made by the constructor
          MaxPackets,   \* bound: packets the device sends
          MaxBuffers,   \* bound: Data objects ever allocated
          Spurious      \* whether the condition wait can return unprovoked

Queues == {Free, Default} \cup Entries
Buffers == 1..MaxBuffers

(* The m_type values the library registers with. *)
InterestType == {"data", "sequence_and_data"}

(* A packet: its place in the device's stream, its socket, whether it is a *)
(* sequence packet.                                                        *)
Packet == [n : 1..MaxPackets, socket : Sockets, seq : BOOLEAN]

ASSUME RouterAssumption ==
    /\ None \notin Queues \cup Apps \cup Sockets \cup Buffers \cup Packet
    /\ Free # Default /\ {Free, Default} \cap Entries = {}
    /\ "reader" \notin Queues \cup Apps /\ Apps \cap Queues = {}
    /\ Prealloc \in Nat /\ MaxPackets \in Nat /\ MaxBuffers \in Nat
    /\ Prealloc <= MaxBuffers
    /\ Spurious \in BOOLEAN

VARIABLES
    \* members of SocketRoutingQueue
    dev,        \* m_dev is set
    interest,   \* m_interest
    seen_error, \* m_seen_usb_error
    running,    \* m_continue_reading
    reg,        \* m_socketQueues: reg[s] is the entry of socket s, or None
    handler,    \* handler[e]: entry e has a handler
    type,       \* type[e]: m_type of entry e
    queue,      \* queue[q]: the buffers in m_free, m_default and the entries
    made,       \* how many buffers were allocated
    content,    \* content[b]: the packet in buffer b
    \* the read thread
    rpc,        \* where it is
    rbuf,       \* the buffer its DataHandle owns
    rentry,     \* the entry its SocketDataHandlerPtr& sdh refers into
    sent,       \* how many packets the device has sent
    unclaimed,  \* history: at some instant since the packet in rbuf was
                \* read, nobody was registered for it
    \* the application threads
    apc,        \* where each is
    aref,       \* its QueueEntryPtr qep
    abuf,       \* the buffer its DataHandle owns
    \* the controller
    cpc,        \* where it is
    open        \* its Usb::Device is open

routerVars == <<dev, interest, seen_error, running, reg, handler, type>>
readerVars == <<rpc, rbuf, rentry, sent, unclaimed>>
appVars == <<apc, aref, abuf>>
ctlVars == <<cpc, open>>
bufferVars == <<queue, made, content>>
vars == <<routerVars, readerVars, appVars, ctlVars, bufferVars>>

ReaderAt == {"off", "top", "bulk", "routing", "lookup", "default", "call",
             "handler", "error", "callback", "unwind", "signal", "exited"}

TypeOK ==
    /\ dev \in BOOLEAN /\ interest \in BOOLEAN
    /\ seen_error \in BOOLEAN /\ running \in BOOLEAN
    /\ reg \in [Sockets -> Entries \cup {None}]
    /\ handler \in [Entries -> BOOLEAN]
    /\ type \in [Entries -> InterestType]
    /\ queue \in [Queues -> Seq(Buffers)]
    /\ made \in 0..MaxBuffers
    /\ content \in [Buffers -> Packet \cup {None}]
    /\ rpc \in ReaderAt
    /\ rbuf \in Buffers \cup {None}
    /\ rentry \in Entries \cup {None}
    /\ sent \in 0..MaxPackets
    /\ unclaimed \in BOOLEAN
    /\ apc \in [Apps -> {"idle", "wait", "release", "default", "using"}]
    /\ aref \in [Apps -> Entries \cup {None}]
    /\ abuf \in [Apps -> Buffers \cup {None}]
    /\ cpc \in {"detached", "attached", "clearing", "asleep", "cleared"}
    /\ open \in BOOLEAN

Init ==
    /\ dev = FALSE /\ interest = FALSE /\ seen_error = FALSE /\ running = FALSE
    /\ reg = [s \in Sockets |-> None]
    /\ handler = [e \in Entries |-> FALSE]
    /\ type = [e \in Entries |-> "data"]
    /\ queue = [q \in Queues |-> IF q = Free THEN [i \in 1..Prealloc |-> i] ELSE <<>>]
    /\ made = Prealloc
    /\ content = [b \in Buffers |-> None]
    /\ rpc = "off" /\ rbuf = None /\ rentry = None
    /\ sent = 0 /\ unclaimed = FALSE
    /\ apc = [t \in Apps |-> "idle"]
    /\ aref = [t \in Apps |-> None]
    /\ abuf = [t \in Apps |-> None]
    /\ cpc = "detached" /\ open = FALSE

-----------------------------------------------------------------------------
Registered(e) == \E s \in Sockets : reg[s] = e

Alive(e) == Registered(e) \/ \E t \in Apps : aref[t] = e

(* QueuePacket's and RouteOrQueuePacket's test: a sequence packet goes to  *)
(* a registered socket that asked for those, a data packet to any.         *)
AcceptsIn(rs, tys, p) ==
    /\ rs[p.socket] # None
    /\ p.seq => tys[rs[p.socket]] = "sequence_and_data"

Accepts(p) == AcceptsIn(reg, type, p)

(* The router takes calls until its destructor has begun. *)
Exists == running \/ rpc = "off"

(* ReturnBuffer: what a buffer holds once it is free is never read again. *)
ReturnBuffer(b) ==
    /\ queue' = [queue EXCEPT ![Free] = Append(queue[Free], b)]
    /\ content' = [content EXCEPT ![b] = None]

-----------------------------------------------------------------------------
(* The read thread: SpinoffSimpleReadThread, then DoRead in a loop. *)
SpinoffSimpleReadThread ==
    /\ ~running /\ rpc = "off"
    /\ running' = TRUE
    /\ seen_error' = FALSE
    /\ rpc' = "top"
    /\ UNCHANGED <<dev, interest, reg, handler, type, rbuf, rentry, sent, unclaimed,
                   appVars, ctlVars, bufferVars>>

(* ~SocketRoutingQueue clears m_continue_reading and joins the thread; it  *)
(* runs when no other call into the router is in progress.                 *)
Destroy ==
    /\ running
    /\ cpc = "detached" /\ \A t \in Apps : apc[t] = "idle"
    /\ running' = FALSE
    /\ UNCHANGED <<dev, interest, seen_error, reg, handler, type, readerVars,
                   appVars, ctlVars, bufferVars>>

ReadThreadExits ==
    /\ rpc = "top" /\ ~running
    /\ rpc' = "exited"
    /\ UNCHANGED <<routerVars, rbuf, rentry, sent, unclaimed, appVars, ctlVars,
                   bufferVars>>

(* DoReadIdle_silent is the slip of an idle DoRead that signals nobody.    *)
(* DoRead's locked section: no device or an error, nothing to do; else the *)
(* device pointer and a free buffer, or a new one, are fetched.            *)
DoReadIdle_silent ==
    /\ rpc = "top" /\ running
    /\ ~dev \/ seen_error
    /\ UNCHANGED vars

DoReadIdle ==
    /\ rpc = "top" /\ running
    /\ ~dev \/ seen_error
    /\ rpc' = "signal"
    /\ UNCHANGED <<routerVars, rbuf, rentry, sent, unclaimed, appVars, ctlVars,
                   bufferVars>>

DoReadFetch ==
    /\ rpc = "top" /\ running
    /\ dev /\ ~seen_error
    /\ IF queue[Free] # <<>>
       THEN /\ rbuf' = Head(queue[Free])
            /\ queue' = [queue EXCEPT ![Free] = Tail(queue[Free])]
            /\ UNCHANGED made
       ELSE /\ made < MaxBuffers
            /\ made' = made + 1
            /\ rbuf' = made + 1
            /\ UNCHANGED queue
    /\ rpc' = "bulk"
    /\ UNCHANGED <<routerVars, rentry, sent, unclaimed, appVars, ctlVars, content>>

(* dev->BulkRead, without any lock: a timeout, no data or a short packet, *)
BulkReadNothing ==
    /\ rpc = "bulk"
    /\ rpc' = "unwind"
    /\ UNCHANGED <<routerVars, rbuf, rentry, sent, unclaimed, appVars, ctlVars,
                   bufferVars>>

(* a packet, ... *)
BulkReadPacket(s, sq) ==
    /\ rpc = "bulk" /\ sent < MaxPackets
    /\ sent' = sent + 1
    /\ LET p == [n |-> sent + 1, socket |-> s, seq |-> sq]
       IN  /\ content' = [content EXCEPT ![rbuf] = p]
           /\ unclaimed' = ~Accepts(p)
    /\ rpc' = "routing"
    /\ UNCHANGED <<routerVars, rbuf, rentry, appVars, ctlVars, queue, made>>

(* ... or a Usb::Error, which sets the flag before taking any lock. *)
BulkReadError ==
    /\ rpc = "bulk"
    /\ seen_error' = TRUE
    /\ rpc' = "error"
    /\ UNCHANGED <<dev, interest, running, reg, handler, type, rbuf, rentry, sent,
                   unclaimed, appVars, ctlVars, bufferVars>>

(* m_interest is read before m_mutex is taken. *)
ReadInterest ==
    /\ rpc = "routing"
    /\ rpc' = IF interest THEN "lookup" ELSE "default"
    /\ UNCHANGED <<routerVars, rbuf, rentry, sent, unclaimed, appVars, ctlVars,
                   bufferVars>>

(* QueuePacket(socket) and the queueing half of RouteOrQueuePacket. *)
QueuePacket ==
    LET p == content[rbuf]
        e == reg[p.socket]
    IN  /\ rpc = "lookup"
        /\ Accepts(p)
        /\ p.seq \/ ~handler[e]
        /\ queue' = [queue EXCEPT ![e] = Append(queue[e], rbuf)]
        /\ rbuf' = None
        /\ unclaimed' = FALSE
        /\ rpc' = "signal"
        /\ UNCHANGED <<routerVars, rentry, sent, appVars, ctlVars, made, content>>

(* RouteOrQueuePacket drops m_mutex but keeps a reference into the entry. *)
RouteToHandler ==
    LET p == content[rbuf]
        e == reg[p.socket]
    IN  /\ rpc = "lookup"
        /\ Accepts(p)
        /\ ~p.seq /\ handler[e]
        /\ rentry' = e
        /\ rpc' = "call"
        /\ UNCHANGED <<routerVars, rbuf, sent, unclaimed, appVars, ctlVars, bufferVars>>

NotAccepted ==
    /\ rpc = "lookup"
    /\ ~Accepts(content[rbuf])
    /\ rpc' = "default"
    /\ UNCHANGED <<routerVars, rbuf, rentry, sent, unclaimed, appVars, ctlVars,
                   bufferVars>>

(* QueuePacket(m_default); the slip passes buf.get() for buf.release(). *)
QueueDefault_get ==
    /\ rpc = "default"
    /\ queue' = [queue EXCEPT ![Default] = Append(queue[Default], rbuf)]
    /\ rpc' = "unwind"
    /\ UNCHANGED <<routerVars, rbuf, rentry, sent, unclaimed, appVars, ctlVars, made,
                   content>>

QueueDefault ==
    /\ rpc = "default"
    /\ queue' = [queue EXCEPT ![Default] = Append(queue[Default], rbuf)]
    /\ rbuf' = None
    /\ unclaimed' = FALSE
    /\ rpc' = "signal"
    /\ UNCHANGED <<routerVars, rentry, sent, appVars, ctlVars, made, content>>

(* sdh->DataReceived(): the handler runs in the read thread ... *)
CallHandler ==
    /\ rpc = "call"
    /\ rentry' = None
    /\ rpc' = "handler"
    /\ UNCHANGED <<routerVars, rbuf, sent, unclaimed, appVars, ctlVars, bufferVars>>

(* ... and returns, or throws: a Usb::Error of its own is handled like one *)
(* of BulkRead, any other exception ends DoRead.                           *)
HandlerReturns ==
    /\ rpc = "handler"
    /\ \/ rpc' = "unwind" /\ UNCHANGED seen_error
       \/ rpc' = "error" /\ seen_error' = TRUE
    /\ unclaimed' = FALSE
    /\ UNCHANGED <<dev, interest, running, reg, handler, type, rbuf, rentry, sent,
                   appVars, ctlVars, bufferVars>>

(* The error path: under m_mutex the handlers and the device callback are  *)
(* copied, then each is called.  The controller's callback exists while    *)
(* m_dev is set.                                                           *)
CollectHandlers ==
    /\ rpc = "error"
    /\ rpc' = IF dev THEN "callback" ELSE "unwind"
    /\ UNCHANGED <<routerVars, rbuf, rentry, sent, unclaimed, appVars, ctlVars,
                   bufferVars>>

CallbacksReturn ==
    /\ rpc = "callback"
    /\ rpc' = "unwind"
    /\ UNCHANGED <<routerVars, rbuf, rentry, sent, unclaimed, appVars, ctlVars,
                   bufferVars>>

(* DoRead's destructors, in reverse order of declaration: the DataHandle   *)
(* gives its buffer back, ...                                              *)
DropBuffer ==
    /\ rpc = "unwind"
    /\ ReturnBuffer(rbuf)
    /\ rbuf' = None
    /\ unclaimed' = FALSE
    /\ rpc' = "signal"
    /\ UNCHANGED <<routerVars, rentry, sent, appVars, ctlVars, made>>

(* ... then ~ReadWaitSignal signals the condition ClearUsbDevice waits on. *)
ReadWaitSignal ==
    /\ rpc = "signal"
    /\ cpc' = IF cpc = "asleep" THEN "cleared" ELSE cpc
    /\ rpc' = "top"
    /\ UNCHANGED <<routerVars, rbuf, rentry, sent, unclaimed, appVars, open,
                   bufferVars>>

-----------------------------------------------------------------------------
(* The controller: Usb::Device opened and lent to the router, ... *)
SetUsbDevice ==
    /\ Exists /\ cpc = "detached"
    /\ open' = TRUE
    /\ dev' = TRUE
    /\ cpc' = "attached"
    /\ UNCHANGED <<interest, seen_error, running, reg, handler, type, readerVars,
                   appVars, bufferVars>>

(* ~PrivateControllerData: ClearUsbDevice forgets the device (the slip     *)
(* returns at once), ...                                                   *)
ClearUsbDevice_nowait ==
    /\ cpc = "attached"
    /\ dev' = FALSE
    /\ cpc' = "cleared"
    /\ UNCHANGED <<interest, seen_error, running, reg, handler, type, readerVars,
                   appVars, open, bufferVars>>

ClearUsbDevice ==
    /\ cpc = "attached"
    /\ dev' = FALSE
    /\ cpc' = "clearing"
    /\ UNCHANGED <<interest, seen_error, running, reg, handler, type, readerVars,
                   appVars, open, bufferVars>>

(* waits on m_readwaitCond, testing no predicate, ... *)
ClearUsbDeviceWait ==
    /\ cpc = "clearing"
    /\ cpc' = "asleep"
    /\ UNCHANGED <<routerVars, readerVars, appVars, open, bufferVars>>

ClearUsbDeviceSpurious ==
    /\ Spurious
    /\ cpc = "asleep"
    /\ cpc' = "cleared"
    /\ UNCHANGED <<routerVars, readerVars, appVars, open, bufferVars>>

(* and the interface and the device are released. *)
CloseDevice ==
    /\ cpc = "cleared"
    /\ open' = FALSE
    /\ cpc' = "detached"
    /\ UNCHANGED <<routerVars, readerVars, appVars, bufferVars>>

-----------------------------------------------------------------------------
(* The application.  RegisterInterestAndType throws when the socket is     *)
(* registered; else it allocates an entry.                                 *)
RegisterInterestAndType(s, h, ty) ==
    /\ Exists /\ reg[s] = None
    /\ \E e \in Entries :
         /\ ~Alive(e) /\ e # rentry
         /\ reg' = [reg EXCEPT ![s] = e]
         /\ handler' = [handler EXCEPT ![e] = h]
         /\ type' = [type EXCEPT ![e] = ty]
    /\ interest' = TRUE
    /\ UNCHANGED <<dev, seen_error, running, readerVars, appVars, ctlVars, bufferVars>>

(* What the registrations of rs and tys leave unclaimed of the packet the  *)
(* reader is about to route.                                               *)
StillUnclaimed(rs, tys) ==
    \/ unclaimed
    \/ /\ rpc \in {"routing", "lookup", "default"}
       /\ ~AcceptsIn(rs, tys, content[rbuf])

(* Slips of UnregisterInterest: forgetting the other sockets, not          *)
(* salvaging the buffers, handing them to m_default.                       *)
Unregister_variant(s, flag, to) ==
    LET e == reg[s]
    IN  /\ Exists /\ reg[s] # None
        /\ queue' = IF to = None THEN queue
                    ELSE [queue EXCEPT ![to] = queue[to] \o queue[e], ![e] = <<>>]
        /\ reg' = [reg EXCEPT ![s] = None]
        /\ interest' = (flag /\ \E r \in Sockets : reg'[r] # None)
        /\ handler' = [handler EXCEPT ![e] = FALSE]
        /\ type' = [type EXCEPT ![e] = "data"]
        /\ unclaimed' = StillUnclaimed(reg', type)
        /\ UNCHANGED <<dev, seen_error, running, rpc, rbuf, rentry, sent,
                       appVars, ctlVars, made, content>>

Unregister_all(s) == Unregister_variant(s, FALSE, Free)
Unregister_keep(s) == Unregister_variant(s, TRUE, None)
Unregister_to_default(s) == Unregister_variant(s, TRUE, Default)

(* UnregisterInterest salvages the buffers, erases the entry, and keeps    *)
(* m_interest for the sockets that remain.  What m_free.append_from moved, *)
(* and the type of an entry outside the map, is never read again.          *)
UnregisterInterest(s) ==
    LET e == reg[s]
    IN  /\ Exists /\ reg[s] # None
        /\ queue' = [queue EXCEPT ![Free] = queue[Free] \o queue[e], ![e] = <<>>]
        /\ content' = [b \in Buffers |->
                         IF \E i \in 1..Len(queue[e]) : queue[e][i] = b
                         THEN None ELSE content[b]]
        /\ reg' = [reg EXCEPT ![s] = None]
        /\ interest' = \E r \in Sockets : reg'[r] # None
        /\ handler' = [handler EXCEPT ![e] = FALSE]
        /\ type' = [type EXCEPT ![e] = "data"]
        /\ unclaimed' = StillUnclaimed(reg', type)
        /\ UNCHANGED <<dev, seen_error, running, rpc, rbuf, rentry, sent,
                       appVars, ctlVars, made>>

ChangeInterest(s, ty) ==
    /\ Exists /\ reg[s] # None
    /\ type' = [type EXCEPT ![reg[s]] = ty]
    /\ unclaimed' = StillUnclaimed(reg, type')
    /\ UNCHANGED <<dev, interest, seen_error, running, reg, handler, rpc, rbuf, rentry,
                   sent, appVars, ctlVars, bufferVars>>

(* SocketRead: the entry is looked up and kept alive by a shared_ptr, ... *)
SocketRead(t, s) ==
    /\ Exists /\ apc[t] = "idle"
    /\ reg[s] # None
    /\ aref' = [aref EXCEPT ![t] = reg[s]]
    /\ apc' = [apc EXCEPT ![t] = "wait"]
    /\ UNCHANGED <<routerVars, readerVars, abuf, ctlVars, bufferVars>>

(* wait_pop on that entry's queue: an item, or nothing on timeout, ... *)
SocketReadPop(t) ==
    LET q == queue[aref[t]]
    IN  /\ apc[t] = "wait"
        /\ \/ /\ q # <<>>
              /\ abuf' = [abuf EXCEPT ![t] = Head(q)]
              /\ queue' = [queue EXCEPT ![aref[t]] = Tail(q)]
           \/ /\ q = <<>>
              /\ UNCHANGED <<abuf, queue>>
        /\ apc' = [apc EXCEPT ![t] = "release"]
        /\ UNCHANGED <<routerVars, readerVars, aref, ctlVars, made, content>>

(* and the reference is dropped.  The entry dies with its last reference,  *)
(* and ~DataQueue deletes whatever its queue holds.                        *)
SocketReadRelease(t) ==
    LET e == aref[t]
    IN  /\ apc[t] = "release"
        /\ aref' = [aref EXCEPT ![t] = None]
        /\ queue' = IF Registered(e) \/ \E u \in Apps \ {t} : aref[u] = e
                    THEN queue ELSE [queue EXCEPT ![e] = <<>>]
        /\ apc' = [apc EXCEPT ![t] = "using"]
        /\ UNCHANGED <<routerVars, readerVars, abuf, ctlVars, made, content>>

(* DefaultRead: timeout -1 becomes 0 once an error was seen, so it never   *)
(* waits for ever; it returns a buffer of m_default, or none.              *)
DefaultRead(t) ==
    /\ Exists /\ apc[t] = "idle"
    /\ \/ /\ queue[Default] # <<>>
          /\ abuf' = [abuf EXCEPT ![t] = Head(queue[Default])]
          /\ queue' = [queue EXCEPT ![Default] = Tail(queue[Default])]
       \/ queue[Default] = <<>> /\ UNCHANGED <<abuf, queue>>
    /\ apc' = [apc EXCEPT ![t] = "using"]
    /\ UNCHANGED <<routerVars, readerVars, aref, ctlVars, made, content>>

DropHandle(t) ==
    /\ apc[t] = "using"
    /\ IF abuf[t] = None THEN UNCHANGED <<queue, content>> ELSE ReturnBuffer(abuf[t])
    /\ abuf' = [abuf EXCEPT ![t] = None]
    /\ apc' = [apc EXCEPT ![t] = "idle"]
    /\ UNCHANGED <<routerVars, readerVars, aref, ctlVars, made>>

-----------------------------------------------------------------------------
ReaderStep ==
    \/ ReadThreadExits \/ DoReadIdle \/ DoReadFetch
    \/ BulkReadNothing \/ BulkReadError
    \/ \E s \in Sockets, sq \in BOOLEAN : BulkReadPacket(s, sq)
    \/ ReadInterest \/ QueuePacket \/ RouteToHandler \/ NotAccepted \/ QueueDefault
    \/ CallHandler \/ HandlerReturns \/ CollectHandlers \/ CallbacksReturn
    \/ DropBuffer \/ ReadWaitSignal

ControllerStep ==
    \/ SetUsbDevice \/ ClearUsbDevice \/ ClearUsbDeviceWait
    \/ ClearUsbDeviceSpurious \/ CloseDevice

AppStep(t) ==
    \/ \E s \in Sockets : SocketRead(t, s)
    \/ SocketReadPop(t) \/ SocketReadRelease(t) \/ DefaultRead(t) \/ DropHandle(t)

Next ==
    \/ SpinoffSimpleReadThread \/ Destroy
    \/ ReaderStep
    \/ ControllerStep
    \/ \E s \in Sockets, h \in BOOLEAN, ty \in InterestType :
          RegisterInterestAndType(s, h, ty)
    \/ \E s \in Sockets : UnregisterInterest(s)
    \/ \E s \in Sockets, ty \in InterestType : ChangeInterest(s, ty)
    \/ \E t \in Apps : AppStep(t)

Spec == Init /\ [][Next]_vars

(* The read thread runs, BulkRead ends by its timeout, handlers return; a  *)
(* thread that waits in ClearUsbDevice does nothing else.                  *)
Fairness == WF_vars(ReaderStep) /\ WF_vars(ClearUsbDeviceWait)

FairSpec == Spec /\ Fairness
-----------------------------------------------------------------------------
Holds(p, b) ==
    \/ p \in Queues /\ \E i \in 1..Len(queue[p]) : queue[p][i] = b
    \/ p = "reader" /\ rbuf = b
    \/ p \in Apps /\ abuf[p] = b

(* No buffer is lost, freed with a dying entry, or in two places at once:  *)
(* every Data object ever allocated is in one queue, at one position, or   *)
(* in one DataHandle.  (m_free is fed by four paths: DataHandle, handler   *)
(* return, UnregisterInterest and the constructor.)                        *)
OwnedOnce ==
    /\ \A q \in Queues : \A i, j \in 1..Len(queue[q]) :
          queue[q][i] = queue[q][j] => i = j
    /\ \A b \in 1..made :
          \E p \in Queues \cup Apps \cup {"reader"} :
             /\ Holds(p, b)
             /\ \A r \in Queues \cup Apps \cup {"reader"} : Holds(r, b) => r = p

(* An entry that left the map gets no more packets: its queue is empty, so *)
(* its destructor deletes nothing and a SocketRead that still waits on it  *)
(* cannot get a packet of a socket that was unregistered.                  *)
RetiredQueueEmpty ==
    \A e \in Entries : ~Registered(e) => queue[e] = <<>>

(* The packets in every queue are in the order the device sent them, and   *)
(* an entry's queue holds packets of its own socket only.                  *)
QueuesInOrder ==
    \A q \in Queues \ {Free} : \A i \in 1..Len(queue[q]) :
        /\ content[queue[q][i]] # None
        /\ \A j \in 1..(i - 1) : content[queue[q][j]].n < content[queue[q][i]].n
        /\ q \in Entries => reg[content[queue[q][i]].socket] = q

(* "Any non-registered socket goes in the default queue": a packet ends up *)
(* in m_default only if, at some instant since it was read, nobody was     *)
(* registered for it, although m_interest is read without a lock.          *)
DefaultOnlyIfUnclaimed == rpc = "default" => unclaimed

(* "wait for the DoRead cycle to finish, so the external Usb::Device       *)
(* object doesn't close before we're done with it" (router.cc:254-255):    *)
(* the read thread uses the device, and calls the controller's callback,   *)
(* only while the device is open.                                          *)
DeviceOpenWhileUsed == rpc \in {"bulk", "callback"} => open

(* ClearUsbDevice returns as long as a read thread runs, and the router's  *)
(* destructor gets its thread back.                                        *)
DetachAndJoinReturn ==
    /\ (cpc \in {"clearing", "asleep"} /\ running) ~> cpc \notin {"clearing", "asleep"}
    /\ (~running /\ rpc # "off") ~> rpc = "exited"
=============================================================================
