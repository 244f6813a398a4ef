---------------------------- MODULE SocketPacket ----------------------------
(***************************************************************************)
(* One request and its answer on an open socket: SocketBase::Packet,       *)
(* PacketData and PacketJVM, DBFragSend, SyncSend and the fragmentation    *)
(* of SocketZero::MakeNextFragment and AppendFragment (src/src/socket.cc). *)
(*                                                                         *)
(* What follows the fragment header of a packet is its payload, a sequence *)
(* of bytes; the bytes of a request or an answer are numbered.  The device *)
(* is external: it acknowledges what it receives with a sequence packet,   *)
(* cuts its answer where it likes, and mixes in sequence packets and empty *)
(* reads.  After an exception the application gives the socket up.         *)
(***************************************************************************)
EXTENDS Integers, Sequences

CONSTANTS Room,         \* MAX_PACKET_SIZE - SB_FRAG_HEADER_SIZE
          MaxRequest,   \* bound: bytes of a request
          MaxAnswer,    \* bound: bytes of an answer
          BlankLimit,   \* empty reads in a row before Packet gives up, 10
          MaxCalls,     \* bound: calls made
          MaxNoise,     \* bound: sequence packets the device adds to a call
          MaxWire       \* bound: packets that wait to be read

ASSUME SocketPacketAssumption ==
    /\ Room \in Nat \ {0} /\ BlankLimit \in Nat \ {0}
    /\ MaxRequest \in Nat /\ MaxAnswer \in Nat
    /\ MaxCalls \in Nat /\ MaxNoise \in Nat /\ MaxWire \in Nat \ {0}

VARIABLES
    \* the caller
    pc,         \* where the call is
    kind,       \* which function: db = Packet, jl = PacketData, jvm = PacketJVM
    request,    \* payload of send
    offset,     \* DBFragSend's offset
    more,       \* a JLPacket's data still has to be sent after its command
    receive,    \* the caller's buffer
    frag,       \* Packet's frag: receive holds the first fragments
    blankCount,
    calls,
    \* the device
    down,       \* the packet on its way to the device, or None
    got,        \* what the device has put together of the request
    answer,     \* the payload of its answer
    given,      \* bytes of the answer it has sent
    dphase,     \* listening, answering or finished
    up,         \* packets on their way to the caller
    noise

vars == <<pc, kind, request, offset, more, receive, frag, blankCount, calls,
          down, got, answer, given, dphase, up, noise>>
callVars == <<kind, request, more, calls>>
loopVars == <<receive, frag, blankCount>>
devVars == <<got, answer, given, dphase, noise>>

None == [command |-> "NONE", data |-> <<>>]
Numbered(n) == [i \in 1..n |-> i]
Bytes == 1..(IF MaxRequest > MaxAnswer THEN MaxRequest ELSE MaxAnswer)
PacketType == [command : {"NONE", "BLANK", "SEQUENCE", "COMMAND", "DATA", "FRAGMENTED",
                          "DONE", "REFUSED", "OTHER"},
               data : Seq(Bytes)]
Packet(c, d) == [command |-> c, data |-> d]

TypeOK ==
    /\ pc \in {"idle", "send", "ack", "receive", "failed"}
    /\ kind \in {"db", "jl", "jvm"}
    /\ request \in Seq(Bytes) /\ offset \in 0..MaxRequest /\ more \in BOOLEAN
    /\ receive \in PacketType /\ frag \in BOOLEAN /\ blankCount \in 0..BlankLimit
    /\ calls \in 0..MaxCalls
    /\ down \in PacketType /\ got \in Seq(Bytes) /\ answer \in Seq(Bytes)
    /\ given \in 0..MaxAnswer
    /\ dphase \in {"listening", "answering", "finished"}
    /\ up \in Seq(PacketType) /\ Len(up) <= MaxWire
    /\ noise \in 0..MaxNoise

Init ==
    /\ pc = "idle" /\ kind = "db" /\ request = <<>> /\ offset = 0 /\ more = FALSE
    /\ receive = None /\ frag = FALSE /\ blankCount = 0 /\ calls = 0
    /\ down = None /\ got = <<>> /\ answer = <<>> /\ given = 0
    /\ dphase = "finished" /\ up = <<>> /\ noise = 0

-----------------------------------------------------------------------------
(* Mutant: the data is taken from the front each time. *)
Fragment_restart(whole, off) ==
    LET left == Len(whole) - off
        todo == IF left > Room THEN Room ELSE left
    IN  [data |-> SubSeq(whole, 1, todo), next |-> IF left > Room THEN off + todo ELSE 0]

(* MakeNextFragment: how much goes into the fragment at offset, and the    *)
(* next offset, 0 after the last.                                          *)
Fragment(whole, off) ==
    LET left == Len(whole) - off
        todo == IF left > Room THEN Room ELSE left
    IN  [data |-> SubSeq(whole, off + 1, off + todo),
         next |-> IF left > Room THEN off + todo ELSE 0]

(* Mutant: the fragment replaces what is there. *)
AppendFragment_copy(whole, part) == Packet("DATA", part.data)

(* AppendFragment: also turns the command into DATA. *)
AppendFragment(whole, part) == Packet("DATA", whole.data \o part.data)

(* A call begins: receive.Zap().  Requests of PacketData and PacketJVM fit *)
(* into one packet; a JLPacket may consist of a command and data.          *)
Begin(k, n, m) ==
    /\ pc = "idle" /\ calls < MaxCalls
    /\ m => k = "jl"
    /\ k # "db" => n <= Room
    /\ pc' = "send" /\ kind' = k /\ request' = Numbered(n) /\ offset' = 0 /\ more' = m
    /\ receive' = None /\ frag' = FALSE /\ blankCount' = 0
    /\ calls' = calls + 1
    /\ got' = <<>> /\ answer' = <<>> /\ given' = 0 /\ dphase' = "listening" /\ noise' = 0
    /\ UNCHANGED <<down, up>>

(* DBFragSend sends a request that fits as it is, and fragments of one     *)
(* that does not; the others send one packet.                              *)
SendNext ==
    /\ pc = "send" /\ down = None
    /\ \/ /\ more
          /\ down' = Packet("COMMAND", <<>>) /\ UNCHANGED offset
       \/ /\ ~more /\ (kind # "db" \/ Len(request) <= Room)
          /\ down' = Packet("DATA", request) /\ UNCHANGED offset
       \/ /\ kind = "db" /\ Len(request) > Room
          /\ LET f == Fragment(request, offset) IN
             /\ down' = Packet(IF f.next > 0 THEN "FRAGMENTED" ELSE "DATA", f.data)
             /\ offset' = f.next
    /\ pc' = IF kind = "jvm" THEN "receive" ELSE "ack"
    /\ UNCHANGED <<callVars, loopVars, devVars, up>>

(* Socket::Receive. *)
Read == up # <<>> /\ up' = Tail(up)

(* SyncSend waits for a sequence packet and accepts nothing else. *)
SyncSendAck ==
    /\ pc = "ack" /\ Read
    /\ \/ /\ Head(up).command # "SEQUENCE"
          /\ pc' = "failed" /\ UNCHANGED more
       \/ /\ Head(up).command = "SEQUENCE" /\ (offset > 0 \/ more)
          /\ pc' = "send" /\ more' = FALSE
       \/ /\ Head(up).command = "SEQUENCE" /\ offset = 0 /\ ~more
          /\ pc' = "receive" /\ UNCHANGED more
    /\ UNCHANGED <<kind, request, offset, calls, loopVars, devVars, down>>

(* Mutant: blanks are not counted. *)
ReadBlank_uncounted ==
    /\ pc = "receive" /\ Read
    /\ Head(up).command = "BLANK"
    /\ receive' = IF frag THEN receive ELSE Head(up)
    /\ UNCHANGED <<pc, callVars, frag, blankCount, offset, devVars, down>>

(* An empty packet, or for PacketJVM one shorter than 6 bytes. *)
ReadBlank ==
    /\ pc = "receive" /\ Read
    /\ Head(up).command = "BLANK"
    /\ blankCount' = blankCount + 1
    /\ pc' = IF blankCount' = BlankLimit THEN "failed" ELSE "receive"
    /\ receive' = IF frag THEN receive ELSE Head(up)
    /\ UNCHANGED <<callVars, frag, offset, devVars, down>>

ReadSequence ==
    /\ pc = "receive" /\ Read
    /\ Head(up).command = "SEQUENCE"
    /\ blankCount' = 0
    /\ receive' = IF frag THEN receive ELSE Head(up)
    /\ UNCHANGED <<pc, callVars, frag, offset, devVars, down>>

ReadFragment ==
    /\ pc = "receive" /\ Read
    /\ kind = "db" /\ Head(up).command \in {"FRAGMENTED", "DATA"}
    /\ receive' = IF frag THEN AppendFragment(receive, Head(up)) ELSE Head(up)
    /\ frag' = (frag \/ Head(up).command = "FRAGMENTED")
    /\ pc' = IF Head(up).command = "DATA" THEN "idle" ELSE "receive"
    /\ blankCount' = 0
    /\ UNCHANGED <<callVars, offset, devVars, down>>

(* Packet: DB_DONE ends the call, an unknown command throws. *)
ReadDone ==
    /\ pc = "receive" /\ Read
    /\ kind = "db" /\ Head(up).command \in {"DONE", "REFUSED", "OTHER"}
    /\ pc' = IF Head(up).command = "DONE" THEN "idle" ELSE "failed"
    /\ receive' = IF frag THEN receive ELSE Head(up)
    /\ blankCount' = 0
    /\ UNCHANGED <<callVars, frag, offset, devVars, down>>

(* PacketData returns any other packet but INVALID and NOT_SUPPORTED. *)
PacketData ==
    /\ pc = "receive" /\ Read
    /\ kind = "jl" /\ Head(up).command \notin {"BLANK", "SEQUENCE"}
    /\ pc' = IF Head(up).command = "REFUSED" THEN "failed" ELSE "idle"
    /\ receive' = Head(up) /\ blankCount' = 0
    /\ UNCHANGED <<callVars, frag, offset, devVars, down>>

(* PacketJVM returns a packet of 6 bytes, here DONE, and throws for longer *)
(* ones.                                                                   *)
PacketJVM ==
    /\ pc = "receive" /\ Read
    /\ kind = "jvm" /\ Head(up).command \notin {"BLANK", "SEQUENCE"}
    /\ pc' = IF Head(up).command = "DONE" THEN "idle" ELSE "failed"
    /\ receive' = Head(up) /\ blankCount' = 0
    /\ UNCHANGED <<callVars, frag, offset, devVars, down>>

(* Socket::Receive throws Usb::Timeout. *)
Timeout ==
    /\ pc \in {"ack", "receive"} /\ up = <<>>
    /\ pc' = "failed"
    /\ UNCHANGED <<callVars, loopVars, offset, devVars, down, up>>

-----------------------------------------------------------------------------
(* The device. *)
Arrive(p) == Len(up) < MaxWire /\ up' = Append(up, p)

(* It adds what it received to the request, acknowledges, and answers when *)
(* the last part is there.                                                 *)
DeviceReceives ==
    /\ down # None
    /\ Arrive(Packet("SEQUENCE", <<>>))
    /\ down' = None
    /\ got' = got \o down.data
    /\ \/ /\ down.command # "DATA"
          /\ UNCHANGED <<dphase, answer>>
       \/ /\ down.command = "DATA"
          /\ dphase' = "answering"
          /\ \E n \in 0..MaxAnswer : answer' = Numbered(n)
    /\ UNCHANGED <<pc, callVars, loopVars, offset, given, noise>>

(* A part of the answer, with the command that says whether it is the last.*)
DeviceAnswers ==
    /\ dphase = "answering" /\ kind = "db"
    /\ \E n \in 0..(Len(answer) - given) :
        LET last == given + n = Len(answer) IN
        /\ n > 0 \/ last
        /\ Arrive(Packet(IF last THEN "DATA" ELSE "FRAGMENTED", SubSeq(answer, given + 1, given + n)))
        /\ given' = given + n
        /\ dphase' = IF last THEN "finished" ELSE dphase
    /\ UNCHANGED <<pc, callVars, loopVars, offset, down, got, answer, noise>>

(* An answer without data. *)
DeviceReplies ==
    /\ dphase = "answering" /\ given = 0
    /\ \E c \in {"DONE", "REFUSED", "OTHER"} : Arrive(Packet(c, <<>>))
    /\ dphase' = "finished" /\ answer' = <<>>
    /\ UNCHANGED <<pc, callVars, loopVars, offset, down, got, given, noise>>

DeviceSequence ==
    /\ pc = "receive" /\ noise < MaxNoise
    /\ Arrive(Packet("SEQUENCE", <<>>))
    /\ noise' = noise + 1
    /\ UNCHANGED <<pc, callVars, loopVars, offset, down, got, answer, given, dphase>>

DeviceBlank ==
    /\ pc = "receive"
    /\ Arrive(Packet("BLANK", <<>>))
    /\ UNCHANGED <<pc, callVars, loopVars, offset, down, devVars>>

Caller == \/ SendNext \/ SyncSendAck \/ ReadBlank \/ ReadSequence
          \/ ReadFragment \/ ReadDone \/ PacketData \/ PacketJVM \/ Timeout

Device == \/ DeviceReceives \/ DeviceAnswers \/ DeviceReplies

Next == \/ \E k \in {"db", "jl", "jvm"}, n \in 1..MaxRequest, m \in BOOLEAN : Begin(k, n, m)
        \/ Caller \/ Device \/ DeviceSequence \/ DeviceBlank

Spec == Init /\ [][Next]_vars

FairSpec == Spec /\ WF_vars(Caller) /\ WF_vars(Device)

-----------------------------------------------------------------------------
(* Correctness *)

(* What the device puts together from the packets of DBFragSend is the     *)
(* request, whatever its size: no fragment is lost, repeated or reordered, *)
(* and only the last one has the command that ends it.                     *)
RequestIntact ==
    /\ pc # "idle" /\ dphase # "listening" => got = request
    /\ dphase = "listening" => Len(got) <= Len(request)

(* A call that returns hands over the whole answer and nothing else, after *)
(* the device has sent the last of it: with sequence packets and blanks    *)
(* between its fragments, and with those that an earlier call left unread. *)
AnswerIntact ==
    pc = "idle" /\ calls > 0 => dphase = "finished" /\ receive.data = answer

(* A call ends, if only with an exception: even a device that sends empty  *)
(* packets for ever is given up on.                                        *)
CallEnds == pc = "send" ~> pc \in {"idle", "failed"}
=============================================================================
