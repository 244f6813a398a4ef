------------------------- MODULE SocketPacketProofs -------------------------
(***************************************************************************)
(* The theorems about SocketPacket, for any packet size, any size of       *)
(* request and answer and any number of calls: fragmentation and           *)
(* defragmentation lose, repeat and reorder nothing.                       *)
(***************************************************************************)
EXTENDS SocketPacket, SequenceTheorems, TLAPS

NoiseCommands == {"SEQUENCE", "BLANK"}
LastCommands == {"DATA", "DONE", "REFUSED", "OTHER"}

(* How much of the request has left the caller. *)
Sent ==
    IF pc = "send" \/ (pc = "ack" /\ (offset > 0 \/ more)) THEN offset ELSE Len(request)

(* Sizes that the types need. *)
Sizes ==
    /\ Len(request) <= MaxRequest /\ Len(answer) <= MaxAnswer /\ given <= Len(answer)
    /\ pc # "failed" => blankCount < BlankLimit

(* The caller's side of the request: more to send only before the device   *)
(* has seen the last part.                                                 *)
Sending ==
    /\ more => kind = "jl" /\ offset = 0
    /\ offset > 0 => kind = "db" /\ Room < Len(request) /\ offset < Len(request)
    /\ pc = "send" \/ (pc = "ack" /\ (offset > 0 \/ more)) =>
          dphase = "listening" /\ down.command # "DATA"
    /\ pc = "idle" => dphase = "finished"

(* The device's side of it: what it has and what is on its way are what the *)
(* caller has sent, and all of the request once it answers.                 *)
Heard ==
    /\ dphase = "listening" =>
          /\ given = 0
          /\ \E n \in 0..Len(request) :
                /\ got \o down.data = SubSeq(request, 1, n)
                /\ down.command = "DATA" => n = Len(request)
                /\ pc # "failed" => n = Sent
    /\ dphase # "listening" => got = request /\ down = None

(* The packets u on their way to the caller, when the device is in phase d, *)
(* the call is of kind k and the answer is a: one that ends the answer comes*)
(* last, and without one the device has not finished.                       *)
Quiet(u) == \A i \in 1..Len(u) : u[i].command \in NoiseCommands

Stream(u, d, k, a) ==
    \A i \in 1..Len(u) :
        /\ u[i].command \in NoiseCommands \cup LastCommands \cup {"FRAGMENTED"}
        /\ u[i].command \in NoiseCommands => u[i].data = <<>>
        /\ u[i].command \in LastCommands =>
              /\ d = "finished"
              /\ \A j \in 1..Len(u) : j > i => u[j].command \in NoiseCommands
        /\ u[i].command \in {"FRAGMENTED", "DATA"} => k = "db"
        /\ u[i].command \in LastCommands \ {"DATA"} => a = <<>>

(* The cuts b of the answer a, of which g bytes were sent: packet i carries *)
(* what lies between cut i - 1 and cut i.                                   *)
Parts(u, a, g, b) ==
    /\ b \in [0..Len(u) -> 0..g]
    /\ b[Len(u)] = g
    /\ \A i \in 1..Len(u) :
          /\ b[i - 1] <= b[i]
          /\ u[i].data = SubSeq(a, b[i - 1] + 1, b[i])
          /\ u[i].command = "DATA" => b[i] = Len(a)

Wire ==
    /\ Stream(up, dphase, kind, answer)
    /\ dphase = "listening" \/ pc = "idle" => Quiet(up)

(* What was read before lies below cut 0. *)
Read0(c) == IF frag THEN receive.data = SubSeq(answer, 1, c) ELSE c = 0

Reading ==
    /\ pc \in {"send", "ack"} \/ dphase = "listening" => ~frag
    /\ pc \in {"send", "ack", "receive"} =>
          \E b \in [0..Len(up) -> 0..given] : Parts(up, answer, given, b) /\ Read0(b[0])

IInv == TypeOK /\ Sizes /\ Sending /\ Heard /\ Wire /\ Reading /\ AnswerIntact

-----------------------------------------------------------------------------
(* Facts about sequences. *)

LEMMA PartFacts ==
    ASSUME NEW s \in Seq(Bytes), NEW a \in 0..Len(s), NEW b \in a..Len(s)
    PROVE  /\ SubSeq(s, a + 1, b) \in Seq(Bytes)
           /\ Len(SubSeq(s, a + 1, b)) = b - a
           /\ \A i \in 1..(b - a) : SubSeq(s, a + 1, b)[i] = s[a + i]
OBVIOUS

LEMMA PartsJoin ==
    ASSUME NEW s \in Seq(Bytes), NEW a \in 0..Len(s), NEW b \in a..Len(s)
    PROVE  SubSeq(s, 1, a) \o SubSeq(s, a + 1, b) = SubSeq(s, 1, b)
OBVIOUS

LEMMA WholeIs == ASSUME NEW s \in Seq(Bytes) PROVE SubSeq(s, 1, Len(s)) = s
OBVIOUS

LEMMA NumberedFacts ==
    ASSUME NEW n \in Nat, n <= MaxRequest \/ n <= MaxAnswer
    PROVE  Numbered(n) \in Seq(Bytes) /\ Len(Numbered(n)) = n
<1>1. \A i \in 1..n : i \in Bytes
  BY SocketPacketAssumption DEF Bytes
<1> QED
  BY <1>1 DEF Numbered

LEMMA TailFacts ==
    ASSUME NEW u \in Seq(PacketType), u # <<>>
    PROVE  /\ Tail(u) \in Seq(PacketType) /\ Len(Tail(u)) = Len(u) - 1
           /\ Len(u) \in Nat /\ Len(u) >= 1 /\ Head(u) = u[1] /\ u[1] \in PacketType
           /\ \A i \in 1..(Len(u) - 1) : Tail(u)[i] = u[i + 1]
OBVIOUS

LEMMA AppendFacts ==
    ASSUME NEW u \in Seq(PacketType), NEW p \in PacketType
    PROVE  /\ Append(u, p) \in Seq(PacketType) /\ Len(Append(u, p)) = Len(u) + 1
           /\ Len(u) \in Nat /\ Append(u, p)[Len(u) + 1] = p
           /\ \A i \in 1..Len(u) : Append(u, p)[i] = u[i]
OBVIOUS

-----------------------------------------------------------------------------
(* The wire, when a packet is taken from it. *)

LEMMA StreamRead ==
    ASSUME NEW u \in Seq(PacketType), u # <<>>, NEW d, NEW k, NEW a, Stream(u, d, k, a)
    PROVE  /\ Stream(Tail(u), d, k, a)
           /\ Quiet(u) => Quiet(Tail(u))
           /\ Head(u).command \in NoiseCommands \cup LastCommands \cup {"FRAGMENTED"}
           /\ Head(u).command \in NoiseCommands => Head(u).data = <<>>
           /\ Head(u).command \in LastCommands => d = "finished" /\ Quiet(Tail(u))
           /\ Head(u).command \in {"FRAGMENTED", "DATA"} => k = "db"
           /\ Head(u).command \in LastCommands \ {"DATA"} => a = <<>>
<1> DEFINE t == Tail(u)
<1>1. /\ Len(t) = Len(u) - 1 /\ Len(u) \in Nat /\ Len(u) >= 1 /\ Head(u) = u[1]
      /\ \A i \in 1..Len(t) : t[i] = u[i + 1]
  BY TailFacts
<1>2. \A i \in 1..Len(t) : i + 1 \in 1..Len(u)
  BY <1>1
<1> HIDE DEF t
<1>3. Stream(t, d, k, a)
  <2>1. ASSUME NEW i \in 1..Len(t), t[i].command \in LastCommands
        PROVE  d = "finished" /\ \A j \in 1..Len(t) : j > i => t[j].command \in NoiseCommands
    <3>1. i + 1 \in 1..Len(u) /\ u[i + 1].command \in LastCommands
      BY <1>1, <1>2, <2>1
    <3>2. /\ d = "finished"
          /\ \A m \in 1..Len(u) : m > i + 1 => u[m].command \in NoiseCommands
      BY <3>1 DEF Stream
    <3>3. ASSUME NEW j \in 1..Len(t), j > i
          PROVE  t[j].command \in NoiseCommands
      <4>1. j + 1 \in 1..Len(u) /\ j + 1 > i + 1 /\ t[j] = u[j + 1]
        BY <1>1, <1>2, <3>3
      <4> QED
        BY <3>2, <4>1
    <3> QED
      BY <3>2, <3>3
  <2>2. ASSUME NEW i \in 1..Len(t)
        PROVE  /\ t[i].command \in NoiseCommands \cup LastCommands \cup {"FRAGMENTED"}
               /\ t[i].command \in NoiseCommands => t[i].data = <<>>
               /\ t[i].command \in {"FRAGMENTED", "DATA"} => k = "db"
               /\ t[i].command \in LastCommands \ {"DATA"} => a = <<>>
    <3>1. i + 1 \in 1..Len(u) /\ t[i] = u[i + 1]
      BY <1>1, <1>2
    <3> QED
      BY <3>1 DEF Stream
  <2> QED
    BY <2>1, <2>2 DEF Stream
<1>4. Quiet(u) => Quiet(t)
  BY <1>1, <1>2 DEF Quiet
<1>5. 1 \in 1..Len(u)
  BY <1>1
<1>6. Head(u).command \in LastCommands => Quiet(t)
  <2>1. \A i \in 1..Len(t) : i + 1 > 1
    BY <1>1
  <2> QED
    BY <1>1, <1>2, <1>5, <2>1 DEF Stream, Quiet
<1> QED
  BY <1>1, <1>3, <1>4, <1>5, <1>6 DEF Stream, t

LEMMA PartsRead ==
    ASSUME NEW u \in Seq(PacketType), u # <<>>, NEW a \in Seq(Bytes), NEW g \in 0..Len(a),
           NEW b \in [0..Len(u) -> 0..g], Parts(u, a, g, b)
    PROVE  /\ b[0] \in 0..g /\ b[1] \in b[0]..g
           /\ Head(u).data = SubSeq(a, b[0] + 1, b[1])
           /\ Head(u).command = "DATA" => b[1] = Len(a)
           /\ \E c \in [0..Len(Tail(u)) -> 0..g] :
                 Parts(Tail(u), a, g, c) /\ c[0] = b[1]
<1>1. PICK t : t = Tail(u)
  OBVIOUS
<1>2. /\ Len(t) = Len(u) - 1 /\ Len(u) \in Nat /\ Len(u) >= 1 /\ Head(u) = u[1]
      /\ \A i \in 1..Len(t) : t[i] = u[i + 1]
  BY <1>1, TailFacts
<1>3. /\ b[0] \in 0..g /\ b[1] \in 0..g /\ b[0] <= b[1] /\ Len(a) \in Nat
      /\ Head(u).data = SubSeq(a, b[0] + 1, b[1])
      /\ Head(u).command = "DATA" => b[1] = Len(a)
  <2>1. 0 \in 0..Len(u) /\ 1 \in 0..Len(u) /\ 1 \in 1..Len(u) /\ Len(a) \in Nat
    BY <1>2
  <2>2. b[0] \in 0..g /\ b[1] \in 0..g
    BY <2>1
  <2>3. PICK i \in 1..Len(u) : i = 1
    BY <2>1
  <2>4. /\ b[i - 1] <= b[i] /\ u[i].data = SubSeq(a, b[i - 1] + 1, b[i])
        /\ u[i].command = "DATA" => b[i] = Len(a)
    BY DEF Parts
  <2>5. i - 1 = 0
    BY <2>3
  <2> QED
    BY <1>2, <2>1, <2>2, <2>3, <2>4, <2>5
<1>4. PICK c : c = [i \in 0..Len(t) |-> b[i + 1]]
  OBVIOUS
<1>5. /\ \A i \in 0..Len(t) : c[i] = b[i + 1] /\ i + 1 \in 0..Len(u)
      /\ 0 \in 0..Len(t) /\ Len(t) \in 0..Len(t) /\ Len(t) + 1 = Len(u)
  BY <1>2, <1>4
<1>6. c \in [0..Len(t) -> 0..g]
  BY <1>4, <1>5
<1>7. Parts(t, a, g, c)
  <2>1. c[Len(t)] = g
    BY <1>5 DEF Parts
  <2>2. ASSUME NEW i \in 1..Len(t)
        PROVE  /\ c[i - 1] <= c[i]
               /\ t[i].data = SubSeq(a, c[i - 1] + 1, c[i])
               /\ t[i].command = "DATA" => c[i] = Len(a)
    <3>1. i + 1 \in 1..Len(u) /\ i - 1 \in 0..Len(t) /\ i \in 0..Len(t)
          /\ (i - 1) + 1 = i /\ (i + 1) - 1 = i
      BY <1>2
    <3>2. c[i - 1] = b[i] /\ c[i] = b[i + 1] /\ t[i] = u[i + 1]
      BY <1>2, <1>5, <3>1
    <3> QED
      BY <3>1, <3>2 DEF Parts
  <2> QED
    BY <1>6, <2>1, <2>2 DEF Parts
<1>8. c[0] = b[1]
  BY <1>5
<1>9. b[1] \in b[0]..g
  BY <1>3
<1>10. \E x \in [0..Len(t) -> 0..g] : Parts(t, a, g, x) /\ x[0] = b[1]
  BY <1>6, <1>7, <1>8
<1> QED
  BY <1>1, <1>3, <1>9, <1>10

-----------------------------------------------------------------------------
(* The wire, when a packet is added. *)

LEMMA StreamArrives ==
    ASSUME NEW u \in Seq(PacketType), NEW p \in PacketType, NEW d, NEW e, NEW k, NEW a, NEW z,
           Stream(u, d, k, a),
           \A i \in 1..Len(u) : u[i].command \in LastCommands =>
              d = e /\ z = a /\ p.command \in NoiseCommands,
           p.command \in NoiseCommands \cup LastCommands \cup {"FRAGMENTED"},
           p.command \in NoiseCommands => p.data = <<>>,
           p.command \in LastCommands => e = "finished",
           p.command \in {"FRAGMENTED", "DATA"} => k = "db",
           p.command \in LastCommands \ {"DATA"} => z = <<>>
    PROVE  /\ Stream(Append(u, p), e, k, z)
           /\ Quiet(u) /\ p.command \in NoiseCommands => Quiet(Append(u, p))
<1>1. PICK v, n : v = Append(u, p) /\ n = Len(u)
  OBVIOUS
<1>2. Len(v) = n + 1 /\ n \in Nat /\ v[n + 1] = p /\ \A i \in 1..n : v[i] = u[i]
  BY <1>1, AppendFacts
<1>3. \A i \in 1..(n + 1) : i \in 1..n \/ i = n + 1
  BY <1>2
<1>4. Quiet(u) /\ p.command \in NoiseCommands => Quiet(v)
  BY <1>1, <1>2, <1>3 DEF Quiet
<1>5. ASSUME NEW i \in 1..Len(v)
      PROVE  /\ v[i].command \in NoiseCommands \cup LastCommands \cup {"FRAGMENTED"}
             /\ v[i].command \in NoiseCommands => v[i].data = <<>>
             /\ v[i].command \in LastCommands =>
                   /\ e = "finished"
                   /\ \A j \in 1..Len(v) : j > i => v[j].command \in NoiseCommands
             /\ v[i].command \in {"FRAGMENTED", "DATA"} => k = "db"
             /\ v[i].command \in LastCommands \ {"DATA"} => z = <<>>
  <2>1. CASE i = n + 1
    <3>1. \A j \in 1..Len(v) : ~(j > i)
      BY <1>2, <2>1
    <3> QED
      BY <1>2, <2>1, <3>1
  <2>2. CASE i \in 1..n
    <3>1. v[i] = u[i]
      BY <1>2, <2>2
    <3>2. u[i].command \in LastCommands =>
             \A j \in 1..Len(v) : j > i => v[j].command \in NoiseCommands
      <4> SUFFICES ASSUME u[i].command \in LastCommands, NEW j \in 1..Len(v), j > i
                   PROVE  v[j].command \in NoiseCommands
        OBVIOUS
      <4>1. CASE j = n + 1
        BY <1>1, <1>2, <2>2, <4>1
      <4>2. CASE j \in 1..n
        BY <1>1, <1>2, <2>2, <4>2 DEF Stream
      <4> QED
        BY <1>2, <1>3, <4>1, <4>2
    <3> QED
      BY <1>1, <2>2, <3>1, <3>2 DEF Stream
  <2> QED
    BY <1>2, <1>3, <2>1, <2>2
<1>6. Stream(v, e, k, z)
  BY <1>5 DEF Stream
<1> QED
  BY <1>1, <1>4, <1>6

(* Packet p carries bytes g + 1 to h of the answer a. *)
Carries(p, a, g, h) ==
    p.data = SubSeq(a, g + 1, h) /\ (p.command = "DATA" => h = Len(a))

LEMMA PartsArrive ==
    ASSUME NEW u \in Seq(PacketType), NEW p \in PacketType, NEW a \in Seq(Bytes),
           NEW g \in 0..Len(a), NEW h \in g..Len(a),
           NEW b \in [0..Len(u) -> 0..g], Parts(u, a, g, b),
           Carries(p, a, g, h)
    PROVE  \E c \in [0..Len(Append(u, p)) -> 0..h] :
              Parts(Append(u, p), a, h, c) /\ c[0] = b[0]
<1>1. PICK v, n : v = Append(u, p) /\ n = Len(u)
  OBVIOUS
<1>2. /\ Len(v) = n + 1 /\ n \in Nat /\ v[n + 1] = p /\ Len(a) \in Nat
      /\ \A i \in 1..n : v[i] = u[i]
  BY <1>1, AppendFacts
<1>3. PICK c : c = [i \in 0..(n + 1) |-> IF i = n + 1 THEN h ELSE b[i]]
  OBVIOUS
<1>4. c[n + 1] = h /\ \A i \in 0..n : c[i] = b[i] /\ i \in 0..(n + 1)
  BY <1>2, <1>3
<1>5. c \in [0..Len(v) -> 0..h]
  <2>1. \A i \in 0..(n + 1) : i \in 0..n \/ i = n + 1
    BY <1>2
  <2>2. h \in 0..h /\ \A i \in 0..n : b[i] \in 0..h
    <3>1. h \in Nat /\ g \in Nat /\ g <= h
      BY <1>2
    <3>2. \A i \in 0..n : b[i] \in 0..g
      BY <1>1
    <3> QED
      BY <3>1, <3>2
  <2> QED
    BY <1>2, <1>3, <2>1, <2>2
<1>6. Parts(v, a, h, c)
  <2>1. b[n] = g
    BY <1>1 DEF Parts
  <2>2. ASSUME NEW i \in 1..Len(v)
        PROVE  /\ c[i - 1] <= c[i]
               /\ v[i].data = SubSeq(a, c[i - 1] + 1, c[i])
               /\ v[i].command = "DATA" => c[i] = Len(a)
    <3>1. CASE i = n + 1
      <4>1. c[i - 1] = g /\ c[i] = h /\ v[i] = p
        BY <1>2, <1>4, <2>1, <3>1
      <4> QED
        BY <4>1 DEF Carries
    <3>2. CASE i \in 1..n
      <4>1. i - 1 \in 0..n /\ i \in 0..n
        BY <1>2, <3>2
      <4>2. c[i - 1] = b[i - 1] /\ c[i] = b[i] /\ v[i] = u[i]
        BY <1>2, <1>4, <3>2, <4>1
      <4> QED
        BY <1>1, <3>2, <4>2 DEF Parts
    <3> QED
      BY <1>2, <3>1, <3>2
  <2> QED
    BY <1>2, <1>4, <1>5, <2>2 DEF Parts
<1>7. c[0] = b[0]
  BY <1>2, <1>4
<1> QED
  BY <1>1, <1>5, <1>6, <1>7

(* Packets without data are parts of any answer of which nothing was sent. *)
LEMMA PartsNone ==
    ASSUME NEW u \in Seq(PacketType), NEW a \in Seq(Bytes),
           \A i \in 1..Len(u) : u[i].data = <<>>,
           \A i \in 1..Len(u) : u[i].command = "DATA" => a = <<>>
    PROVE  \E c \in [0..Len(u) -> 0..0] : Parts(u, a, 0, c) /\ c[0] = 0
<1>1. PICK c : c = [i \in 0..Len(u) |-> 0]
  OBVIOUS
<1>2. Len(u) \in Nat /\ c \in [0..Len(u) -> 0..0] /\ \A i \in 0..Len(u) : c[i] = 0
  BY <1>1
<1>3. SubSeq(a, 0 + 1, 0) = <<>>
  OBVIOUS
<1>4. ASSUME NEW i \in 1..Len(u)
      PROVE  /\ c[i - 1] <= c[i]
             /\ u[i].data = SubSeq(a, c[i - 1] + 1, c[i])
             /\ u[i].command = "DATA" => c[i] = Len(a)
  <2>1. c[i - 1] = 0 /\ c[i] = 0
    BY <1>2
  <2>2. a = <<>> => Len(a) = 0
    OBVIOUS
  <2>3. SubSeq(a, c[i - 1] + 1, c[i]) = <<>>
    BY <1>3, <2>1
  <2>4. c[i - 1] <= c[i]
    BY <2>1
  <2> QED
    BY <2>1, <2>2, <2>3, <2>4
<1>5. Parts(u, a, 0, c) /\ c[0] = 0
  BY <1>2, <1>4 DEF Parts
<1> QED
  BY <1>2, <1>5

(* While nothing of the answer was sent, no packet has data. *)
LEMMA NoPartsNoData ==
    ASSUME NEW u \in Seq(PacketType), NEW a \in Seq(Bytes),
           NEW b \in [0..Len(u) -> 0..0], Parts(u, a, 0, b)
    PROVE  b[0] = 0 /\ \A i \in 1..Len(u) : u[i].data = <<>>
<1>1. Len(u) \in Nat /\ \A i \in 0..Len(u) : b[i] = 0
  OBVIOUS
<1>2. SubSeq(a, 0 + 1, 0) = <<>>
  OBVIOUS
<1>3. ASSUME NEW i \in 1..Len(u) PROVE u[i].data = <<>>
  <2>1. i - 1 \in 0..Len(u) /\ i \in 0..Len(u)
    BY <1>1
  <2>2. b[i - 1] = 0 /\ b[i] = 0
    BY <1>1, <2>1
  <2>3. u[i].data = SubSeq(a, b[i - 1] + 1, b[i])
    BY DEF Parts
  <2> QED
    BY <1>2, <2>2, <2>3
<1> QED
  BY <1>1, <1>3

-----------------------------------------------------------------------------
(* The inductive invariant. *)

LEMMA InitHolds == Init => IInv
<1> SUFFICES ASSUME Init PROVE IInv
  OBVIOUS
<1>1. None \in PacketType /\ <<>> \in Seq(Bytes) /\ <<>> \in Seq(PacketType)
  BY DEF None, PacketType
<1>2. TypeOK
  <2>1. /\ 0 \in 0..MaxRequest /\ 0 \in 0..BlankLimit /\ 0 \in 0..MaxCalls
        /\ 0 \in 0..MaxAnswer /\ 0 \in 0..MaxNoise /\ Len(<<>>) <= MaxWire
    BY SocketPacketAssumption
  <2> QED
    BY <1>1, <2>1 DEF Init, TypeOK
<1>3. Sizes /\ Sending /\ Heard
  BY SocketPacketAssumption DEF Init, Sizes, Sending, Heard
<1>4. Wire /\ Reading /\ AnswerIntact
  BY DEF Init, Wire, Stream, Quiet, Reading, AnswerIntact
<1> QED
  BY <1>2, <1>3, <1>4 DEF IInv

(* Any packet that is read in the receive loops. *)
LEMMA ReadKeeps ==
    ASSUME IInv, pc = "receive", Read, UNCHANGED <<callVars, offset, devVars, down>>,
           pc' \in {"receive", "idle", "failed"}, receive' \in PacketType,
           frag' \in BOOLEAN, blankCount' \in 0..BlankLimit,
           pc' # "failed" => blankCount' < BlankLimit,
           dphase = "listening" => ~frag',
           pc' = "idle" => Head(up).command \in LastCommands /\ receive'.data = answer,
           pc' = "receive" =>
              \E b \in [0..Len(Tail(up)) -> 0..given] :
                 /\ Parts(Tail(up), answer, given, b)
                 /\ IF frag' THEN receive'.data = SubSeq(answer, 1, b[0]) ELSE b[0] = 0
    PROVE  IInv'
<1>1. /\ kind' = kind /\ request' = request /\ more' = more /\ calls' = calls
      /\ offset' = offset /\ got' = got /\ answer' = answer /\ given' = given
      /\ dphase' = dphase /\ noise' = noise /\ down' = down
  BY DEF callVars, devVars
<1>2. up \in Seq(PacketType) /\ up # <<>> /\ up' = Tail(up)
  BY DEF IInv, TypeOK, Read
<1>3. Tail(up) \in Seq(PacketType) /\ Len(Tail(up)) = Len(up) - 1 /\ Len(up) \in Nat
  BY <1>2, TailFacts
<1>4. /\ Stream(Tail(up), dphase, kind, answer) /\ (Quiet(up) => Quiet(Tail(up)))
      /\ Head(up).command \in LastCommands => dphase = "finished" /\ Quiet(Tail(up))
  <2>1. Stream(up, dphase, kind, answer)
    BY DEF IInv, Wire
  <2> QED
    BY <1>2, <2>1, StreamRead
<1>5. TypeOK'
  <2>1. Len(up') <= MaxWire
    BY <1>2, <1>3, SocketPacketAssumption DEF IInv, TypeOK
  <2> QED
    BY <1>1, <1>2, <1>3, <2>1 DEF IInv, TypeOK
<1>6. Sizes'
  BY <1>1 DEF IInv, Sizes
<1>7. Sending'
  BY <1>1, <1>4 DEF IInv, Sending
<1>8. Heard'
  BY <1>1, <1>4 DEF IInv, Heard, Sent
<1>9. Wire'
  BY <1>1, <1>2, <1>4 DEF IInv, Wire
<1>10. Reading'
  BY <1>1, <1>2 DEF Reading, Read0
<1>11. AnswerIntact'
  BY <1>1, <1>4 DEF AnswerIntact
<1> QED
  BY <1>5, <1>6, <1>7, <1>8, <1>9, <1>10, <1>11 DEF IInv

(* What a packet at the head of the wire carries, while a call waits. *)
LEMMA HeadFacts ==
    ASSUME IInv, Read, pc \in {"ack", "receive"}
    PROVE  /\ Head(up) \in PacketType
           /\ Head(up).command \in NoiseCommands \cup LastCommands \cup {"FRAGMENTED"}
           /\ Head(up).command \in NoiseCommands => Head(up).data = <<>>
           /\ Head(up).command \in LastCommands => dphase = "finished"
           /\ Head(up).command \in {"FRAGMENTED", "DATA"} => kind = "db" /\ dphase # "listening"
           /\ Head(up).command \in LastCommands \ {"DATA"} => answer = <<>>
           /\ \E b \in [0..Len(up) -> 0..given] :
                 /\ Parts(up, answer, given, b) /\ Read0(b[0])
                 /\ b[0] \in 0..given /\ b[1] \in b[0]..given
                 /\ Head(up).data = SubSeq(answer, b[0] + 1, b[1])
                 /\ Head(up).command = "DATA" => b[1] = Len(answer)
                 /\ \E c \in [0..Len(Tail(up)) -> 0..given] :
                       Parts(Tail(up), answer, given, c) /\ c[0] = b[1]
<1>1. up \in Seq(PacketType) /\ up # <<>> /\ answer \in Seq(Bytes) /\ given \in 0..Len(answer)
  BY DEF IInv, TypeOK, Read, Sizes
<1>2. Stream(up, dphase, kind, answer) /\ (dphase = "listening" => Quiet(up))
  BY DEF IInv, Wire
<1>3. /\ Head(up).command \in NoiseCommands \cup LastCommands \cup {"FRAGMENTED"}
      /\ Head(up).command \in NoiseCommands => Head(up).data = <<>>
      /\ Head(up).command \in LastCommands => dphase = "finished"
      /\ Head(up).command \in {"FRAGMENTED", "DATA"} => kind = "db"
      /\ Head(up).command \in LastCommands \ {"DATA"} => answer = <<>>
  BY <1>1, <1>2, StreamRead
<1>4. Head(up) \in PacketType /\ Head(up) = up[1] /\ 1 \in 1..Len(up)
  BY <1>1, TailFacts
<1>5. Head(up).command \in {"FRAGMENTED", "DATA"} => dphase # "listening"
  BY <1>2, <1>4 DEF Quiet, NoiseCommands
<1>6. PICK b \in [0..Len(up) -> 0..given] : Parts(up, answer, given, b) /\ Read0(b[0])
  BY DEF IInv, Reading
<1>7. /\ b[0] \in 0..given /\ b[1] \in b[0]..given
      /\ Head(up).data = SubSeq(answer, b[0] + 1, b[1])
      /\ Head(up).command = "DATA" => b[1] = Len(answer)
      /\ \E c \in [0..Len(Tail(up)) -> 0..given] :
            Parts(Tail(up), answer, given, c) /\ c[0] = b[1]
  BY <1>1, <1>6, PartsRead
<1> QED
  BY <1>3, <1>4, <1>5, <1>6, <1>7

(* A packet without data at the head leaves the cuts where they are. *)
LEMMA NoiseFacts ==
    ASSUME IInv, Read, pc \in {"ack", "receive"}, Head(up).command \in NoiseCommands
    PROVE  /\ Head(up) \in PacketType
           /\ \E c \in [0..Len(Tail(up)) -> 0..given] :
                 Parts(Tail(up), answer, given, c) /\ Read0(c[0])
<1>1. /\ Head(up) \in PacketType /\ Head(up).data = <<>>
  BY HeadFacts
<1>2. PICK b \in [0..Len(up) -> 0..given] :
         /\ Read0(b[0]) /\ b[0] \in 0..given /\ b[1] \in b[0]..given
         /\ Head(up).data = SubSeq(answer, b[0] + 1, b[1])
         /\ \E c \in [0..Len(Tail(up)) -> 0..given] :
               Parts(Tail(up), answer, given, c) /\ c[0] = b[1]
  BY HeadFacts
<1>3. PICK c \in [0..Len(Tail(up)) -> 0..given] :
         Parts(Tail(up), answer, given, c) /\ c[0] = b[1]
  BY <1>2
<1>4. answer \in Seq(Bytes) /\ given \in 0..Len(answer)
  BY DEF IInv, TypeOK, Sizes
<1>5. b[0] \in 0..Len(answer) /\ b[1] \in b[0]..Len(answer)
  BY <1>2, <1>4
<1>6. Len(SubSeq(answer, b[0] + 1, b[1])) = b[1] - b[0]
  BY <1>4, <1>5, PartFacts
<1>7. b[1] - b[0] = 0
  BY <1>1, <1>2, <1>6
<1>8. b[1] = b[0]
  BY <1>5, <1>7
<1> QED
  BY <1>1, <1>2, <1>3, <1>8

LEMMA ReadBlankKeeps == ASSUME IInv, ReadBlank PROVE IInv'
<1>1. /\ pc = "receive" /\ Read /\ Head(up).command = "BLANK"
      /\ blankCount' = blankCount + 1
      /\ pc' = IF blankCount' = BlankLimit THEN "failed" ELSE "receive"
      /\ receive' = IF frag THEN receive ELSE Head(up)
      /\ UNCHANGED <<callVars, frag, offset, devVars, down>>
  BY DEF ReadBlank
<1>2. /\ Head(up) \in PacketType
      /\ \E c \in [0..Len(Tail(up)) -> 0..given] :
            Parts(Tail(up), answer, given, c) /\ Read0(c[0])
  BY <1>1, NoiseFacts DEF NoiseCommands
<1>3. /\ blankCount \in Nat /\ blankCount < BlankLimit /\ BlankLimit \in Nat
      /\ receive \in PacketType /\ frag \in BOOLEAN
      /\ dphase = "listening" => ~frag
  BY <1>1, SocketPacketAssumption DEF IInv, TypeOK, Sizes, Reading
<1>4. /\ blankCount' \in 0..BlankLimit /\ (pc' # "failed" => blankCount' < BlankLimit)
      /\ pc' \in {"receive", "idle", "failed"} /\ pc' # "idle"
  BY <1>1, <1>3
<1>5. receive' \in PacketType /\ frag' = frag /\ (frag => receive' = receive)
  BY <1>1, <1>2, <1>3
<1>6. \E c \in [0..Len(Tail(up)) -> 0..given] :
         /\ Parts(Tail(up), answer, given, c)
         /\ IF frag' THEN receive'.data = SubSeq(answer, 1, c[0]) ELSE c[0] = 0
  BY <1>2, <1>5 DEF Read0
<1> QED
  BY <1>1, <1>3, <1>4, <1>5, <1>6, ReadKeeps

LEMMA ReadSequenceKeeps == ASSUME IInv, ReadSequence PROVE IInv'
<1>1. /\ pc = "receive" /\ Read /\ Head(up).command = "SEQUENCE"
      /\ blankCount' = 0 /\ pc' = pc
      /\ receive' = IF frag THEN receive ELSE Head(up)
      /\ UNCHANGED <<callVars, frag, offset, devVars, down>>
  BY DEF ReadSequence
<1>2. /\ Head(up) \in PacketType
      /\ \E c \in [0..Len(Tail(up)) -> 0..given] :
            Parts(Tail(up), answer, given, c) /\ Read0(c[0])
  BY <1>1, NoiseFacts DEF NoiseCommands
<1>3. /\ 0 \in 0..BlankLimit /\ 0 < BlankLimit
      /\ receive \in PacketType /\ frag \in BOOLEAN
      /\ dphase = "listening" => ~frag
  BY SocketPacketAssumption DEF IInv, TypeOK, Reading
<1>4. receive' \in PacketType /\ frag' = frag /\ (frag => receive' = receive)
  BY <1>1, <1>2, <1>3
<1>5. \E c \in [0..Len(Tail(up)) -> 0..given] :
         /\ Parts(Tail(up), answer, given, c)
         /\ IF frag' THEN receive'.data = SubSeq(answer, 1, c[0]) ELSE c[0] = 0
  BY <1>2, <1>4 DEF Read0
<1> QED
  BY <1>1, <1>3, <1>4, <1>5, ReadKeeps

LEMMA ReadFragmentKeeps == ASSUME IInv, ReadFragment PROVE IInv'
<1>1. /\ pc = "receive" /\ Read /\ Head(up).command \in {"FRAGMENTED", "DATA"}
      /\ receive' = IF frag THEN AppendFragment(receive, Head(up)) ELSE Head(up)
      /\ frag' = (frag \/ Head(up).command = "FRAGMENTED")
      /\ pc' = IF Head(up).command = "DATA" THEN "idle" ELSE "receive"
      /\ blankCount' = 0
      /\ UNCHANGED <<callVars, offset, devVars, down>>
  BY DEF ReadFragment
<1>2. /\ Head(up) \in PacketType /\ dphase # "listening"
  BY <1>1, HeadFacts
<1>3. PICK b \in [0..Len(up) -> 0..given] :
         /\ Read0(b[0]) /\ b[0] \in 0..given /\ b[1] \in b[0]..given
         /\ Head(up).data = SubSeq(answer, b[0] + 1, b[1])
         /\ Head(up).command = "DATA" => b[1] = Len(answer)
         /\ \E c \in [0..Len(Tail(up)) -> 0..given] :
               Parts(Tail(up), answer, given, c) /\ c[0] = b[1]
  BY <1>1, HeadFacts
<1>4. PICK c \in [0..Len(Tail(up)) -> 0..given] :
         Parts(Tail(up), answer, given, c) /\ c[0] = b[1]
  BY <1>3
<1>5. answer \in Seq(Bytes) /\ given \in 0..Len(answer) /\ receive \in PacketType
      /\ frag \in BOOLEAN /\ 0 \in 0..BlankLimit /\ 0 < BlankLimit
  BY SocketPacketAssumption DEF IInv, TypeOK, Sizes
<1>6. b[0] \in 0..Len(answer) /\ b[1] \in b[0]..Len(answer)
  BY <1>3, <1>5
<1>7. receive'.data = SubSeq(answer, 1, b[1]) /\ receive' \in PacketType
  <2>1. CASE frag
    <3>1. receive.data = SubSeq(answer, 1, b[0])
      BY <1>3, <2>1 DEF Read0
    <3>2. receive' = [command |-> "DATA", data |-> receive.data \o Head(up).data]
      BY <1>1, <2>1 DEF AppendFragment, Packet
    <3>3. receive.data \o Head(up).data = SubSeq(answer, 1, b[1])
      BY <1>3, <1>5, <1>6, <3>1, PartsJoin
    <3>4. receive.data \in Seq(Bytes) /\ Head(up).data \in Seq(Bytes)
      BY <1>2, <1>5 DEF PacketType
    <3>5. receive.data \o Head(up).data \in Seq(Bytes)
      BY <3>4
    <3> QED
      BY <3>2, <3>3, <3>5 DEF PacketType
  <2>2. CASE ~frag
    <3>1. b[0] = 0
      BY <1>3, <2>2 DEF Read0
    <3>2. receive' = Head(up)
      BY <1>1, <2>2
    <3> QED
      BY <1>2, <1>3, <3>1, <3>2
  <2> QED
    BY <2>1, <2>2
<1>8. pc' = "idle" => Head(up).command \in LastCommands /\ receive'.data = answer
  <2>1. pc' = "idle" => Head(up).command = "DATA"
    BY <1>1
  <2>2. SubSeq(answer, 1, Len(answer)) = answer
    BY <1>5, WholeIs
  <2> QED
    BY <1>3, <1>7, <2>1, <2>2 DEF LastCommands
<1>9. pc' = "receive" => frag'
  BY <1>1
<1>10. pc' = "receive" =>
         \E x \in [0..Len(Tail(up)) -> 0..given] :
            /\ Parts(Tail(up), answer, given, x)
            /\ IF frag' THEN receive'.data = SubSeq(answer, 1, x[0]) ELSE x[0] = 0
  BY <1>4, <1>7, <1>9
<1>11. frag' \in BOOLEAN /\ pc' \in {"receive", "idle", "failed"}
  BY <1>1, <1>5
<1> QED
  BY <1>1, <1>2, <1>5, <1>7, <1>8, <1>10, <1>11, ReadKeeps

(* A packet without data ends the call, or an exception does. *)
LEMMA LastReadKeeps ==
    ASSUME IInv, pc = "receive", Read, UNCHANGED <<callVars, frag, offset, devVars, down>>,
           Head(up).command \in {"DONE", "REFUSED", "OTHER"},
           pc' \in {"idle", "failed"}, blankCount' = 0,
           receive' = Head(up) \/ (frag /\ receive' = receive)
    PROVE  IInv'
<1>1. /\ Head(up) \in PacketType /\ dphase = "finished" /\ answer = <<>>
  BY HeadFacts DEF LastCommands
<1>2. PICK b \in [0..Len(up) -> 0..given] :
         /\ Read0(b[0]) /\ b[0] \in 0..given /\ b[1] \in b[0]..given
         /\ Head(up).data = SubSeq(answer, b[0] + 1, b[1])
  BY HeadFacts
<1>3. given = 0 /\ b[0] = 0 /\ b[1] = 0
  BY <1>1, <1>2 DEF IInv, TypeOK, Sizes
<1>4. SubSeq(answer, 0 + 1, 0) = <<>> /\ SubSeq(answer, 1, 0) = <<>>
  BY <1>1
<1>5. Head(up).data = <<>> /\ (frag => receive.data = <<>>)
  BY <1>2, <1>3, <1>4 DEF Read0
<1>6. /\ receive' \in PacketType /\ receive'.data = answer /\ frag' = frag
      /\ frag \in BOOLEAN /\ 0 \in 0..BlankLimit /\ 0 < BlankLimit
  BY <1>1, <1>5, SocketPacketAssumption DEF IInv, TypeOK
<1> QED
  BY <1>1, <1>6, ReadKeeps DEF LastCommands

LEMMA ReadLastKeeps == ASSUME IInv, ReadDone \/ PacketData \/ PacketJVM PROVE IInv'
<1>1. CASE ReadDone
  BY <1>1, LastReadKeeps DEF ReadDone
<1>2. CASE PacketData \/ PacketJVM
  <2>1. /\ pc = "receive" /\ Read /\ kind # "db"
        /\ Head(up).command \notin {"BLANK", "SEQUENCE"}
    BY <1>2 DEF PacketData, PacketJVM
  <2>2. Head(up).command \in {"DONE", "REFUSED", "OTHER"}
    BY <2>1, HeadFacts DEF NoiseCommands, LastCommands
  <2> QED
    BY <1>2, <2>2, LastReadKeeps DEF PacketData, PacketJVM
<1> QED
  BY <1>1, <1>2

LEMMA BeginKeeps ==
    ASSUME IInv, NEW k \in {"db", "jl", "jvm"}, NEW n \in 1..MaxRequest, NEW m \in BOOLEAN,
           Begin(k, n, m)
    PROVE  IInv'
<1>1. /\ pc = "idle" /\ calls < MaxCalls /\ (m => k = "jl")
      /\ pc' = "send" /\ kind' = k /\ request' = Numbered(n) /\ offset' = 0 /\ more' = m
      /\ receive' = None /\ frag' = FALSE /\ blankCount' = 0 /\ calls' = calls + 1
      /\ got' = <<>> /\ answer' = <<>> /\ given' = 0 /\ dphase' = "listening" /\ noise' = 0
      /\ down' = down /\ up' = up
  BY DEF Begin
<1>2. /\ dphase = "finished" /\ down = None /\ Quiet(up) /\ Stream(up, dphase, kind, answer)
      /\ up \in Seq(PacketType)
  BY <1>1 DEF IInv, Sending, Heard, Wire, TypeOK
<1>3. n \in Nat /\ n <= MaxRequest
  BY SocketPacketAssumption
<1>4. Numbered(n) \in Seq(Bytes) /\ Len(Numbered(n)) = n
  BY <1>3, NumberedFacts
<1>5. None \in PacketType /\ <<>> \in Seq(Bytes) /\ Len(<<>>) = 0
  BY DEF None, PacketType
<1>6. TypeOK'
  <2>1. /\ 0 \in 0..MaxRequest /\ 0 \in 0..BlankLimit /\ calls + 1 \in 0..MaxCalls
        /\ 0 \in 0..MaxAnswer /\ 0 \in 0..MaxNoise
    BY <1>1, SocketPacketAssumption DEF IInv, TypeOK
  <2> QED
    BY <1>1, <1>4, <1>5, <2>1 DEF IInv, TypeOK
<1>7. Sizes'
  BY <1>1, <1>3, <1>4, <1>5, SocketPacketAssumption DEF Sizes
<1>8. Sending'
  BY <1>1, <1>2 DEF Sending, None
<1>9. Heard'
  <2>1. SubSeq(Numbered(n), 1, 0) = <<>> /\ <<>> \o <<>> = <<>>
    BY <1>4
  <2>2. got' \o down'.data = SubSeq(request', 1, 0) /\ 0 \in 0..Len(request')
    BY <1>1, <1>2, <1>3, <1>4, <2>1 DEF None
  <2>3. Sent' = 0 /\ down'.command # "DATA"
    BY <1>1, <1>2 DEF Sent, None
  <2> QED
    BY <1>1, <2>2, <2>3 DEF Heard
<1>10. Wire'
  <2>1. Stream(up, "listening", k, <<>>)
    BY <1>2 DEF Stream, Quiet, NoiseCommands, LastCommands
  <2> QED
    BY <1>1, <1>2, <2>1 DEF Wire
<1>11. Reading'
  <2>1. \A i \in 1..Len(up) : up[i].data = <<>> /\ up[i].command # "DATA"
    BY <1>2 DEF Stream, Quiet, NoiseCommands
  <2>2. \E c \in [0..Len(up) -> 0..0] : Parts(up, <<>>, 0, c) /\ c[0] = 0
    BY <1>2, <1>5, <2>1, PartsNone
  <2> QED
    BY <1>1, <2>2 DEF Reading, Read0
<1>12. AnswerIntact'
  BY <1>1 DEF AnswerIntact
<1> QED
  BY <1>6, <1>7, <1>8, <1>9, <1>10, <1>11, <1>12 DEF IInv

(* What MakeNextFragment puts into the fragment at offset off. *)
LEMMA FragmentFacts ==
    ASSUME NEW s \in Seq(Bytes), NEW off \in Nat, off < Len(s)
    PROVE  \E e \in off..Len(s) :
              /\ Fragment(s, off).data = SubSeq(s, off + 1, e)
              /\ \/ Fragment(s, off).next = 0 /\ e = Len(s)
                 \/ Fragment(s, off).next = e /\ e > 0 /\ e < Len(s)
<1>1. Room \in Nat /\ Room > 0 /\ Len(s) \in Nat
  BY SocketPacketAssumption
<1>2. CASE Len(s) - off > Room
  <2>1. /\ Fragment(s, off).data = SubSeq(s, off + 1, off + Room)
        /\ Fragment(s, off).next = off + Room
    BY <1>2 DEF Fragment
  <2>2. off + Room \in off..Len(s) /\ off + Room > 0 /\ off + Room < Len(s)
    BY <1>1, <1>2
  <2> QED
    BY <2>1, <2>2
<1>3. CASE ~(Len(s) - off > Room)
  <2>1. /\ Fragment(s, off).data = SubSeq(s, off + 1, off + (Len(s) - off))
        /\ Fragment(s, off).next = 0
    BY <1>3 DEF Fragment
  <2>2. off + (Len(s) - off) = Len(s) /\ Len(s) \in off..Len(s)
    BY <1>1
  <2> QED
    BY <2>1, <2>2
<1> QED
  BY <1>2, <1>3

(* The packet that SendNext puts on the wire carries the request on. *)
LEMMA SendNextFacts ==
    ASSUME IInv, SendNext
    PROVE  /\ down' \in PacketType /\ offset' \in 0..MaxRequest
           /\ offset' > 0 => kind = "db" /\ Room < Len(request) /\ offset' < Len(request)
           /\ more => offset' = 0
           /\ down'.command \in {"COMMAND", "FRAGMENTED", "DATA"}
           /\ down'.command = "DATA" <=> (offset' = 0 /\ ~more)
           /\ got \o down'.data =
                 SubSeq(request, 1, IF offset' > 0 \/ more THEN offset' ELSE Len(request))
<1>1. /\ pc = "send" /\ down = None /\ dphase = "listening"
      /\ request \in Seq(Bytes) /\ got \in Seq(Bytes) /\ Len(request) \in Nat
      /\ offset \in 0..MaxRequest /\ Len(request) <= MaxRequest
      /\ (more => kind = "jl" /\ offset = 0)
      /\ (offset > 0 => kind = "db" /\ Room < Len(request) /\ offset < Len(request))
  BY DEF SendNext, IInv, Sending, TypeOK, Sizes
<1>2. /\ MaxRequest \in Nat /\ offset \in Nat /\ Room \in Nat /\ more \in BOOLEAN
  BY <1>1, SocketPacketAssumption DEF IInv, TypeOK
<1>3. got = SubSeq(request, 1, offset)
  <2>1. PICK n \in 0..Len(request) : got \o down.data = SubSeq(request, 1, n) /\ n = Sent
    BY <1>1 DEF IInv, Heard
  <2>2. n = offset
    BY <1>1, <2>1 DEF Sent
  <2>3. got \o <<>> = got
    BY <1>1
  <2> QED
    BY <1>1, <2>1, <2>2, <2>3 DEF None
<1>4. CASE more /\ down' = Packet("COMMAND", <<>>) /\ UNCHANGED offset
  <2>1. /\ down' = [command |-> "COMMAND", data |-> <<>>] /\ offset' = 0 /\ <<>> \in Seq(Bytes)
        /\ got \o <<>> = got /\ offset = 0
    BY <1>1, <1>4 DEF Packet
  <2>2. down' \in PacketType /\ down'.command = "COMMAND" /\ down'.data = <<>>
    BY <2>1 DEF PacketType
  <2> QED
    BY <1>2, <1>3, <1>4, <2>1, <2>2
<1>5. CASE ~more /\ (kind # "db" \/ Len(request) <= Room)
            /\ down' = Packet("DATA", request) /\ UNCHANGED offset
  <2>1. /\ down' = [command |-> "DATA", data |-> request] /\ offset' = offset /\ offset = 0
    BY <1>1, <1>2, <1>5 DEF Packet
  <2>2. down' \in PacketType /\ down'.command = "DATA" /\ down'.data = request
    BY <1>1, <2>1 DEF PacketType
  <2>3. /\ SubSeq(request, 1, 0) = <<>> /\ <<>> \o request = request
        /\ SubSeq(request, 1, Len(request)) = request
    BY <1>1, WholeIs
  <2>4. got \o down'.data = SubSeq(request, 1, Len(request))
    BY <1>3, <2>1, <2>2, <2>3
  <2> QED
    BY <1>2, <1>5, <2>1, <2>2, <2>4
<1>6. CASE kind = "db" /\ Len(request) > Room /\
            LET f == Fragment(request, offset) IN
               /\ down' = Packet(IF f.next > 0 THEN "FRAGMENTED" ELSE "DATA", f.data)
               /\ offset' = f.next
  <2>1. PICK f : f = Fragment(request, offset)
    OBVIOUS
  <2>2. /\ down' = [command |-> IF f.next > 0 THEN "FRAGMENTED" ELSE "DATA", data |-> f.data]
        /\ offset' = f.next /\ ~more
    BY <1>1, <1>6, <2>1 DEF Packet
  <2>3. offset < Len(request)
    BY <1>1, <1>2, <1>6
  <2>4. PICK e \in offset..Len(request) :
           /\ f.data = SubSeq(request, offset + 1, e)
           /\ \/ f.next = 0 /\ e = Len(request)
              \/ f.next = e /\ e > 0 /\ e < Len(request)
    BY <1>1, <1>2, <2>1, <2>3, FragmentFacts
  <2>5. offset \in 0..Len(request)
    BY <1>1, <1>2, <2>3
  <2>6. got \o f.data = SubSeq(request, 1, e) /\ f.data \in Seq(Bytes)
    BY <1>1, <1>3, <2>4, <2>5, PartsJoin, PartFacts
  <2>7. /\ down' \in PacketType /\ down'.data = f.data
        /\ down'.command = IF f.next > 0 THEN "FRAGMENTED" ELSE "DATA"
    BY <2>2, <2>6 DEF PacketType
  <2>8. /\ offset' \in 0..MaxRequest /\ (offset' > 0 => offset' < Len(request))
        /\ e = IF offset' > 0 THEN offset' ELSE Len(request)
    BY <1>1, <1>2, <2>2, <2>4
  <2>9. down'.command = "DATA" <=> offset' = 0
    BY <2>2, <2>7, <2>8
  <2> QED
    BY <1>6, <2>2, <2>6, <2>7, <2>8, <2>9
<1> QED
  BY <1>4, <1>5, <1>6 DEF SendNext

LEMMA SendNextKeeps == ASSUME IInv, SendNext PROVE IInv'
<1>1. /\ pc = "send" /\ down = None
      /\ pc' = IF kind = "jvm" THEN "receive" ELSE "ack"
      /\ UNCHANGED <<callVars, loopVars, devVars, up>>
  BY DEF SendNext
<1>2. /\ kind' = kind /\ request' = request /\ more' = more /\ calls' = calls
      /\ receive' = receive /\ frag' = frag /\ blankCount' = blankCount
      /\ got' = got /\ answer' = answer /\ given' = given /\ dphase' = dphase
      /\ noise' = noise /\ up' = up
  BY <1>1 DEF callVars, loopVars, devVars
<1>3. /\ down' \in PacketType /\ offset' \in 0..MaxRequest
      /\ offset' > 0 => kind = "db" /\ Room < Len(request) /\ offset' < Len(request)
      /\ more => offset' = 0
      /\ down'.command \in {"COMMAND", "FRAGMENTED", "DATA"}
      /\ down'.command = "DATA" <=> (offset' = 0 /\ ~more)
      /\ got \o down'.data =
            SubSeq(request, 1, IF offset' > 0 \/ more THEN offset' ELSE Len(request))
  BY SendNextFacts
<1>4. /\ dphase = "listening" /\ request \in Seq(Bytes) /\ Len(request) \in Nat
      /\ more \in BOOLEAN /\ (more => kind = "jl") /\ ~frag
      /\ MaxRequest \in Nat /\ offset' \in Nat
  BY <1>1, <1>3, SocketPacketAssumption DEF IInv, Sending, TypeOK, Reading
<1>5. TypeOK'
  BY <1>1, <1>2, <1>3 DEF IInv, TypeOK
<1>6. Sizes'
  BY <1>1, <1>2 DEF IInv, Sizes
<1>7. Sending'
  BY <1>1, <1>2, <1>3, <1>4 DEF Sending
<1>8. Heard'
  <2>1. PICK n : n = IF offset' > 0 \/ more THEN offset' ELSE Len(request)
    OBVIOUS
  <2>2. n \in 0..Len(request) /\ (down'.command = "DATA" => n = Len(request))
    BY <1>3, <1>4, <2>1
  <2>3. n = Sent'
    BY <1>1, <1>2, <1>3, <1>4, <2>1 DEF Sent
  <2>4. got' \o down'.data = SubSeq(request', 1, n)
    BY <1>2, <1>3, <2>1
  <2> QED
    BY <1>2, <1>4, <2>2, <2>3, <2>4 DEF IInv, Heard
<1>9. Wire'
  BY <1>1, <1>2 DEF IInv, Wire
<1>10. Reading'
  BY <1>1, <1>2 DEF IInv, Reading, Read0
<1>11. AnswerIntact'
  BY <1>1 DEF AnswerIntact
<1> QED
  BY <1>5, <1>6, <1>7, <1>8, <1>9, <1>10, <1>11 DEF IInv

LEMMA SyncSendAckKeeps == ASSUME IInv, SyncSendAck PROVE IInv'
<1>1. /\ pc = "ack" /\ Read /\ pc' \in {"failed", "send", "receive"}
      /\ UNCHANGED <<kind, request, offset, calls, loopVars, devVars, down>>
      /\ pc' # "failed" => Head(up).command = "SEQUENCE"
      /\ pc' = "failed" => more' = more
      /\ pc' = "send" => (offset > 0 \/ more) /\ more' = FALSE
      /\ pc' = "receive" => offset = 0 /\ ~more /\ more' = more
  BY DEF SyncSendAck
<1>2. /\ kind' = kind /\ request' = request /\ calls' = calls /\ offset' = offset
      /\ receive' = receive /\ frag' = frag /\ blankCount' = blankCount
      /\ got' = got /\ answer' = answer /\ given' = given /\ dphase' = dphase
      /\ noise' = noise /\ down' = down
  BY <1>1 DEF loopVars, devVars
<1>3. up \in Seq(PacketType) /\ up # <<>> /\ up' = Tail(up) /\ more \in BOOLEAN
      /\ offset \in Nat
  BY <1>1, SocketPacketAssumption DEF IInv, TypeOK, Read
<1>4. Tail(up) \in Seq(PacketType) /\ Len(Tail(up)) = Len(up) - 1 /\ Len(up) \in Nat
  BY <1>3, TailFacts
<1>5. Stream(Tail(up), dphase, kind, answer) /\ (Quiet(up) => Quiet(Tail(up)))
  <2>1. Stream(up, dphase, kind, answer)
    BY DEF IInv, Wire
  <2> QED
    BY <1>3, <2>1, StreamRead
<1>6. TypeOK'
  <2>1. Len(up') <= MaxWire
    BY <1>3, <1>4, SocketPacketAssumption DEF IInv, TypeOK
  <2>2. more' \in BOOLEAN
    BY <1>1, <1>3
  <2> QED
    BY <1>1, <1>2, <1>3, <1>4, <2>1, <2>2 DEF IInv, TypeOK
<1>7. Sizes'
  BY <1>1, <1>2 DEF IInv, Sizes
<1>8. Sending'
  BY <1>1, <1>2 DEF IInv, Sending
<1>9. Heard'
  <2>1. pc' # "failed" => Sent' = Sent
    BY <1>1, <1>2, <1>3 DEF IInv, Sending, Sent
  <2> QED
    BY <1>1, <1>2, <2>1 DEF IInv, Heard
<1>10. Wire'
  BY <1>1, <1>2, <1>3, <1>5 DEF IInv, Wire
<1>11. Reading'
  <2>1. pc' # "failed" =>
           \E c \in [0..Len(Tail(up)) -> 0..given] :
              Parts(Tail(up), answer, given, c) /\ Read0(c[0])
    BY <1>1, NoiseFacts DEF NoiseCommands
  <2> QED
    BY <1>1, <1>2, <1>3, <2>1 DEF IInv, Reading, Read0
<1>12. AnswerIntact'
  BY <1>1 DEF AnswerIntact
<1> QED
  BY <1>6, <1>7, <1>8, <1>9, <1>10, <1>11, <1>12 DEF IInv

LEMMA TimeoutKeeps == ASSUME IInv, Timeout PROVE IInv'
<1>1. /\ pc' = "failed" /\ pc # "idle" /\ UNCHANGED <<callVars, loopVars, offset, devVars, down, up>>
  BY DEF Timeout
<1>2. /\ kind' = kind /\ request' = request /\ more' = more /\ calls' = calls
      /\ receive' = receive /\ frag' = frag /\ blankCount' = blankCount
      /\ offset' = offset /\ down' = down
      /\ got' = got /\ answer' = answer /\ given' = given /\ dphase' = dphase
      /\ noise' = noise /\ up' = up
  BY <1>1 DEF callVars, loopVars, devVars
<1>3. TypeOK' /\ Sizes' /\ Sending'
  BY <1>1, <1>2 DEF IInv, TypeOK, Sizes, Sending
<1>4. Heard'
  BY <1>1, <1>2 DEF IInv, Heard
<1>5. Wire' /\ Reading' /\ AnswerIntact'
  BY <1>1, <1>2 DEF IInv, Wire, Reading, AnswerIntact
<1> QED
  BY <1>3, <1>4, <1>5 DEF IInv

(* A step of the device that adds packet p, while the caller stands still. *)
LEMMA ArriveKeeps ==
    ASSUME IInv, NEW p \in PacketType, Arrive(p), pc # "idle",
           UNCHANGED <<pc, callVars, loopVars, offset>>,
           down' \in PacketType, got' \in Seq(Bytes), answer' \in Seq(Bytes),
           Len(answer') <= MaxAnswer, given' \in 0..Len(answer'),
           dphase' \in {"listening", "answering", "finished"}, noise' \in 0..MaxNoise,
           Sending', Heard',
           Stream(Append(up, p), dphase', kind, answer'),
           dphase' = "listening" => dphase = "listening" /\ Quiet(Append(up, p)),
           pc # "failed" =>
              \E c \in [0..Len(Append(up, p)) -> 0..given'] :
                 /\ Parts(Append(up, p), answer', given', c)
                 /\ IF frag THEN receive.data = SubSeq(answer', 1, c[0]) ELSE c[0] = 0
    PROVE  IInv'
<1>1. /\ pc' = pc /\ kind' = kind /\ request' = request /\ more' = more /\ calls' = calls
      /\ receive' = receive /\ frag' = frag /\ blankCount' = blankCount /\ offset' = offset
      /\ up' = Append(up, p) /\ Len(up) < MaxWire
  BY DEF callVars, loopVars, Arrive
<1>2. up \in Seq(PacketType)
  BY DEF IInv, TypeOK
<1>3. Append(up, p) \in Seq(PacketType) /\ Len(Append(up, p)) = Len(up) + 1 /\ Len(up) \in Nat
  BY <1>2, AppendFacts
<1>4. TypeOK'
  <2>1. Len(up') <= MaxWire /\ given' \in 0..MaxAnswer
    BY <1>1, <1>3, SocketPacketAssumption
  <2> QED
    BY <1>1, <1>3, <2>1 DEF IInv, TypeOK
<1>5. Sizes'
  BY <1>1 DEF IInv, Sizes
<1>6. Wire'
  BY <1>1 DEF Wire
<1>7. Reading'
  BY <1>1 DEF IInv, Reading, Read0
<1>8. AnswerIntact'
  BY <1>1 DEF AnswerIntact
<1> QED
  BY <1>4, <1>5, <1>6, <1>7, <1>8 DEF IInv

(* Whether the device may still answer: no packet that ends an answer waits. *)
LEMMA NotFinished ==
    ASSUME IInv, dphase # "finished"
    PROVE  /\ pc # "idle"
           /\ \A i \in 1..Len(up) : up[i].command \notin LastCommands
BY DEF IInv, Sending, Wire, Stream

LEMMA DeviceReceivesKeeps == ASSUME IInv, DeviceReceives PROVE IInv'
<1>1. /\ down # None /\ Arrive(Packet("SEQUENCE", <<>>)) /\ down' = None
      /\ got' = got \o down.data
      /\ \/ down.command # "DATA" /\ dphase' = dphase /\ answer' = answer
         \/ /\ down.command = "DATA" /\ dphase' = "answering"
            /\ \E n \in 0..MaxAnswer : answer' = Numbered(n)
      /\ UNCHANGED <<pc, callVars, loopVars, offset, given, noise>>
  BY DEF DeviceReceives
<1>2. PICK p : p = Packet("SEQUENCE", <<>>)
  OBVIOUS
<1>3. p \in PacketType /\ p.command = "SEQUENCE" /\ p.data = <<>>
  BY <1>2 DEF Packet, PacketType
<1>4. /\ dphase = "listening" /\ given = 0 /\ ~frag /\ pc # "idle"
  BY <1>1 DEF IInv, Heard, Reading, Sending
<1>5. /\ up \in Seq(PacketType) /\ down \in PacketType /\ got \in Seq(Bytes)
      /\ answer \in Seq(Bytes) /\ Len(answer) <= MaxAnswer
      /\ request \in Seq(Bytes) /\ Len(request) \in Nat /\ noise \in 0..MaxNoise
      /\ Stream(up, dphase, kind, answer) /\ Quiet(up)
  BY <1>4 DEF IInv, TypeOK, Sizes, Wire
<1>6. /\ answer' \in Seq(Bytes) /\ Len(answer') <= MaxAnswer /\ given' = 0
      /\ 0 \in 0..Len(answer')
  <2>1. \A n \in 0..MaxAnswer : n \in Nat /\ n <= MaxAnswer
    BY SocketPacketAssumption
  <2>2. \A n \in 0..MaxAnswer : Numbered(n) \in Seq(Bytes) /\ Len(Numbered(n)) = n
    BY <2>1, NumberedFacts
  <2>3. answer' \in Seq(Bytes) /\ Len(answer') <= MaxAnswer
    BY <1>1, <1>5, <2>1, <2>2
  <2> QED
    BY <1>1, <1>4, <2>3
<1>7. got' \in Seq(Bytes) /\ None \in PacketType /\ <<>> \o <<>> = <<>>
  <2>1. down.data \in Seq(Bytes)
    BY <1>5 DEF PacketType
  <2> QED
    BY <1>1, <1>5, <2>1 DEF PacketType, None
<1>8. /\ pc' = pc /\ kind' = kind /\ request' = request /\ more' = more /\ offset' = offset
      /\ noise' = noise
  BY <1>1 DEF callVars
<1>9. Sending'
  BY <1>1, <1>4, <1>8 DEF IInv, Sending, None
<1>10. Heard'
  <2>1. PICK n \in 0..Len(request) :
           /\ got \o down.data = SubSeq(request, 1, n)
           /\ down.command = "DATA" => n = Len(request)
           /\ pc # "failed" => n = Sent
    BY <1>4 DEF IInv, Heard
  <2>2. Sent' = Sent
    BY <1>8 DEF Sent
  <2>3. down'.data = <<>> /\ down'.command # "DATA" /\ got' \o <<>> = got'
    BY <1>1, <1>7 DEF None
  <2>4. CASE down.command # "DATA"
    BY <1>1, <1>4, <1>6, <1>8, <2>1, <2>2, <2>3, <2>4 DEF Heard
  <2>5. CASE down.command = "DATA"
    <3>1. got' = request
      BY <1>1, <1>5, <2>1, <2>5, WholeIs
    <3> QED
      BY <1>1, <1>8, <2>5, <3>1 DEF Heard
  <2> QED
    BY <2>4, <2>5
<1>11. \A i \in 1..Len(up) : up[i].data = <<>> /\ up[i].command \notin LastCommands
                             /\ up[i].command \in NoiseCommands
  BY <1>5 DEF Stream, Quiet, NoiseCommands, LastCommands
<1>12. Stream(Append(up, p), dphase', kind, answer') /\ Quiet(Append(up, p))
  BY <1>3, <1>5, <1>11, StreamArrives DEF NoiseCommands, LastCommands
<1>13. \E c \in [0..Len(Append(up, p)) -> 0..0] :
          Parts(Append(up, p), answer', 0, c) /\ c[0] = 0
  <2>1. PICK v : v = Append(up, p)
    OBVIOUS
  <2>2. /\ v \in Seq(PacketType) /\ Len(v) = Len(up) + 1 /\ Len(up) \in Nat
        /\ v[Len(up) + 1] = p /\ \A i \in 1..Len(up) : v[i] = up[i]
    BY <1>3, <1>5, <2>1, AppendFacts
  <2>3. \A i \in 1..Len(v) : v[i].data = <<>> /\ v[i].command # "DATA"
    <3> TAKE i \in 1..Len(v)
    <3>1. i \in 1..Len(up) \/ i = Len(up) + 1
      BY <2>2
    <3> QED
      BY <1>3, <1>11, <2>2, <3>1 DEF LastCommands
  <2>4. \E c \in [0..Len(v) -> 0..0] : Parts(v, answer', 0, c) /\ c[0] = 0
    BY <1>6, <2>2, <2>3, PartsNone
  <2> QED
    BY <2>1, <2>4
<1>14. dphase' \in {"listening", "answering", "finished"}
  BY <1>1, <1>4
<1> QED
  BY <1>1, <1>2, <1>3, <1>4, <1>5, <1>6, <1>7, <1>8, <1>9, <1>10, <1>12, <1>13, <1>14,
     ArriveKeeps

(* Steps that leave the request alone. *)
LEMMA RequestKept ==
    ASSUME IInv, UNCHANGED <<pc, callVars, offset, down, got>>,
           dphase # "listening" => dphase' # "listening",
           dphase = "listening" => dphase' = dphase /\ given' = given, pc # "idle"
    PROVE  Sending' /\ Heard'
<1>1. /\ pc' = pc /\ kind' = kind /\ request' = request /\ more' = more /\ offset' = offset
      /\ down' = down /\ got' = got
  BY DEF callVars
<1>2. Sending'
  BY <1>1 DEF IInv, Sending
<1>3. Heard'
  <2>1. Sent' = Sent
    BY <1>1 DEF Sent
  <2> QED
    BY <1>1, <2>1 DEF IInv, Heard
<1> QED
  BY <1>2, <1>3

LEMMA DeviceAnswersKeeps == ASSUME IInv, DeviceAnswers PROVE IInv'
<1>1. PICK n \in 0..(Len(answer) - given), last \in BOOLEAN :
         /\ last = (given + n = Len(answer))
         /\ Arrive(Packet(IF last THEN "DATA" ELSE "FRAGMENTED",
                          SubSeq(answer, given + 1, given + n)))
         /\ given' = given + n
         /\ dphase' = IF last THEN "finished" ELSE dphase
  BY DEF DeviceAnswers
<1>2. /\ dphase = "answering" /\ kind = "db"
      /\ UNCHANGED <<pc, callVars, loopVars, offset, down, got, answer, noise>>
  BY DEF DeviceAnswers
<1>3. /\ answer \in Seq(Bytes) /\ Len(answer) \in Nat /\ given \in 0..Len(answer)
      /\ up \in Seq(PacketType) /\ Len(answer) <= MaxAnswer
      /\ down \in PacketType /\ got \in Seq(Bytes) /\ noise \in 0..MaxNoise
  BY DEF IInv, TypeOK, Sizes
<1>4. given + n \in given..Len(answer) /\ given + n \in 0..Len(answer)
  BY <1>3
<1>5. PICK p : p = Packet(IF last THEN "DATA" ELSE "FRAGMENTED",
                          SubSeq(answer, given + 1, given + n))
  OBVIOUS
<1>6. SubSeq(answer, given + 1, given + n) \in Seq(Bytes)
  BY <1>3, <1>4, PartFacts
<1>7. /\ p \in PacketType /\ p.data = SubSeq(answer, given + 1, given + n)
      /\ p.command = IF last THEN "DATA" ELSE "FRAGMENTED"
  BY <1>5, <1>6 DEF Packet, PacketType
<1>8. /\ pc # "idle" /\ Stream(up, dphase, kind, answer)
      /\ \A i \in 1..Len(up) : up[i].command \notin LastCommands
  BY <1>2, NotFinished DEF IInv, Wire
<1>9. Stream(Append(up, p), dphase', kind, answer)
  <2>1. /\ p.command \in NoiseCommands \cup LastCommands \cup {"FRAGMENTED"}
        /\ p.command \notin NoiseCommands /\ p.command \notin LastCommands \ {"DATA"}
        /\ p.command \in LastCommands => dphase' = "finished"
    BY <1>1, <1>7 DEF NoiseCommands, LastCommands
  <2> QED
    BY <1>2, <1>3, <1>7, <1>8, <2>1, StreamArrives
<1>10. pc # "failed" =>
         \E c \in [0..Len(Append(up, p)) -> 0..(given + n)] :
            /\ Parts(Append(up, p), answer, given + n, c)
            /\ IF frag THEN receive.data = SubSeq(answer, 1, c[0]) ELSE c[0] = 0
  <2> SUFFICES ASSUME pc # "failed"
               PROVE  \E c \in [0..Len(Append(up, p)) -> 0..(given + n)] :
                         /\ Parts(Append(up, p), answer, given + n, c)
                         /\ IF frag THEN receive.data = SubSeq(answer, 1, c[0]) ELSE c[0] = 0
    OBVIOUS
  <2>1. PICK b \in [0..Len(up) -> 0..given] : Parts(up, answer, given, b) /\ Read0(b[0])
    BY <1>8 DEF IInv, Reading, TypeOK
  <2>2. p.command = "DATA" => given + n = Len(answer)
    BY <1>1, <1>7
  <2>3. PICK h : h = given + n
    OBVIOUS
  <2>4. h \in given..Len(answer) /\ Carries(p, answer, given, h)
    BY <1>4, <1>7, <2>2, <2>3 DEF Carries
  <2>5. \E c \in [0..Len(Append(up, p)) -> 0..h] :
           Parts(Append(up, p), answer, h, c) /\ c[0] = b[0]
    BY <1>3, <1>7, <2>1, <2>4, PartsArrive
  <2> QED
    BY <2>1, <2>3, <2>5 DEF Read0
<1>11. Sending' /\ Heard'
  BY <1>1, <1>2, <1>8, RequestKept
<1>12. dphase' \in {"answering", "finished"}
  BY <1>1, <1>2
<1>13. answer' = answer /\ given' = given + n /\ Arrive(p) /\ down' = down /\ got' = got
       /\ noise' = noise
  BY <1>1, <1>2, <1>5
<1> QED
  BY <1>2, <1>3, <1>4, <1>7, <1>8, <1>9, <1>10, <1>11, <1>12, <1>13, ArriveKeeps

LEMMA DeviceRepliesKeeps == ASSUME IInv, DeviceReplies PROVE IInv'
<1>1. PICK r \in {"DONE", "REFUSED", "OTHER"} : Arrive(Packet(r, <<>>))
  BY DEF DeviceReplies
<1>2. /\ dphase = "answering" /\ given = 0 /\ dphase' = "finished" /\ answer' = <<>>
      /\ UNCHANGED <<pc, callVars, loopVars, offset, down, got, given, noise>>
  BY DEF DeviceReplies
<1>3. PICK p : p = Packet(r, <<>>)
  OBVIOUS
<1>4. p \in PacketType /\ p.command = r /\ p.data = <<>>
  BY <1>3 DEF Packet, PacketType
<1>5. /\ answer \in Seq(Bytes) /\ up \in Seq(PacketType) /\ <<>> \in Seq(Bytes)
      /\ down \in PacketType /\ got \in Seq(Bytes) /\ noise \in 0..MaxNoise
      /\ Len(<<>>) = 0 /\ 0 <= MaxAnswer /\ 0 \in 0..0
  BY SocketPacketAssumption DEF IInv, TypeOK
<1>6. /\ pc # "idle" /\ Stream(up, dphase, kind, answer)
      /\ \A i \in 1..Len(up) : up[i].command \notin LastCommands
  BY <1>2, NotFinished DEF IInv, Wire
<1>7. Stream(Append(up, p), "finished", kind, <<>>)
  <2>1. /\ p.command \in NoiseCommands \cup LastCommands \cup {"FRAGMENTED"}
        /\ p.command \notin {"FRAGMENTED", "DATA"}
    BY <1>4 DEF NoiseCommands, LastCommands
  <2> QED
    BY <1>4, <1>5, <1>6, <2>1, StreamArrives
<1>8. pc # "failed" =>
         \E c \in [0..Len(Append(up, p)) -> 0..0] :
            /\ Parts(Append(up, p), <<>>, 0, c)
            /\ IF frag THEN receive.data = SubSeq(<<>>, 1, c[0]) ELSE c[0] = 0
  <2> SUFFICES ASSUME pc # "failed"
               PROVE  \E c \in [0..Len(Append(up, p)) -> 0..0] :
                         /\ Parts(Append(up, p), <<>>, 0, c)
                         /\ IF frag THEN receive.data = SubSeq(<<>>, 1, c[0]) ELSE c[0] = 0
    OBVIOUS
  <2>1. PICK b \in [0..Len(up) -> 0..0] : Parts(up, answer, 0, b) /\ Read0(b[0])
    BY <1>2, <1>6 DEF IInv, Reading, TypeOK
  <2>2. b[0] = 0 /\ \A i \in 1..Len(up) : up[i].data = <<>>
    BY <1>5, <2>1, NoPartsNoData
  <2>3. frag => receive.data = SubSeq(<<>>, 1, 0)
    <3>1. SubSeq(answer, 1, 0) = <<>> /\ SubSeq(<<>>, 1, 0) = <<>>
      BY <1>5
    <3> QED
      BY <2>1, <2>2, <3>1 DEF Read0
  <2>4. PICK v : v = Append(up, p)
    OBVIOUS
  <2>5. /\ v \in Seq(PacketType) /\ Len(v) = Len(up) + 1 /\ Len(up) \in Nat
        /\ v[Len(up) + 1] = p /\ \A i \in 1..Len(up) : v[i] = up[i]
    BY <1>4, <1>5, <2>4, AppendFacts
  <2>6. \A i \in 1..Len(v) : v[i].data = <<>>
    <3> TAKE i \in 1..Len(v)
    <3>1. i \in 1..Len(up) \/ i = Len(up) + 1
      BY <2>5
    <3> QED
      BY <1>4, <2>2, <2>5, <3>1
  <2>7. \E c \in [0..Len(v) -> 0..0] : Parts(v, <<>>, 0, c) /\ c[0] = 0
    BY <1>5, <2>5, <2>6, PartsNone
  <2> QED
    BY <2>3, <2>4, <2>7
<1>9. Sending' /\ Heard'
  BY <1>2, <1>6, RequestKept
<1>10. Arrive(p) /\ down' = down /\ got' = got /\ given' = 0 /\ noise' = noise
  BY <1>1, <1>2, <1>3
<1> QED
  BY <1>2, <1>4, <1>5, <1>6, <1>7, <1>8, <1>9, <1>10, ArriveKeeps

LEMMA DeviceNoiseKeeps == ASSUME IInv, DeviceSequence \/ DeviceBlank PROVE IInv'
<1>1. PICK r \in {"SEQUENCE", "BLANK"} : Arrive(Packet(r, <<>>))
  BY DEF DeviceSequence, DeviceBlank
<1>2. /\ pc = "receive" /\ noise' \in 0..MaxNoise
      /\ UNCHANGED <<pc, callVars, loopVars, offset, down, got, answer, given, dphase>>
  BY SocketPacketAssumption
     DEF DeviceSequence, DeviceBlank, devVars, IInv, TypeOK
<1>3. PICK p : p = Packet(r, <<>>)
  OBVIOUS
<1>4. p \in PacketType /\ p.command \in NoiseCommands /\ p.data = <<>>
  BY <1>3 DEF Packet, PacketType, NoiseCommands
<1>5. /\ answer \in Seq(Bytes) /\ up \in Seq(PacketType) /\ Len(answer) <= MaxAnswer
      /\ down \in PacketType /\ got \in Seq(Bytes) /\ given \in 0..Len(answer)
      /\ Len(answer) \in Nat /\ dphase \in {"listening", "answering", "finished"}
  BY DEF IInv, TypeOK, Sizes
<1>6. /\ Stream(up, dphase, kind, answer) /\ (dphase = "listening" => Quiet(up))
  BY DEF IInv, Wire
<1>7. /\ Stream(Append(up, p), dphase, kind, answer)
      /\ Quiet(up) => Quiet(Append(up, p))
  <2>1. p.command \notin LastCommands /\ p.command \notin {"FRAGMENTED", "DATA"}
    BY <1>4 DEF NoiseCommands, LastCommands
  <2> QED
    BY <1>4, <1>5, <1>6, <2>1, StreamArrives
<1>8. \E c \in [0..Len(Append(up, p)) -> 0..given] :
         /\ Parts(Append(up, p), answer, given, c)
         /\ IF frag THEN receive.data = SubSeq(answer, 1, c[0]) ELSE c[0] = 0
  <2>1. PICK b \in [0..Len(up) -> 0..given] : Parts(up, answer, given, b) /\ Read0(b[0])
    BY <1>2 DEF IInv, Reading
  <2>2. p.data = SubSeq(answer, given + 1, given) /\ given \in given..Len(answer)
    BY <1>4, <1>5
  <2>3. Carries(p, answer, given, given)
    BY <1>4, <2>2 DEF NoiseCommands, Carries
  <2>4. /\ p \in PacketType /\ up \in Seq(PacketType) /\ answer \in Seq(Bytes)
        /\ given \in 0..Len(answer) /\ given \in given..Len(answer)
        /\ Parts(up, answer, given, b)
    BY <1>4, <1>5, <2>1, <2>2
  <2>5. \E c \in [0..Len(Append(up, p)) -> 0..given] :
           Parts(Append(up, p), answer, given, c) /\ c[0] = b[0]
    BY <2>3, <2>4, PartsArrive
  <2> QED
    BY <2>1, <2>5 DEF Read0
<1>9. Sending' /\ Heard'
  BY <1>2, RequestKept
<1>10. Arrive(p)
  BY <1>1, <1>3
<1> QED
  BY <1>2, <1>4, <1>5, <1>6, <1>7, <1>8, <1>9, <1>10, ArriveKeeps

LEMMA StepKeeps == IInv /\ [Next]_vars => IInv'
<1> SUFFICES ASSUME IInv, [Next]_vars PROVE IInv'
  OBVIOUS
<1>1. ASSUME NEW k \in {"db", "jl", "jvm"}, NEW n \in 1..MaxRequest, NEW m \in BOOLEAN,
             Begin(k, n, m)
      PROVE  IInv'
  BY <1>1, BeginKeeps
<1>2. CASE Caller
  BY <1>2, SendNextKeeps, SyncSendAckKeeps, ReadBlankKeeps, ReadSequenceKeeps,
     ReadFragmentKeeps, ReadLastKeeps, TimeoutKeeps DEF Caller
<1>3. CASE Device
  BY <1>3, DeviceReceivesKeeps, DeviceAnswersKeeps, DeviceRepliesKeeps DEF Device
<1>4. CASE DeviceSequence \/ DeviceBlank
  BY <1>4, DeviceNoiseKeeps
<1>5. CASE UNCHANGED vars
  BY <1>5 DEF vars, IInv, TypeOK, Sizes, Sending, Heard, Sent, Wire, Reading, Read0,
              AnswerIntact
<1> QED
  BY <1>1, <1>2, <1>3, <1>4, <1>5 DEF Next

LEMMA InvariantHolds == Spec => []IInv
BY InitHolds, StepKeeps, PTL DEF Spec

LEMMA InvariantGives == IInv => RequestIntact
<1> SUFFICES ASSUME IInv, dphase = "listening" PROVE Len(got) <= Len(request)
  BY DEF IInv, Heard, RequestIntact
<1>1. /\ request \in Seq(Bytes) /\ got \in Seq(Bytes) /\ down.data \in Seq(Bytes)
  BY DEF IInv, TypeOK, PacketType
<1>2. PICK n \in 0..Len(request) : got \o down.data = SubSeq(request, 1, n)
  BY DEF IInv, Heard
<1>3. Len(got \o down.data) = Len(got) + Len(down.data) /\ Len(got) \in Nat
      /\ Len(down.data) \in Nat /\ Len(request) \in Nat
  BY <1>1
<1>4. Len(SubSeq(request, 1, n)) = n
  BY <1>1
<1> QED
  BY <1>2, <1>3, <1>4

-----------------------------------------------------------------------------
(* The caller, the device and the packets between them keep their types: no
   offset, count of empty reads or part of an answer leaves its bounds. *)
THEOREM TypeCorrect == Spec => []TypeOK
BY InvariantHolds, PTL DEF IInv

(* For every packet size and every size of request, what the device puts
   together from the packets of DBFragSend is the request (socket.cc:704),
   even when an acknowledgement left by an earlier call runs ahead. *)
THEOREM RequestsArriveWhole == Spec => []RequestIntact
BY InvariantHolds, InvariantGives, PTL

(* A call that returns hands over the whole answer, however the device cuts
   it and whatever sequence packets and empty reads lie between the parts or
   are left from an earlier call (socket.cc:761). *)
THEOREM AnswersArriveWhole == Spec => []AnswerIntact
BY InvariantHolds, PTL DEF IInv
=============================================================================
