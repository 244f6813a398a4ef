-------------------------- MODULE SocketZeroProofs --------------------------
(***************************************************************************)
(* The theorems about opening and closing sockets, for any modes, password *)
(* tries, sequence range and number of calls, faults and packets: the      *)
(* types, and that a socket is registered with the router exactly while    *)
(* one live Socket object answers for it.                                  *)
(***************************************************************************)
EXTENDS SocketZero, TLAPS

-----------------------------------------------------------------------------
(* The inductive invariant. *)

(* Only a mode's own number is selected. *)
GoodCommand == {c \in Command : c.command = "SELECT_MODE" => c.socket # None}
GoodReply == {r \in Reply : r.command = "MODE_SELECTED" => r.socket # None}
Wire ==
    /\ cmds \in Seq(GoodCommand) /\ inbox \in Seq(GoodReply)
    /\ pushback \in GoodReply \cup {None} /\ pkt \in GoodReply \cup {None}

OpenPlaces == {"open", "open2", "challenge", "hash", "hash2", "opened", "sequence", "late"}
ClosePlaces == {"close", "close2", "reset"}

(* What the call in progress has in its hands: no Socket before Open makes one;
   while it opens, one that is registered if there is a router, for a mode that
   has none yet; while it closes, one that is registered no more. *)
Hands ==
    /\ pc # "idle" => cur \in Modes
    /\ pc \in {"idle", "select", "mode", "opening", "crashed"} => obj = None /\ after = None
    /\ pc \in {"select", "mode", "opening"} => sock[cur] = None
    /\ pc \in {"opening"} \cup OpenPlaces => modeSocket[cur] # None
    /\ pc \in OpenPlaces => /\ obj # None /\ after = None /\ sock[cur] = None
                            /\ obj.registered = HasQueue /\ obj.socket # None
    /\ pc \in {"closing"} \cup ClosePlaces =>
          obj # None /\ after # None /\ (after = "fail" <=> sock[cur] = None)
    /\ pc \in ClosePlaces => ~obj.registered

(* Sockets of modes that were selected; one that was closed is registered no
   more. *)
Selected ==
    /\ \A m \in Modes : sock[m] # None =>
          modeSocket[m] # None /\ (sock[m].registered => sock[m].socket # None)
    /\ obj # None => (obj.registered => obj.socket # None)

(* RegistrationsOwned, without the set of objects: the Socket of mode m, or the
   one in the hands of the call, answers for s. *)
Live(m) == sock[m] # None /\ ~(obj # None /\ m = cur /\ after # "fail")
Holds(m, s) == Live(m) /\ sock[m].registered /\ sock[m].socket = s
Mine(s) == obj # None /\ obj.registered /\ obj.socket = s
Owned ==
    \A s \in Modes :
        /\ reg[s] # None <=> Mine(s) \/ \E m \in Modes : Holds(m, s)
        /\ \A m \in Modes : Holds(m, s) => ~Mine(s)
        /\ \A m, k \in Modes : Holds(m, s) /\ Holds(k, s) => m = k

IInv == TypeOK /\ Wire /\ Hands /\ Selected /\ Owned

LEMMA OwnedMeans == TypeOK /\ Selected /\ Owned => RegistrationsOwned
<1> SUFFICES ASSUME TypeOK, Selected, Owned PROVE RegistrationsOwned
  OBVIOUS
<1>1. ASSUME NEW x
      PROVE  x \in Objects <=>
               \/ \E m \in Modes : Live(m) /\ sock[m].registered /\ x = <<m, sock[m]>>
               \/ obj # None /\ obj.registered /\ x = <<None, obj>>
  BY DEF Objects, Live
<1>2. ASSUME NEW s \in Modes
      PROVE  (\E x \in Objects : x[2].socket = s) <=> Mine(s) \/ \E m \in Modes : Holds(m, s)
  <2>1. ASSUME NEW x \in Objects, x[2].socket = s
        PROVE  Mine(s) \/ \E m \in Modes : Holds(m, s)
    BY <1>1, <2>1 DEF Mine, Holds
  <2>2. ASSUME Mine(s) PROVE \E x \in Objects : x[2].socket = s
    <3>1. <<None, obj>> \in Objects /\ <<None, obj>>[2].socket = s
      BY <1>1, <2>2 DEF Mine
    <3> QED BY <3>1
  <2>3. ASSUME NEW m \in Modes, Holds(m, s) PROVE \E x \in Objects : x[2].socket = s
    <3>1. <<m, sock[m]>> \in Objects /\ <<m, sock[m]>>[2].socket = s
      BY <1>1, <2>3 DEF Holds
    <3> QED BY <3>1
  <2> QED BY <2>1, <2>2, <2>3
<1>3. \A s \in Modes : reg[s] # None <=> \E x \in Objects : x[2].socket = s
  BY <1>2 DEF Owned
<1>4. ASSUME NEW x \in Objects, NEW y \in Objects, x[2].socket = y[2].socket PROVE x = y
  <2> DEFINE s == x[2].socket
  <2>1. s \in Modes
    <3>1. CASE \E m \in Modes : Live(m) /\ sock[m].registered /\ x = <<m, sock[m]>>
      BY <3>1 DEF Live, Selected, TypeOK, Socket
    <3>2. CASE obj # None /\ obj.registered /\ x = <<None, obj>>
      BY <3>2 DEF Selected, TypeOK, Socket
    <3> QED BY <1>1, <3>1, <3>2
  <2>2. ASSUME NEW z \in Objects, z[2].socket = s
        PROVE  \/ Mine(s) /\ z = <<None, obj>>
               \/ \E m \in Modes : Holds(m, s) /\ z = <<m, sock[m]>>
    BY <1>1, <2>2 DEF Mine, Holds
  <2>3. \/ Mine(s) /\ x = <<None, obj>>
        \/ \E m \in Modes : Holds(m, s) /\ x = <<m, sock[m]>>
    BY <2>2
  <2>4. \/ Mine(s) /\ y = <<None, obj>>
        \/ \E m \in Modes : Holds(m, s) /\ y = <<m, sock[m]>>
    BY <1>4, <2>2
  <2> HIDE DEF s
  <2> QED BY <2>1, <2>3, <2>4 DEF Owned
<1> QED BY <1>3, <1>4 DEF RegistrationsOwned

-----------------------------------------------------------------------------
(* The cable. *)

LEMMA WireTyped ==
  Wire => /\ cmds \in Seq(Command) /\ inbox \in Seq(Reply)
          /\ pushback \in Reply \cup {None} /\ pkt \in Reply \cup {None}
<1>1. \A q \in Seq(GoodCommand) : q \in Seq(Command)
  BY DEF GoodCommand
<1>2. \A q \in Seq(GoodReply) : q \in Seq(Reply)
  BY DEF GoodReply
<1> QED BY <1>1, <1>2 DEF Wire, GoodReply

LEMMA ReceivedTyped ==
  ASSUME Wire, Readable
  PROVE  Received \in GoodReply /\ InboxAfter \in Seq(GoodReply)
<1>1. CASE pushback # None
  BY <1>1 DEF Wire, Received, InboxAfter
<1>2. CASE pushback = None
  <2>1. inbox \in Seq(GoodReply) /\ inbox # <<>>
    BY <1>2 DEF Wire, Readable
  <2>2. Head(inbox) \in GoodReply /\ Tail(inbox) \in Seq(GoodReply)
    BY <2>1
  <2> QED BY <1>2, <2>2 DEF Received, InboxAfter
<1> QED BY <1>1, <1>2

LEMMA RawSendTyped ==
  ASSUME TypeOK, Wire, NEW c \in Commands, NEW s \in Modes \cup {None}, NEW p \in Passwords,
         c = "SELECT_MODE" => s # None, RawSend(c, s, p)
  PROVE  cmds' \in Seq(GoodCommand)
<1> DEFINE x == [command |-> c, socket |-> s, sequence |-> zseq, password |-> p, seed |-> seed]
<1>1. x \in GoodCommand
  BY DEF TypeOK, Command, GoodCommand
<1> HIDE DEF x
<1>2. cmds' = Append(cmds, x) /\ cmds \in Seq(GoodCommand)
  BY DEF RawSend, Wire, x
<1> QED BY <1>1, <1>2

LEMMA SendTyped ==
  ASSUME TypeOK, Wire, NEW c \in Commands, NEW s \in Modes \cup {None},
         c = "SELECT_MODE" => s # None, Send(c, s)
  PROVE  cmds' \in Seq(GoodCommand) /\ zseq' \in Sequences8
<1>1. "none" \in Passwords /\ RawSend(c, s, "none")
  BY DEF Passwords, Send
<1>2. cmds' \in Seq(GoodCommand)
  BY <1>1, RawSendTyped
<1>3. zseq \in Nat /\ SeqMod \in Nat \ {0} /\ zseq' = (zseq + 1) % SeqMod
  BY SocketZeroAssumption DEF TypeOK, Sequences8, Send
<1>4. zseq' \in Sequences8
  BY <1>3 DEF Sequences8
<1> QED BY <1>2, <1>4

-----------------------------------------------------------------------------
(* Steps that leave the registrations and the objects alone. *)

LEMMA SameOwners ==
  ASSUME Owned, sock' = sock, reg' = reg,
         \/ obj' = obj /\ cur' = cur /\ after' = after
         \/ obj' = None /\ obj = None
         \/ obj' = obj /\ cur' = cur /\ sock[cur] = None
  PROVE  Owned'
<1>1. \A m \in Modes : Live(m)' <=> Live(m)
  BY DEF Live
<1>2. \A m, s \in Modes : Holds(m, s)' <=> Holds(m, s)
  BY <1>1 DEF Holds
<1>3. \A s \in Modes : Mine(s)' <=> Mine(s)
  BY DEF Mine
<1> QED BY <1>2, <1>3 DEF Owned

(* A step of the device or the cable, or one of the application that reads from
   the cable only. *)
LEMMA OutsideKeeps ==
  ASSUME IInv, UNCHANGED <<zeroVars, modeVars, callVars>>,
         cmds' \in Seq(GoodCommand), inbox' \in Seq(GoodReply), pushback' \in GoodReply \cup {None},
         seqDue' \in BOOLEAN, dstate' \in [Modes -> {"closed", "challenged", "open"}],
         dtries' \in 0..MaxTries,
         calls' \in 0..MaxCalls, faults' \in 0..MaxFaults, others' \in 0..MaxOther, strays' \in Nat
  PROVE  IInv'
<1>1. Wire'
  BY DEF IInv, Wire, callVars
<1>2. (Wire => /\ cmds \in Seq(Command) /\ inbox \in Seq(Reply)
               /\ pushback \in Reply \cup {None} /\ pkt \in Reply \cup {None})'
  BY WireTyped, PTL
<1>3. TypeOK'
  BY <1>1, <1>2 DEF IInv, TypeOK, zeroVars, modeVars, callVars
<1>4. Hands' /\ Selected'
  BY DEF IInv, Hands, Selected, modeVars, callVars
<1>5. Owned'
  BY SameOwners DEF IInv, modeVars, callVars
<1> QED BY <1>1, <1>3, <1>4, <1>5 DEF IInv

LEMMA ArriveTyped ==
  ASSUME Wire, NEW c \in Replies, NEW s \in Modes \cup {None}, NEW q \in Sequences8,
         NEW t \in 0..MaxTries, c = "MODE_SELECTED" => s # None, Arrive(c, s, q, t)
  PROVE  /\ inbox' \in Seq(GoodReply) /\ pushback' \in GoodReply \cup {None}
         /\ UNCHANGED <<zeroVars, modeVars, callVars, strays>>
<1> DEFINE x == [command |-> c, socket |-> s, sequence |-> q, tries |-> t]
<1>1. x \in GoodReply
  BY DEF Reply, GoodReply
<1> HIDE DEF x
<1>2. inbox' = Append(inbox, x) /\ inbox \in Seq(GoodReply)
  BY DEF Arrive, Wire, x
<1>3. inbox' \in Seq(GoodReply)
  BY <1>1, <1>2
<1> QED BY <1>3 DEF Arrive, Wire

LEMMA AnswerTyped ==
  ASSUME Wire, cmds # <<>>, NEW c \in Replies, NEW t \in 0..MaxTries,
         c = "MODE_SELECTED" => Head(cmds).command = "SELECT_MODE", Answer(c, t)
  PROVE  /\ inbox' \in Seq(GoodReply) /\ pushback' \in GoodReply \cup {None}
         /\ cmds' \in Seq(GoodCommand) /\ UNCHANGED <<zeroVars, modeVars, callVars, strays>>
         /\ UNCHANGED <<calls, faults, others>>
<1>1. Head(cmds) \in GoodCommand /\ Tail(cmds) \in Seq(GoodCommand)
  BY DEF Wire
<1>2. /\ Head(cmds).socket \in Modes \cup {None} /\ Head(cmds).sequence \in Sequences8
      /\ Head(cmds).command = "SELECT_MODE" => Head(cmds).socket # None
  BY <1>1 DEF GoodCommand, Command
<1>3. Arrive(c, Head(cmds).socket, Head(cmds).sequence, t)
      /\ cmds' = Tail(cmds) /\ UNCHANGED <<calls, faults, others>>
  BY DEF Answer
<1>4. c = "MODE_SELECTED" => Head(cmds).socket # None
  BY <1>2
<1> QED BY <1>1, <1>2, <1>3, <1>4, ArriveTyped

LEMMA DeviceKeeps ==
  ASSUME IInv, Device \/ DeviceOther \/ CommandLost
  PROVE  IInv'
<1>1. /\ Wire /\ seqDue \in BOOLEAN /\ dstate \in [Modes -> {"closed", "challenged", "open"}]
      /\ dtries \in 0..MaxTries /\ calls \in 0..MaxCalls
      /\ faults \in 0..MaxFaults /\ others \in 0..MaxOther /\ strays \in Nat
      /\ MaxTries \in Nat /\ MaxFaults \in Nat /\ MaxOther \in Nat /\ SeqMod \in Nat \ {0}
  BY SocketZeroAssumption DEF IInv, TypeOK
<1>2. 0 \in 0..MaxTries /\ 0 \in Sequences8
  BY <1>1 DEF Sequences8
<1>3. ASSUME NEW c \in Replies, NEW t \in 0..MaxTries, cmds # <<>>,
             c = "MODE_SELECTED" => Head(cmds).command = "SELECT_MODE", Answer(c, t),
             seqDue' \in BOOLEAN, dstate' \in [Modes -> {"closed", "challenged", "open"}],
             dtries' \in 0..MaxTries
      PROVE  IInv'
  <2>1. /\ inbox' \in Seq(GoodReply) /\ pushback' \in GoodReply \cup {None}
        /\ cmds' \in Seq(GoodCommand) /\ UNCHANGED <<zeroVars, modeVars, callVars, strays>>
        /\ UNCHANGED <<calls, faults, others>>
    BY <1>1, <1>3, AnswerTyped
  <2> QED BY <1>1, <1>3, <2>1, OutsideKeeps
<1>4. \A s : \A st \in {"closed", "challenged", "open"} :
        DeviceBecomes(s, st) => dstate' \in [Modes -> {"closed", "challenged", "open"}]
  BY <1>1 DEF DeviceBecomes
<1>5. CASE DeviceSelectMode
  BY <1>1, <1>2, <1>3, <1>5 DEF DeviceSelectMode, Asked, Replies
<1>6. CASE DeviceOpen
  BY <1>1, <1>2, <1>3, <1>4, <1>6 DEF DeviceOpen, Asked, Replies
<1>7. CASE DevicePassword
  <2>1. MaxTries \in 0..MaxTries /\ (dtries > 0 => dtries - 1 \in 0..MaxTries)
    BY <1>1
  <2> QED BY <1>1, <1>2, <1>3, <1>4, <1>7, <2>1 DEF DevicePassword, Asked, Replies
<1>8. CASE DeviceClose
  BY <1>1, <1>2, <1>3, <1>4, <1>8 DEF DeviceClose, Asked, Replies
<1>9. CASE DeviceReset
  BY <1>1, <1>2, <1>3, <1>9 DEF DeviceReset, Asked, Replies, devVars
<1>10. CASE DeviceSequence
  <2>1. Arrive("SEQUENCE", None, 0, 0) /\ seqDue' = FALSE
        /\ UNCHANGED <<dstate, dtries, cmds, calls, faults, others>>
    BY <1>10 DEF DeviceSequence
  <2>2. /\ inbox' \in Seq(GoodReply) /\ pushback' \in GoodReply \cup {None}
        /\ UNCHANGED <<zeroVars, modeVars, callVars, strays>>
    BY <1>1, <1>2, <2>1, ArriveTyped DEF Replies
  <2>3. cmds' \in Seq(GoodCommand)
    BY <1>1, <2>1 DEF Wire
  <2> QED BY <1>1, <2>1, <2>2, <2>3, OutsideKeeps
<1>11. CASE DeviceOther
  <2>1. Arrive("OTHER", None, 0, 0) /\ others < MaxOther /\ others' = others + 1
        /\ UNCHANGED <<devVars, cmds, calls, faults>>
    BY <1>11 DEF DeviceOther
  <2>2. /\ inbox' \in Seq(GoodReply) /\ pushback' \in GoodReply \cup {None}
        /\ UNCHANGED <<zeroVars, modeVars, callVars, strays>>
    BY <1>1, <1>2, <2>1, ArriveTyped DEF Replies
  <2>3. cmds' \in Seq(GoodCommand) /\ others' \in 0..MaxOther
    BY <1>1, <2>1 DEF Wire
  <2> QED BY <1>1, <2>1, <2>2, <2>3, OutsideKeeps DEF devVars
<1>12. CASE CommandLost
  <2>1. cmds # <<>> /\ cmds' = Tail(cmds) /\ faults < MaxFaults /\ faults' = faults + 1
        /\ UNCHANGED <<zeroVars, modeVars, callVars>> /\ UNCHANGED <<devVars, wireVars, calls, others>>
    BY <1>12 DEF CommandLost
  <2>2. cmds' \in Seq(GoodCommand) /\ faults' \in 0..MaxFaults
    BY <1>1, <2>1 DEF Wire
  <2> QED BY <1>1, <2>1, <2>2, OutsideKeeps DEF devVars, wireVars, Wire
<1> QED BY <1>5, <1>6, <1>7, <1>8, <1>9, <1>10, <1>11, <1>12 DEF Device

LEMMA SocketReceiveKeeps ==
  ASSUME IInv, NEW m \in Modes, SocketReceive(m)
  PROVE  IInv'
<1>1. Wire /\ RawReceive /\ UNCHANGED <<zeroVars, modeVars, callVars>> /\ cmds' = cmds
  BY DEF IInv, SocketReceive
<1>2. inbox' \in Seq(GoodReply) /\ pushback' \in GoodReply \cup {None}
      /\ cmds' \in Seq(GoodCommand) /\ UNCHANGED <<devVars, calls, faults, others>>
  BY <1>1, ReceivedTyped DEF RawReceive, Wire
<1>3. strays' \in Nat
  BY <1>1 DEF IInv, TypeOK, RawReceive
<1> QED BY <1>1, <1>2, <1>3, OutsideKeeps DEF IInv, TypeOK, devVars

-----------------------------------------------------------------------------
(* Steps of a call that only move it on. *)

LEMMA ReceiveFacts ==
  ASSUME IInv, RawReceive
  PROVE  /\ Received \in GoodReply /\ inbox' \in Seq(GoodReply) /\ pushback' = None
         /\ Received.socket \in Modes \cup {None} /\ Received.tries \in 0..MaxTries
         /\ Received.command = "MODE_SELECTED" => Received.socket # None
         /\ seqDue' \in BOOLEAN /\ dstate' \in [Modes -> {"closed", "challenged", "open"}]
         /\ dtries' \in 0..MaxTries
         /\ calls' \in 0..MaxCalls /\ faults' \in 0..MaxFaults /\ others' \in 0..MaxOther
         /\ strays' \in Nat
<1>1. Received \in GoodReply /\ inbox' \in Seq(GoodReply) /\ pushback' = None
  BY ReceivedTyped DEF IInv, RawReceive
<1>2. UNCHANGED <<devVars, calls, faults, others>>
  BY DEF RawReceive
<1>3. strays' \in Nat
  BY DEF IInv, TypeOK, RawReceive
<1> QED BY <1>1, <1>2, <1>3 DEF IInv, TypeOK, devVars, GoodReply, Reply

LEMMA TimeoutFacts ==
  ASSUME IInv, Timeout
  PROVE  /\ inbox' \in Seq(GoodReply) /\ pushback' \in GoodReply \cup {None}
         /\ seqDue' \in BOOLEAN /\ dstate' \in [Modes -> {"closed", "challenged", "open"}]
         /\ dtries' \in 0..MaxTries
         /\ calls' \in 0..MaxCalls /\ faults' \in 0..MaxFaults /\ others' \in 0..MaxOther
         /\ strays' \in Nat
<1>1. UNCHANGED <<wireVars, devVars, calls, others>>
  BY DEF Timeout
<1>2. faults' \in 0..MaxFaults
  BY SocketZeroAssumption DEF IInv, TypeOK, Timeout
<1> QED BY <1>1, <1>2 DEF IInv, TypeOK, Wire, wireVars, devVars

LEMMA ModeOpenKeeps ==
  ASSUME IInv, NEW m \in Modes, NEW p \in Passwords, ModeOpen(m, p)
  PROVE  IInv'
<1>1. /\ pc = "idle" /\ calls' \in 0..MaxCalls /\ cur' = m /\ pw' = p
      /\ UNCHANGED <<zeroVars, modeVars, pkt, cmds, devVars, wireVars, faults, others>>
  BY SocketZeroAssumption DEF ModeOpen, Call, IInv, TypeOK
<1>2. \/ modeSocket[m] = None /\ pc' = "select" /\ UNCHANGED <<obj, after>>
      \/ /\ modeSocket[m] # None /\ sock[m] # None
         /\ obj' = sock[m] /\ after' = "reselect" /\ pc' = "closing"
      \/ modeSocket[m] # None /\ sock[m] = None /\ pc' = "crashed" /\ UNCHANGED <<obj, after>>
  BY DEF ModeOpen
<1>3. obj = None /\ after = None
  BY <1>1 DEF IInv, Hands
<1>4. Wire'
  BY <1>1 DEF IInv, Wire, wireVars
<1>5. TypeOK'
  BY <1>1, <1>2 DEF IInv, TypeOK, Places, zeroVars, modeVars, devVars, wireVars
<1>6. Selected'
  BY <1>1, <1>2 DEF IInv, Selected, modeVars
<1>7. Hands'
  BY <1>1, <1>2, <1>3, NullAssumption DEF IInv, Hands, Selected, OpenPlaces, ClosePlaces, modeVars
<1>8. Owned'
  <2>1. CASE UNCHANGED <<obj, after>>
    BY <1>1, <1>3, <2>1, SameOwners DEF IInv, modeVars
  <2>2. CASE sock[m] # None /\ obj' = sock[m] /\ after' = "reselect"
    <3>1. \A k \in Modes : Live(k) <=> sock[k] # None
      BY <1>3 DEF Live
    <3>2. \A k \in Modes : Live(k)' <=> k # m /\ sock[k] # None
      BY <1>1, <2>2 DEF Live, modeVars
    <3>3. \A s \in Modes : ~Mine(s) /\ (Mine(s)' <=> Holds(m, s))
      BY <1>1, <1>3, <2>2, <3>1 DEF Mine, Holds
    <3>4. \A s, k \in Modes : Holds(k, s)' <=> k # m /\ Holds(k, s)
      BY <1>1, <3>1, <3>2 DEF Holds, modeVars
    <3> QED BY <1>1, <3>3, <3>4 DEF Owned, IInv, modeVars
  <2> QED BY <1>2, <2>1, <2>2
<1> QED BY <1>4, <1>5, <1>6, <1>7, <1>8 DEF IInv

LEMMA SelectModeKeeps ==
  ASSUME IInv, SelectMode
  PROVE  IInv'
<1>1. /\ pc = "select" /\ pc' = "mode" /\ Send("SELECT_MODE", cur) /\ cur \in Modes /\ cur # None
      /\ UNCHANGED <<halfOpen, remaining, seed, seqSeen, modeVars, cur, pw, obj, pkt, after,
                   devVars, wireVars, calls, faults, others>>
  BY SocketZeroAssumption DEF SelectMode, IInv, Hands
<1>2. cmds' \in Seq(GoodCommand) /\ zseq' \in Sequences8
  BY <1>1, SendTyped DEF IInv, Commands
<1>3. Wire'
  BY <1>1, <1>2 DEF IInv, Wire, wireVars
<1>4. cmds' \in Seq(Command)
  <2>1. (Wire => cmds \in Seq(Command))'
    BY WireTyped, PTL
  <2> QED BY <1>3, <2>1
<1>5. TypeOK'
  BY <1>1, <1>2, <1>4 DEF IInv, TypeOK, Places, modeVars, devVars, wireVars
<1>6. Selected' /\ Hands'
  BY <1>1 DEF IInv, Selected, Hands, OpenPlaces, ClosePlaces, modeVars
<1>7. Owned'
  BY <1>1, SameOwners DEF IInv, modeVars
<1> QED BY <1>3, <1>5, <1>6, <1>7 DEF IInv

LEMMA ModeSelectedKeeps ==
  ASSUME IInv, ModeSelected
  PROVE  IInv'
<1>1. /\ pc = "mode" /\ RawReceive /\ cur \in Modes /\ obj = None /\ after = None /\ sock[cur] = None
      /\ UNCHANGED <<zeroVars, sock, reg, cmds>>
  BY DEF ModeSelected, IInv, Hands
<1>2. \/ /\ Received.command = "MODE_SELECTED"
         /\ modeSocket' = [modeSocket EXCEPT ![cur] = Received.socket]
         /\ pc' = "opening" /\ UNCHANGED <<cur, pw, obj, pkt, after, result>>
      \/ Return([result EXCEPT ![cur] = "error"]) /\ UNCHANGED modeSocket
  BY DEF ModeSelected
<1>3. /\ inbox' \in Seq(GoodReply) /\ pushback' = None
      /\ Received.socket \in Modes \cup {None}
      /\ Received.command = "MODE_SELECTED" => Received.socket # None
      /\ seqDue' \in BOOLEAN /\ dstate' \in [Modes -> {"closed", "challenged", "open"}]
      /\ dtries' \in 0..MaxTries
      /\ calls' \in 0..MaxCalls /\ faults' \in 0..MaxFaults /\ others' \in 0..MaxOther
      /\ strays' \in Nat
  BY <1>1, ReceiveFacts
<1>4. Wire'
  BY <1>1, <1>2, <1>3 DEF IInv, Wire, Return
<1>5. inbox' \in Seq(Reply)
  <2>1. (Wire => inbox \in Seq(Reply))'
    BY WireTyped, PTL
  <2> QED BY <1>4, <2>1
<1>6. TypeOK'
  BY <1>1, <1>2, <1>3, <1>5 DEF IInv, TypeOK, Places, Passwords, Results, Return, zeroVars
<1>7. Selected'
  BY <1>1, <1>2, <1>3 DEF IInv, TypeOK, Selected, Return
<1>8. Hands'
  BY <1>1, <1>2, <1>3 DEF IInv, TypeOK, Hands, OpenPlaces, ClosePlaces, Return
<1>9. Owned'
  BY <1>1, <1>2, SameOwners DEF IInv, Return
<1> QED BY <1>4, <1>6, <1>7, <1>8, <1>9 DEF IInv

LEMMA ModeTimeoutKeeps ==
  ASSUME IInv, ModeTimeout
  PROVE  IInv'
<1>1. /\ pc = "mode" /\ Timeout /\ cur \in Modes /\ obj = None
      /\ Return([result EXCEPT ![cur] = "error"])
      /\ UNCHANGED <<zeroVars, modeSocket, sock, reg, cmds>>
  BY DEF ModeTimeout, IInv, Hands
<1>2. /\ inbox' \in Seq(GoodReply) /\ pushback' \in GoodReply \cup {None}
      /\ seqDue' \in BOOLEAN /\ dstate' \in [Modes -> {"closed", "challenged", "open"}]
      /\ dtries' \in 0..MaxTries
      /\ calls' \in 0..MaxCalls /\ faults' \in 0..MaxFaults /\ others' \in 0..MaxOther
      /\ strays' \in Nat
  BY <1>1, TimeoutFacts
<1>3. Wire'
  BY <1>1, <1>2 DEF IInv, Wire, Return
<1>4. inbox' \in Seq(Reply) /\ pushback' \in Reply \cup {None}
  <2>1. (Wire => inbox \in Seq(Reply) /\ pushback \in Reply \cup {None})'
    BY WireTyped, PTL
  <2> QED BY <1>3, <2>1
<1>5. TypeOK'
  BY <1>1, <1>2, <1>4 DEF IInv, TypeOK, Places, Passwords, Results, Return, zeroVars
<1>6. Selected' /\ Hands'
  BY <1>1 DEF IInv, Selected, Hands, OpenPlaces, ClosePlaces, Return
<1>7. Owned'
  BY <1>1, SameOwners DEF IInv, Return
<1> QED BY <1>3, <1>5, <1>6, <1>7 DEF IInv

LEMMA RetryPasswordKeeps ==
  ASSUME IInv, NEW m \in Modes, NEW p \in Passwords, RetryPassword(m, p)
  PROVE  IInv'
<1>1. /\ pc = "idle" /\ calls' \in 0..MaxCalls /\ pc' = "opening" /\ cur' = m /\ pw' = p
      /\ modeSocket[m] # None /\ sock[m] = None /\ obj = None /\ after = None
      /\ UNCHANGED <<zeroVars, modeVars, obj, pkt, after, devVars, wireVars, cmds, faults, others>>
  BY SocketZeroAssumption DEF RetryPassword, Call, IInv, TypeOK, Hands
<1>2. Wire'
  BY <1>1 DEF IInv, Wire, wireVars
<1>3. TypeOK'
  BY <1>1 DEF IInv, TypeOK, Places, zeroVars, modeVars, devVars, wireVars
<1>4. Selected' /\ Hands'
  BY <1>1 DEF IInv, Selected, Hands, OpenPlaces, ClosePlaces, modeVars
<1>5. Owned'
  BY <1>1, SameOwners DEF IInv, modeVars
<1> QED BY <1>2, <1>3, <1>4, <1>5 DEF IInv

-----------------------------------------------------------------------------
(* SocketZero::Open. *)

(* The Socket registers, unless the socket is registered already. *)
LEMMA OpenBeginKeeps ==
  ASSUME IInv, OpenBegin
  PROVE  IInv'
<1> DEFINE s == modeSocket[cur]
           free == HasQueue => reg[s] = None
<1>1. /\ pc = "opening" /\ cur \in Modes /\ obj = None /\ after = None /\ sock[cur] = None
      /\ s \in Modes /\ TypeOK /\ HasQueue \in BOOLEAN
  BY SocketZeroAssumption DEF OpenBegin, IInv, Hands, TypeOK
<1>2. /\ obj' = [socket |-> s, closeFlag |-> zseq, registered |-> HasQueue /\ free, reset |-> FALSE]
      /\ reg' = IF HasQueue /\ free THEN [reg EXCEPT ![s] = "data"] ELSE reg
      /\ UNCHANGED <<cur, pw, pkt, modeSocket, sock, devVars, wireVars, calls, faults, others>>
  BY DEF OpenBegin
<1>3. \/ /\ ~free /\ pc' = "closing" /\ after' = "fail"
         /\ result' = [result EXCEPT ![cur] = "error"] /\ UNCHANGED <<zeroVars, cmds>>
      \/ free /\ pc' = "challenge" /\ UNCHANGED <<zeroVars, cmds, after, result>>
      \/ /\ free /\ remaining' = 0 /\ seqSeen' = FALSE
         /\ RawSend("OPEN_SOCKET", s, "none")
         /\ pc' = "open" /\ UNCHANGED <<zseq, halfOpen, seed, after, result>>
  BY DEF OpenBegin
<1>4. free \in BOOLEAN
  OBVIOUS
<1> HIDE DEF s
<1>5. /\ obj' \in Socket /\ obj' # None /\ obj'.socket = s /\ s # None
      /\ obj'.registered = (HasQueue /\ free)
  <2> HIDE DEF free
  <2>1. obj' \in Socket
    BY <1>1, <1>2, <1>4 DEF TypeOK, Socket
  <2> QED BY <1>1, <1>2, <2>1, NullAssumption, SocketZeroAssumption
<1>6. cmds' \in Seq(GoodCommand)
  <2>1. CASE UNCHANGED cmds
    BY <2>1 DEF IInv, Wire
  <2>2. CASE RawSend("OPEN_SOCKET", s, "none")
    BY <1>1, <2>2, RawSendTyped DEF IInv, Commands, Passwords
  <2> QED BY <1>3, <2>1, <2>2
<1>7. Wire'
  BY <1>2, <1>6 DEF IInv, Wire, wireVars
<1>8. cmds' \in Seq(Command)
  <2>1. (Wire => cmds \in Seq(Command))'
    BY WireTyped, PTL
  <2> QED BY <1>7, <2>1
<1>9. /\ zseq' \in Sequences8 /\ halfOpen' \in BOOLEAN /\ remaining' \in 0..MaxTries
      /\ seqSeen' \in BOOLEAN /\ seed' \in Modes \cup {None}
      /\ pc' \in Places /\ after' \in {None, "fail", "reselect", "destroy"}
      /\ result' \in [Modes -> Results]
  <2> HIDE DEF free
  <2>1. pc' \in Places /\ after' \in {None, "fail", "reselect", "destroy"}
    BY <1>1, <1>3 DEF Places
  <2>2. result' \in [Modes -> Results]
    BY <1>1, <1>3 DEF TypeOK, Results
  <2>3. 0 \in 0..MaxTries
    BY SocketZeroAssumption
  <2>4. CASE UNCHANGED zeroVars
    BY <1>1, <2>1, <2>2, <2>4 DEF TypeOK, zeroVars
  <2>5. CASE remaining' = 0 /\ seqSeen' = FALSE /\ UNCHANGED <<zseq, halfOpen, seed>>
    BY <1>1, <2>1, <2>2, <2>3, <2>5 DEF TypeOK
  <2> QED BY <1>3, <2>4, <2>5
<1>10. reg' \in [Modes -> {None, "data", "sequence_and_data"}]
  <2> HIDE DEF free
  <2> QED BY <1>1, <1>2 DEF TypeOK
<1>11. TypeOK'
  BY <1>1, <1>2, <1>5, <1>8, <1>9, <1>10 DEF TypeOK, devVars, wireVars
<1>12. Selected'
  BY <1>2, <1>5 DEF IInv, Selected
<1>13. Hands'
  <2> HIDE DEF free
  <2>1. (pc' = "closing" /\ after' = "fail") \/ (pc' \in {"challenge", "open"} /\ free /\ after' = None)
    BY <1>1, <1>3
  <2>2. modeSocket'[cur'] # None /\ sock'[cur'] = None /\ cur' \in Modes
    BY <1>1, <1>2, SocketZeroAssumption DEF s
  <2>3. free => obj'.registered = HasQueue
    BY <1>1, <1>5
  <2> QED BY <1>5, <2>1, <2>2, <2>3, NullAssumption DEF Hands, OpenPlaces, ClosePlaces
<1>14. Owned'
  <2>1. \A m \in Modes : Live(m)' <=> Live(m)
    BY <1>1, <1>2 DEF Live
  <2>2. \A m, t \in Modes : Holds(m, t)' <=> Holds(m, t)
    BY <1>2, <2>1 DEF Holds
  <2>3. \A t \in Modes : ~Mine(t) /\ (Mine(t)' <=> HasQueue /\ free /\ t = s)
    <3> HIDE DEF free
    <3> QED BY <1>1, <1>5 DEF Mine
  <2>4. CASE HasQueue /\ free
    <3>1. reg[s] = None /\ reg' = [reg EXCEPT ![s] = "data"] /\ "data" # None
      BY <1>2, <2>4, NullAssumption
    <3>2. \A t \in Modes : reg'[t] # None <=> reg[t] # None \/ t = s
      BY <1>1, <3>1 DEF TypeOK
    <3>3. \A m \in Modes : ~Holds(m, s)
      BY <1>1, <3>1 DEF IInv, Owned
    <3> HIDE DEF free
    <3> QED BY <2>2, <2>3, <2>4, <3>2, <3>3 DEF IInv, Owned
  <2>5. CASE ~(HasQueue /\ free)
    <3>1. reg' = reg
      BY <1>2, <2>5
    <3> HIDE DEF free
    <3> QED BY <2>2, <2>3, <2>5, <3>1 DEF IInv, Owned
  <2> QED BY <2>4, <2>5
<1> QED BY <1>7, <1>11, <1>12, <1>13, <1>14 DEF IInv

LEMMA InOpen ==
  ASSUME IInv, pc \in OpenPlaces
  PROVE  /\ cur \in Modes /\ obj \in Socket /\ obj # None /\ after = None /\ sock[cur] = None
         /\ obj.registered = HasQueue /\ obj.socket \in Modes /\ modeSocket[cur] # None
<1>1. pc # "idle"
  BY DEF OpenPlaces
<1>2. obj # None /\ obj \in Socket
  BY DEF IInv, Hands, TypeOK
<1>3. obj.socket \in Modes
  BY <1>2 DEF IInv, Hands, Socket
<1> QED BY <1>1, <1>2, <1>3 DEF IInv, Hands

(* Open goes on. *)
LEMMA OpenGoesOn ==
  ASSUME IInv, pc \in OpenPlaces, pc' \in OpenPlaces,
         UNCHANGED <<modeSocket, sock, reg, cur, obj, after>>
  PROVE  Selected' /\ Hands' /\ Owned'
<1>1. Selected'
  BY DEF IInv, Selected
<1>2. Hands'
  <2>1. /\ cur \in Modes /\ obj # None /\ after = None /\ sock[cur] = None
        /\ obj.registered = HasQueue /\ obj.socket # None /\ modeSocket[cur] # None
    BY InOpen, SocketZeroAssumption
  <2>2. pc' \notin {"idle", "select", "mode", "opening", "crashed", "closing"} \cup ClosePlaces
    BY DEF OpenPlaces, ClosePlaces
  <2> QED BY <2>1, <2>2 DEF Hands
<1>3. Owned'
  BY SameOwners DEF IInv
<1> QED BY <1>1, <1>2, <1>3

(* Open throws: the Socket is still registered, and will be closed. *)
LEMMA OpenThrowsKeeps ==
  ASSUME IInv, pc \in OpenPlaces, NEW how \in Results, OpenThrows(how),
         UNCHANGED <<modeSocket, sock, reg, cur, obj>>
  PROVE  /\ Selected' /\ Hands' /\ Owned' /\ pkt' = None
         /\ pc' \in Places /\ after' \in {None, "fail", "reselect", "destroy"}
         /\ result' \in [Modes -> Results]
<1>1. pc' = "closing" /\ after' = "fail" /\ pkt' = None /\ result' = [result EXCEPT ![cur] = how]
  BY DEF OpenThrows
<1>2. Selected'
  BY DEF IInv, Selected
<1>3. Hands'
  BY <1>1, InOpen, NullAssumption DEF Hands, OpenPlaces, ClosePlaces
<1>4. Owned'
  BY InOpen, SameOwners DEF IInv
<1>5. result' \in [Modes -> Results]
  BY <1>1 DEF IInv, TypeOK
<1> QED BY <1>1, <1>2, <1>3, <1>4, <1>5 DEF Places

(* Open succeeds: the mode takes the Socket over, and the registration with it. *)
LEMMA OpenedKeeps ==
  ASSUME IInv, pc \in OpenPlaces, Opened, UNCHANGED modeSocket
  PROVE  /\ Selected' /\ Hands' /\ Owned' /\ pkt' = None
         /\ pc' \in Places /\ after' \in {None, "fail", "reselect", "destroy"}
         /\ result' \in [Modes -> Results] /\ cur' \in Modes \cup {None} /\ pw' \in Passwords
         /\ obj' \in Socket \cup {None} /\ sock' \in [Modes -> Socket \cup {None}]
         /\ reg' \in [Modes -> {None, "data", "sequence_and_data"}]
<1>1. /\ pc' = "idle" /\ cur' = None /\ pw' = "none" /\ obj' = None /\ pkt' = None /\ after' = None
      /\ result' = [result EXCEPT ![cur] = "ok"] /\ sock' = [sock EXCEPT ![cur] = obj]
      /\ reg' = IF HasQueue THEN [reg EXCEPT ![obj.socket] = "sequence_and_data"] ELSE reg
  BY DEF Opened, Return
<1>2. /\ cur \in Modes /\ obj \in Socket /\ obj # None /\ after = None /\ sock[cur] = None
      /\ obj.registered = HasQueue /\ obj.socket \in Modes /\ modeSocket[cur] # None
  BY InOpen
<1>3. TypeOK
  BY DEF IInv
<1>4. /\ sock' \in [Modes -> Socket \cup {None}] /\ result' \in [Modes -> Results]
      /\ reg' \in [Modes -> {None, "data", "sequence_and_data"}]
  <2>1. sock' \in [Modes -> Socket \cup {None}] /\ result' \in [Modes -> Results]
    BY <1>1, <1>2, <1>3 DEF TypeOK, Results
  <2>2. reg' \in [Modes -> {None, "data", "sequence_and_data"}]
    BY <1>1, <1>2, <1>3 DEF TypeOK
  <2> QED BY <2>1, <2>2
<1>5. sock'[cur] = obj /\ \A m \in Modes : m # cur => sock'[m] = sock[m]
  BY <1>1, <1>2, <1>3 DEF TypeOK
<1>6. Selected'
  BY <1>1, <1>2, <1>5, SocketZeroAssumption DEF IInv, Selected
<1>7. Hands'
  BY <1>1 DEF Hands, OpenPlaces, ClosePlaces
<1>8. Owned'
  <2>0. PICK c \in Modes : c = cur
    BY <1>2
  <2>1. \A m \in Modes : /\ Live(m) <=> sock[m] # None
                         /\ Live(m)' <=> sock'[m] # None
    BY <1>1, <1>2 DEF Live
  <2>2. \A m, s \in Modes : m # c => (Holds(m, s)' <=> Holds(m, s))
    BY <1>5, <2>0, <2>1 DEF Holds
  <2>3. \A s \in Modes : ~Holds(c, s) /\ ~Mine(s)' /\ (Holds(c, s)' <=> Mine(s))
    BY <1>1, <1>2, <1>5, <2>0, <2>1 DEF Holds, Mine
  <2>4. \A s \in Modes : reg'[s] # None <=> reg[s] # None
    <3>1. CASE HasQueue
      <4>1. Mine(obj.socket)
        BY <1>2, <3>1 DEF Mine
      <4>2. reg[obj.socket] # None
        BY <1>2, <4>1 DEF IInv, Owned
      <4> QED BY <1>1, <1>2, <1>3, <3>1, <4>2, NullAssumption DEF TypeOK
    <3>2. CASE ~HasQueue
      BY <1>1, <3>2
    <3> QED BY <3>1, <3>2
  <2> QED BY <2>2, <2>3, <2>4 DEF IInv, Owned
<1> QED BY <1>1, <1>4, <1>6, <1>7, <1>8 DEF Places, Passwords

LEMMA OpenReplyKeeps ==
  ASSUME IInv, OpenReply
  PROVE  IInv'
<1>1. /\ pc \in OpenPlaces /\ RawReceive /\ TypeOK
      /\ UNCHANGED <<zseq, modeVars, cur, pw, obj, after, cmds>>
  BY DEF OpenReply, OpenPlaces, IInv
<1>2. /\ pc' \in OpenPlaces
      /\ seqSeen' = TRUE \/ seqSeen' = seqSeen
      /\ \/ halfOpen' = TRUE /\ remaining' = Received.tries /\ seed' = Received.socket
         \/ UNCHANGED <<halfOpen, remaining, seed>>
      /\ pkt' = pkt \/ pkt' = Received
  BY DEF OpenReply, OpenPlaces
<1>3. /\ Received \in GoodReply /\ inbox' \in Seq(GoodReply) /\ pushback' = None
      /\ Received.socket \in Modes \cup {None} /\ Received.tries \in 0..MaxTries
      /\ seqDue' \in BOOLEAN /\ dstate' \in [Modes -> {"closed", "challenged", "open"}]
      /\ dtries' \in 0..MaxTries
      /\ calls' \in 0..MaxCalls /\ faults' \in 0..MaxFaults /\ others' \in 0..MaxOther
      /\ strays' \in Nat
  BY <1>1, ReceiveFacts
<1>4. Wire'
  BY <1>1, <1>2, <1>3 DEF IInv, Wire
<1>5. inbox' \in Seq(Reply) /\ pkt' \in Reply \cup {None}
  <2>1. (Wire => inbox \in Seq(Reply) /\ pkt \in Reply \cup {None})'
    BY WireTyped, PTL
  <2> QED BY <1>4, <2>1
<1>6. pc' \in Places
  BY <1>2 DEF OpenPlaces, Places
<1>7. TypeOK'
  BY <1>1, <1>2, <1>3, <1>5, <1>6 DEF TypeOK, modeVars
<1>8. Selected' /\ Hands' /\ Owned'
  BY <1>1, <1>2, OpenGoesOn DEF modeVars
<1> QED BY <1>4, <1>7, <1>8 DEF IInv

LEMMA AnswerChallengeKeeps ==
  ASSUME IInv, AnswerChallenge
  PROVE  IInv'
<1>1. /\ pc \in OpenPlaces /\ TypeOK
      /\ UNCHANGED <<zeroVars, modeSocket, sock, reg, cur, pw, obj, devVars, wireVars,
                     calls, faults, others>>
  BY DEF AnswerChallenge, OpenPlaces, IInv
<1>2. \/ OpenThrows("badpassword") /\ UNCHANGED cmds
      \/ RawSend("PASSWORD", obj.socket, pw) /\ pc' = "hash" /\ UNCHANGED <<after, pkt, result>>
  BY DEF AnswerChallenge
<1>3. /\ Selected' /\ Hands' /\ Owned' /\ (pkt' = None \/ pkt' = pkt)
      /\ pc' \in Places /\ after' \in {None, "fail", "reselect", "destroy"}
      /\ result' \in [Modes -> Results]
  <2>1. CASE OpenThrows("badpassword")
    BY <1>1, <2>1, OpenThrowsKeeps DEF Results
  <2>2. CASE pc' = "hash" /\ UNCHANGED <<after, pkt, result>>
    <3>1. pc' \in OpenPlaces /\ pc' \in Places
      BY <2>2 DEF OpenPlaces, Places
    <3> QED BY <1>1, <2>2, <3>1, OpenGoesOn DEF TypeOK
  <2> QED BY <1>2, <2>1, <2>2
<1>4. cmds' \in Seq(GoodCommand)
  <2>1. CASE UNCHANGED cmds
    BY <2>1 DEF IInv, Wire
  <2>2. CASE RawSend("PASSWORD", obj.socket, pw)
    <3>1. obj.socket \in Modes /\ pw \in Passwords
      BY <1>1, InOpen DEF TypeOK
    <3> QED BY <1>1, <2>2, <3>1, RawSendTyped DEF IInv, Commands
  <2> QED BY <1>2, <2>1, <2>2
<1>5. Wire'
  BY <1>1, <1>3, <1>4 DEF IInv, Wire, wireVars
<1>6. cmds' \in Seq(Command) /\ pkt' \in Reply \cup {None}
  <2>1. (Wire => cmds \in Seq(Command) /\ pkt \in Reply \cup {None})'
    BY WireTyped, PTL
  <2> QED BY <1>5, <2>1
<1>7. TypeOK'
  BY <1>1, <1>3, <1>6 DEF TypeOK, zeroVars, devVars, wireVars
<1> QED BY <1>3, <1>5, <1>7 DEF IInv

LEMMA HashReplyKeeps ==
  ASSUME IInv, HashReply
  PROVE  IInv'
<1>1. /\ pc \in OpenPlaces /\ RawReceive /\ TypeOK
      /\ UNCHANGED <<zseq, modeSocket, sock, reg, cur, pw, obj, cmds>>
  BY DEF HashReply, OpenPlaces, IInv
<1>2. /\ seqSeen' = TRUE \/ seqSeen' = seqSeen
      /\ \/ halfOpen' = TRUE /\ remaining' = Received.tries /\ seed' = Received.socket
         \/ halfOpen' = FALSE /\ UNCHANGED <<remaining, seed>>
         \/ UNCHANGED <<halfOpen, remaining, seed>>
      /\ \/ OpenThrows("badpassword")
         \/ /\ pc' \in OpenPlaces /\ UNCHANGED <<after, result>>
            /\ pkt' = pkt \/ pkt' = Received
  BY DEF HashReply, OpenPlaces
<1>3. /\ Received \in GoodReply /\ inbox' \in Seq(GoodReply) /\ pushback' = None
      /\ Received.socket \in Modes \cup {None} /\ Received.tries \in 0..MaxTries
      /\ seqDue' \in BOOLEAN /\ dstate' \in [Modes -> {"closed", "challenged", "open"}]
      /\ dtries' \in 0..MaxTries
      /\ calls' \in 0..MaxCalls /\ faults' \in 0..MaxFaults /\ others' \in 0..MaxOther
      /\ strays' \in Nat
  BY <1>1, ReceiveFacts
<1>4. /\ Selected' /\ Hands' /\ Owned' /\ (pkt' = None \/ pkt' = pkt \/ pkt' = Received)
      /\ pc' \in Places /\ after' \in {None, "fail", "reselect", "destroy"}
      /\ result' \in [Modes -> Results]
  <2>1. CASE OpenThrows("badpassword")
    BY <1>1, <2>1, OpenThrowsKeeps DEF Results
  <2>2. CASE pc' \in OpenPlaces /\ UNCHANGED <<after, result>> /\ (pkt' = pkt \/ pkt' = Received)
    <3>1. pc' \in Places
      BY <2>2 DEF OpenPlaces, Places
    <3> QED BY <1>1, <2>2, <3>1, OpenGoesOn DEF TypeOK
  <2> QED BY <1>2, <2>1, <2>2
<1>5. Wire'
  BY <1>1, <1>3, <1>4 DEF IInv, Wire
<1>6. inbox' \in Seq(Reply) /\ pkt' \in Reply \cup {None}
  <2>1. (Wire => inbox \in Seq(Reply) /\ pkt \in Reply \cup {None})'
    BY WireTyped, PTL
  <2> QED BY <1>5, <2>1
<1>7. TypeOK'
  BY <1>1, <1>2, <1>3, <1>4, <1>6 DEF TypeOK
<1> QED BY <1>4, <1>5, <1>7 DEF IInv

LEMMA OpenedCheckKeeps ==
  ASSUME IInv, OpenedCheck
  PROVE  IInv'
<1>1. /\ pc \in OpenPlaces /\ TypeOK
      /\ UNCHANGED <<zeroVars, modeSocket, devVars, wireVars, cmds, calls, faults, others>>
  BY DEF OpenedCheck, OpenPlaces, IInv
<1>2. \/ OpenThrows("error") /\ UNCHANGED <<cur, pw, obj, sock, reg>>
      \/ Opened
      \/ pc' = "sequence" /\ pkt' = None /\ UNCHANGED <<cur, pw, obj, after, sock, reg, result>>
  BY DEF OpenedCheck
<1>3. /\ Selected' /\ Hands' /\ Owned' /\ pkt' = None
      /\ pc' \in Places /\ after' \in {None, "fail", "reselect", "destroy"}
      /\ result' \in [Modes -> Results] /\ cur' \in Modes \cup {None} /\ pw' \in Passwords
      /\ obj' \in Socket \cup {None} /\ sock' \in [Modes -> Socket \cup {None}]
      /\ reg' \in [Modes -> {None, "data", "sequence_and_data"}]
  <2>1. CASE OpenThrows("error") /\ UNCHANGED <<cur, pw, obj, sock, reg>>
    BY <1>1, <2>1, OpenThrowsKeeps DEF Results, TypeOK
  <2>2. CASE Opened
    BY <1>1, <2>2, OpenedKeeps
  <2>3. CASE pc' = "sequence" /\ pkt' = None /\ UNCHANGED <<cur, pw, obj, after, sock, reg, result>>
    <3>1. pc' \in OpenPlaces /\ pc' \in Places
      BY <2>3 DEF OpenPlaces, Places
    <3> QED BY <1>1, <2>3, <3>1, OpenGoesOn DEF TypeOK
  <2> QED BY <1>2, <2>1, <2>2, <2>3
<1>4. Wire'
  BY <1>1, <1>3 DEF IInv, Wire, wireVars
<1>5. TypeOK'
  BY <1>1, <1>3 DEF TypeOK, zeroVars, devVars, wireVars
<1> QED BY <1>3, <1>4, <1>5 DEF IInv

LEMMA AwaitSequenceKeeps ==
  ASSUME IInv, AwaitSequence
  PROVE  IInv'
<1>1. /\ pc \in OpenPlaces /\ RawReceive /\ TypeOK /\ UNCHANGED <<zeroVars, modeSocket, cmds>>
  BY DEF AwaitSequence, OpenPlaces, IInv
<1>2. \/ Opened
      \/ pc' = "late" /\ pkt' = Received /\ UNCHANGED <<cur, pw, obj, after, sock, reg, result>>
  BY DEF AwaitSequence
<1>3. /\ Received \in GoodReply /\ inbox' \in Seq(GoodReply) /\ pushback' = None
      /\ seqDue' \in BOOLEAN /\ dstate' \in [Modes -> {"closed", "challenged", "open"}]
      /\ dtries' \in 0..MaxTries
      /\ calls' \in 0..MaxCalls /\ faults' \in 0..MaxFaults /\ others' \in 0..MaxOther
      /\ strays' \in Nat
  BY <1>1, ReceiveFacts
<1>4. /\ Selected' /\ Hands' /\ Owned' /\ pkt' \in GoodReply \cup {None}
      /\ pc' \in Places /\ after' \in {None, "fail", "reselect", "destroy"}
      /\ result' \in [Modes -> Results] /\ cur' \in Modes \cup {None} /\ pw' \in Passwords
      /\ obj' \in Socket \cup {None} /\ sock' \in [Modes -> Socket \cup {None}]
      /\ reg' \in [Modes -> {None, "data", "sequence_and_data"}]
  <2>1. CASE Opened
    BY <1>1, <2>1, OpenedKeeps
  <2>2. CASE pc' = "late" /\ pkt' = Received /\ UNCHANGED <<cur, pw, obj, after, sock, reg, result>>
    <3>1. pc' \in OpenPlaces /\ pc' \in Places
      BY <2>2 DEF OpenPlaces, Places
    <3> QED BY <1>1, <1>3, <2>2, <3>1, OpenGoesOn DEF TypeOK
  <2> QED BY <1>2, <2>1, <2>2
<1>5. Wire'
  BY <1>1, <1>3, <1>4 DEF IInv, Wire
<1>6. inbox' \in Seq(Reply) /\ pkt' \in Reply \cup {None}
  <2>1. (Wire => inbox \in Seq(Reply) /\ pkt \in Reply \cup {None})'
    BY WireTyped, PTL
  <2> QED BY <1>5, <2>1
<1>7. TypeOK'
  BY <1>1, <1>3, <1>4, <1>6 DEF TypeOK, zeroVars
<1> QED BY <1>4, <1>5, <1>7 DEF IInv

LEMMA LateSequenceKeeps ==
  ASSUME IInv, LateSequence
  PROVE  IInv'
<1>1. /\ pc \in OpenPlaces /\ Readable /\ inbox' = InboxAfter /\ TypeOK
      /\ UNCHANGED <<zeroVars, modeSocket, cmds, devVars, strays, calls, faults, others>>
  BY DEF LateSequence, OpenPlaces, IInv
<1>2. \/ Opened /\ pushback' = pkt
      \/ OpenThrows("error") /\ pushback' = None /\ UNCHANGED <<cur, pw, obj, sock, reg>>
  BY DEF LateSequence
<1>3. inbox' \in Seq(GoodReply) /\ pushback' \in GoodReply \cup {None}
  BY <1>1, <1>2, ReceivedTyped DEF IInv, Wire
<1>4. /\ Selected' /\ Hands' /\ Owned' /\ pkt' = None
      /\ pc' \in Places /\ after' \in {None, "fail", "reselect", "destroy"}
      /\ result' \in [Modes -> Results] /\ cur' \in Modes \cup {None} /\ pw' \in Passwords
      /\ obj' \in Socket \cup {None} /\ sock' \in [Modes -> Socket \cup {None}]
      /\ reg' \in [Modes -> {None, "data", "sequence_and_data"}]
  <2>1. CASE Opened
    BY <1>1, <2>1, OpenedKeeps
  <2>2. CASE OpenThrows("error") /\ UNCHANGED <<cur, pw, obj, sock, reg>>
    BY <1>1, <2>2, OpenThrowsKeeps DEF Results, TypeOK
  <2> QED BY <1>2, <2>1, <2>2
<1>5. Wire'
  BY <1>1, <1>3, <1>4 DEF IInv, Wire
<1>6. inbox' \in Seq(Reply) /\ pushback' \in Reply \cup {None}
  <2>1. (Wire => inbox \in Seq(Reply) /\ pushback \in Reply \cup {None})'
    BY WireTyped, PTL
  <2> QED BY <1>5, <2>1
<1>7. TypeOK'
  BY <1>1, <1>4, <1>6 DEF TypeOK, zeroVars, devVars
<1> QED BY <1>4, <1>5, <1>7 DEF IInv

LEMMA OpenTimeoutKeeps ==
  ASSUME IInv, OpenTimeout
  PROVE  IInv'
<1>1. /\ pc \in OpenPlaces /\ Timeout /\ OpenThrows("error") /\ TypeOK
      /\ UNCHANGED <<zeroVars, modeSocket, sock, reg, cur, pw, obj, cmds>>
  BY DEF OpenTimeout, OpenPlaces, IInv
<1>2. /\ inbox' \in Seq(GoodReply) /\ pushback' \in GoodReply \cup {None}
      /\ seqDue' \in BOOLEAN /\ dstate' \in [Modes -> {"closed", "challenged", "open"}]
      /\ dtries' \in 0..MaxTries
      /\ calls' \in 0..MaxCalls /\ faults' \in 0..MaxFaults /\ others' \in 0..MaxOther
      /\ strays' \in Nat
  BY <1>1, TimeoutFacts
<1>3. /\ Selected' /\ Hands' /\ Owned' /\ pkt' = None
      /\ pc' \in Places /\ after' \in {None, "fail", "reselect", "destroy"}
      /\ result' \in [Modes -> Results]
  BY <1>1, OpenThrowsKeeps DEF Results
<1>4. Wire'
  BY <1>1, <1>2, <1>3 DEF IInv, Wire
<1>5. inbox' \in Seq(Reply) /\ pushback' \in Reply \cup {None}
  <2>1. (Wire => inbox \in Seq(Reply) /\ pushback \in Reply \cup {None})'
    BY WireTyped, PTL
  <2> QED BY <1>4, <2>1
<1>6. TypeOK'
  BY <1>1, <1>2, <1>3, <1>5 DEF TypeOK, zeroVars
<1> QED BY <1>3, <1>4, <1>6 DEF IInv

-----------------------------------------------------------------------------
(* SocketZero::Close. *)

LEMMA InClose ==
  ASSUME IInv, pc \in {"closing"} \cup ClosePlaces
  PROVE  /\ cur \in Modes /\ obj \in Socket /\ obj # None
         /\ after \in {"fail", "reselect", "destroy"} /\ (after = "fail" <=> sock[cur] = None)
         /\ pc \in ClosePlaces => ~obj.registered
<1>1. pc # "idle"
  BY DEF ClosePlaces
<1> QED BY <1>1 DEF IInv, Hands, TypeOK

(* The Socket is registered no more when the call lets go of it. *)
LEMMA CloseEndsKeeps ==
  ASSUME IInv, pc \in {"closing"} \cup ClosePlaces, ~obj.registered,
         NEW o \in Socket, ~o.registered, NEW thrown, CloseEnds(o, thrown), reg' = reg
  PROVE  /\ Selected' /\ Hands' /\ Owned' /\ pkt' = None
         /\ pc' \in Places /\ after' \in {None, "fail", "reselect", "destroy"}
         /\ result' \in [Modes -> Results] /\ cur' \in Modes \cup {None} /\ pw' \in Passwords
         /\ obj' \in Socket \cup {None} /\ sock' \in [Modes -> Socket \cup {None}]
         /\ modeSocket' \in [Modes -> Modes \cup {None}]
<1>1. /\ cur \in Modes /\ obj # None /\ (after = "fail" => sock[cur] = None)
      /\ TypeOK /\ Selected /\ Owned
  BY InClose DEF IInv
<1>2. /\ obj' = None /\ pkt' = None /\ after' = None
      /\ \/ pc' = "idle" /\ cur' = None /\ pw' = "none"
         \/ pc' = "select" /\ cur' = cur /\ pw' = pw /\ sock' = [sock EXCEPT ![cur] = None]
  BY DEF CloseEnds, Return
<1>3. /\ \/ after = "fail" /\ sock' = sock /\ modeSocket' = modeSocket
         \/ /\ after # "fail" /\ sock' = [sock EXCEPT ![cur] = None]
            /\ modeSocket' = [modeSocket EXCEPT ![cur] = None]
         \/ after # "fail" /\ sock' = [sock EXCEPT ![cur] = o] /\ modeSocket' = modeSocket
      /\ \/ result' = result
         \/ result' = [result EXCEPT ![cur] = "none"]
         \/ result' = [result EXCEPT ![cur] = "error"]
  BY DEF CloseEnds, Return
<1>4. PICK c \in Modes : c = cur
  BY <1>1
<1>5. /\ sock'[c] = None \/ (sock'[c] = o /\ modeSocket' = modeSocket /\ after # "fail")
      /\ \A m \in Modes : m # c => sock'[m] = sock[m] /\ modeSocket'[m] = modeSocket[m]
  BY <1>1, <1>3, <1>4 DEF TypeOK
<1>6. result' \in [Modes -> Results]
  BY <1>1, <1>3 DEF TypeOK, Results
<1>7. sock' \in [Modes -> Socket \cup {None}] /\ modeSocket' \in [Modes -> Modes \cup {None}]
  BY <1>1, <1>3 DEF TypeOK
<1>8. Selected'
  <2>1. ASSUME NEW m \in Modes, sock'[m] # None
        PROVE  modeSocket'[m] # None /\ (sock'[m].registered => sock'[m].socket # None)
    <3>1. CASE m # c
      BY <1>1, <1>5, <2>1, <3>1 DEF Selected
    <3>2. CASE m = c
      <4>1. sock'[c] = o /\ modeSocket' = modeSocket
        BY <1>5, <2>1, <3>2
      <4>2. sock[c] # None
        BY <1>4, <1>5, <2>1, <3>2, InClose
      <4> QED BY <1>1, <3>2, <4>1, <4>2 DEF Selected
    <3> QED BY <3>1, <3>2
  <2> QED BY <1>2, <2>1 DEF Selected
<1>9. Hands'
  BY <1>1, <1>2 DEF Hands, OpenPlaces, ClosePlaces, TypeOK
<1>10. Owned'
  <2>1. \A m \in Modes : /\ Live(m) <=> sock[m] # None /\ m # c
                         /\ Live(m)' <=> sock'[m] # None
    BY <1>1, <1>2, <1>4 DEF Live
  <2>2. \A m, s \in Modes : Holds(m, s)' <=> Holds(m, s)
    BY <1>5, <2>1 DEF Holds
  <2>3. \A s \in Modes : ~Mine(s) /\ ~Mine(s)'
    BY <1>2 DEF Mine
  <2> QED BY <1>1, <2>2, <2>3 DEF Owned
<1>11. pc' \in Places /\ cur' \in Modes \cup {None} /\ pw' \in Passwords
  BY <1>1, <1>2 DEF TypeOK, Places, Passwords
<1> QED BY <1>2, <1>6, <1>7, <1>8, <1>9, <1>10, <1>11

(* LocalClose takes the registration back before anything can fail. *)
LEMMA LocalCloseKeeps ==
  ASSUME IInv, LocalClose
  PROVE  IInv'
<1> DEFINE o == [obj EXCEPT !.registered = FALSE]
<1>1. /\ pc = "closing" /\ reg' = UnregisterInterest(obj) /\ TypeOK /\ Wire
      /\ UNCHANGED <<devVars, wireVars, calls, faults, others>>
  BY DEF LocalClose, IInv
<1>2. /\ cur \in Modes /\ obj \in Socket /\ obj # None /\ after # None
      /\ (after = "fail" <=> sock[cur] = None)
      /\ (obj.registered => obj.socket # None)
  BY <1>1, InClose, NullAssumption DEF IInv, Selected
<1>3. o \in Socket /\ ~o.registered /\ o.socket = obj.socket
  BY <1>2 DEF Socket
<1>4. \/ obj.socket = None /\ CloseEnds(o, FALSE) /\ UNCHANGED <<zeroVars, cmds>>
      \/ /\ obj.socket # None /\ Send("CLOSE_SOCKET", obj.socket) /\ obj' = o /\ pc' = "close"
         /\ UNCHANGED <<halfOpen, remaining, seed, seqSeen, modeSocket, sock, result,
                        cur, pw, pkt, after>>
  BY DEF LocalClose
<1> HIDE DEF o
<1>5. CASE obj.socket = None /\ CloseEnds(o, FALSE) /\ UNCHANGED <<zeroVars, cmds>>
  <2>1. ~obj.registered /\ reg' = reg
    BY <1>1, <1>2, <1>5 DEF UnregisterInterest
  <2>2. /\ Selected' /\ Hands' /\ Owned' /\ pkt' = None
        /\ pc' \in Places /\ after' \in {None, "fail", "reselect", "destroy"}
        /\ result' \in [Modes -> Results] /\ cur' \in Modes \cup {None} /\ pw' \in Passwords
        /\ obj' \in Socket \cup {None} /\ sock' \in [Modes -> Socket \cup {None}]
        /\ modeSocket' \in [Modes -> Modes \cup {None}]
    BY <1>1, <1>3, <1>5, <2>1, CloseEndsKeeps
  <2>3. Wire'
    BY <1>1, <1>5, <2>2 DEF Wire, wireVars
  <2>4. TypeOK'
    BY <1>1, <1>5, <2>1, <2>2 DEF TypeOK, zeroVars, devVars, wireVars
  <2> QED BY <2>2, <2>3, <2>4 DEF IInv
<1>6. CASE /\ obj.socket # None /\ Send("CLOSE_SOCKET", obj.socket) /\ obj' = o /\ pc' = "close"
           /\ UNCHANGED <<halfOpen, remaining, seed, seqSeen, modeSocket, sock, result,
                          cur, pw, pkt, after>>
  <2>1. obj.socket \in Modes
    BY <1>2, <1>6 DEF Socket
  <2>2. cmds' \in Seq(GoodCommand) /\ zseq' \in Sequences8
    BY <1>1, <1>6, <2>1, SendTyped DEF Commands
  <2>3. Wire'
    BY <1>1, <1>6, <2>2 DEF Wire, wireVars
  <2>4. cmds' \in Seq(Command)
    <3>1. (Wire => cmds \in Seq(Command))'
      BY WireTyped, PTL
    <3> QED BY <2>3, <3>1
  <2>5. /\ reg' \in [Modes -> {None, "data", "sequence_and_data"}]
        /\ \A s \in Modes : reg'[s] # None <=> reg[s] # None /\ ~(obj.registered /\ s = obj.socket)
    BY <1>1, <2>1 DEF UnregisterInterest, TypeOK
  <2>6. TypeOK'
    BY <1>1, <1>3, <1>6, <2>2, <2>4, <2>5 DEF TypeOK, Places, devVars, wireVars
  <2>7. obj' # None
    BY <1>3, <1>6, NullAssumption
  <2>8. Selected'
    BY <1>3, <1>6 DEF IInv, Selected
  <2>9. Hands'
    BY <1>2, <1>3, <1>6, <2>7 DEF Hands, OpenPlaces, ClosePlaces
  <2>10. Owned'
    <3>1. \A m \in Modes : Live(m)' <=> Live(m)
      BY <1>2, <1>6, <2>7 DEF Live
    <3>2. \A m, s \in Modes : Holds(m, s)' <=> Holds(m, s)
      BY <1>6, <3>1 DEF Holds
    <3>3. \A s \in Modes : ~Mine(s)' /\ (Mine(s) <=> obj.registered /\ s = obj.socket)
      BY <1>2, <1>3, <1>6 DEF Mine
    <3> QED BY <2>5, <3>2, <3>3 DEF IInv, Owned
  <2> QED BY <2>3, <2>6, <2>8, <2>9, <2>10 DEF IInv
<1> QED BY <1>4, <1>5, <1>6

LEMMA ForceClosedTyped ==
  ASSUME NEW o \in Socket
  PROVE  ForceClosed(o) \in Socket /\ ForceClosed(o).registered = o.registered
<1>1. 0 \in Sequences8
  BY SocketZeroAssumption DEF Sequences8
<1> QED BY <1>1 DEF ForceClosed, Socket

(* Close goes on. *)
LEMMA CloseGoesOn ==
  ASSUME IInv, pc \in ClosePlaces, pc' \in ClosePlaces,
         UNCHANGED <<modeSocket, sock, reg, cur, obj, after>>
  PROVE  Selected' /\ Hands' /\ Owned'
<1>1. Selected'
  BY DEF IInv, Selected
<1>2. Hands'
  <2>1. /\ cur \in Modes /\ obj # None /\ after # None /\ (after = "fail" <=> sock[cur] = None)
        /\ ~obj.registered
    BY InClose, NullAssumption
  <2>2. pc' \notin {"idle", "select", "mode", "opening", "crashed"} \cup OpenPlaces
    BY DEF OpenPlaces, ClosePlaces
  <2> QED BY <2>1, <2>2 DEF Hands
<1>3. Owned'
  BY SameOwners DEF IInv
<1> QED BY <1>1, <1>2, <1>3

LEMMA CloseReplyKeeps ==
  ASSUME IInv, CloseReply
  PROVE  IInv'
<1>1. /\ pc \in ClosePlaces /\ RawReceive /\ TypeOK /\ Wire
      /\ UNCHANGED <<halfOpen, remaining, seed, seqSeen, reg>>
  BY DEF CloseReply, ClosePlaces, IInv
<1>2. \/ /\ \E thrown \in BOOLEAN : CloseEnds(ForceClosed(obj), thrown)
         /\ UNCHANGED <<zseq, cmds>>
      \/ /\ pc' \in ClosePlaces
         /\ UNCHANGED <<zseq, cmds>> \/ Send("RESET", None)
         /\ UNCHANGED <<modeSocket, sock, result, cur, pw, obj, pkt, after>>
  BY DEF CloseReply, ClosePlaces
<1>3. /\ inbox' \in Seq(GoodReply) /\ pushback' = None
      /\ seqDue' \in BOOLEAN /\ dstate' \in [Modes -> {"closed", "challenged", "open"}]
      /\ dtries' \in 0..MaxTries
      /\ calls' \in 0..MaxCalls /\ faults' \in 0..MaxFaults /\ others' \in 0..MaxOther
      /\ strays' \in Nat
  BY <1>1, ReceiveFacts
<1>4. obj \in Socket /\ ~obj.registered
  BY <1>1, InClose
<1>5. ForceClosed(obj) \in Socket /\ ~ForceClosed(obj).registered
  BY <1>4, ForceClosedTyped
<1>6. cmds' \in Seq(GoodCommand) /\ zseq' \in Sequences8
  <2>1. CASE UNCHANGED <<zseq, cmds>>
    BY <1>1, <2>1 DEF TypeOK, Wire
  <2>2. CASE Send("RESET", None)
    BY <1>1, <2>2, SendTyped DEF Commands
  <2> QED BY <1>2, <2>1, <2>2
<1>7. /\ Selected' /\ Hands' /\ Owned' /\ (pkt' = None \/ pkt' = pkt)
      /\ pc' \in Places /\ after' \in {None, "fail", "reselect", "destroy"}
      /\ result' \in [Modes -> Results] /\ cur' \in Modes \cup {None} /\ pw' \in Passwords
      /\ obj' \in Socket \cup {None} /\ sock' \in [Modes -> Socket \cup {None}]
      /\ modeSocket' \in [Modes -> Modes \cup {None}]
  <2>1. ASSUME NEW thrown \in BOOLEAN, CloseEnds(ForceClosed(obj), thrown) PROVE <1>7!:
    BY <1>1, <1>4, <1>5, <2>1, CloseEndsKeeps
  <2>2. CASE pc' \in ClosePlaces /\ UNCHANGED <<modeSocket, sock, result, cur, pw, obj, pkt, after>>
    <3>1. pc' \in Places
      BY <2>2 DEF ClosePlaces, Places
    <3> QED BY <1>1, <2>2, <3>1, CloseGoesOn DEF TypeOK
  <2> QED BY <1>2, <2>1, <2>2
<1>8. Wire'
  BY <1>1, <1>3, <1>6, <1>7 DEF Wire
<1>9. cmds' \in Seq(Command) /\ inbox' \in Seq(Reply) /\ pkt' \in Reply \cup {None}
  <2>1. (Wire => cmds \in Seq(Command) /\ inbox \in Seq(Reply) /\ pkt \in Reply \cup {None})'
    BY WireTyped, PTL
  <2> QED BY <1>8, <2>1
<1>10. TypeOK'
  BY <1>1, <1>3, <1>6, <1>7, <1>9 DEF TypeOK
<1> QED BY <1>7, <1>8, <1>10 DEF IInv

(* The end of Close, after an answer to the reset or after a timeout. *)
LEMMA CloseOverKeeps ==
  ASSUME IInv, pc \in ClosePlaces, UNCHANGED <<zeroVars, reg, cmds>>,
         NEW o \in {obj, ForceClosed(obj)}, NEW thrown, CloseEnds(o, thrown),
         inbox' \in Seq(GoodReply), pushback' \in GoodReply \cup {None},
         seqDue' \in BOOLEAN, dstate' \in [Modes -> {"closed", "challenged", "open"}],
         dtries' \in 0..MaxTries,
         calls' \in 0..MaxCalls, faults' \in 0..MaxFaults, others' \in 0..MaxOther, strays' \in Nat
  PROVE  IInv'
<1>1. obj \in Socket /\ ~obj.registered
  BY InClose
<1>2. o \in Socket /\ ~o.registered
  BY <1>1, ForceClosedTyped
<1>3. /\ Selected' /\ Hands' /\ Owned' /\ pkt' = None
      /\ pc' \in Places /\ after' \in {None, "fail", "reselect", "destroy"}
      /\ result' \in [Modes -> Results] /\ cur' \in Modes \cup {None} /\ pw' \in Passwords
      /\ obj' \in Socket \cup {None} /\ sock' \in [Modes -> Socket \cup {None}]
      /\ modeSocket' \in [Modes -> Modes \cup {None}]
  BY <1>1, <1>2, CloseEndsKeeps
<1>4. Wire'
  BY <1>3 DEF IInv, Wire
<1>5. inbox' \in Seq(Reply) /\ pushback' \in Reply \cup {None}
  <2>1. (Wire => inbox \in Seq(Reply) /\ pushback \in Reply \cup {None})'
    BY WireTyped, PTL
  <2> QED BY <1>4, <2>1
<1>6. TypeOK'
  BY <1>3, <1>5 DEF IInv, TypeOK, zeroVars
<1> QED BY <1>3, <1>4, <1>6 DEF IInv

LEMMA ResetReplyKeeps ==
  ASSUME IInv, ResetReply
  PROVE  IInv'
<1>1. /\ pc \in ClosePlaces /\ RawReceive /\ UNCHANGED <<zeroVars, reg, cmds>>
      /\ CloseEnds(ForceClosed(obj), FALSE) \/ CloseEnds(obj, TRUE)
  BY DEF ResetReply, ClosePlaces
<1>2. /\ inbox' \in Seq(GoodReply) /\ pushback' = None
      /\ seqDue' \in BOOLEAN /\ dstate' \in [Modes -> {"closed", "challenged", "open"}]
      /\ dtries' \in 0..MaxTries
      /\ calls' \in 0..MaxCalls /\ faults' \in 0..MaxFaults /\ others' \in 0..MaxOther
      /\ strays' \in Nat
  BY <1>1, ReceiveFacts
<1> QED BY <1>1, <1>2, CloseOverKeeps

LEMMA CloseTimeoutKeeps ==
  ASSUME IInv, CloseTimeout
  PROVE  IInv'
<1>1. /\ pc \in ClosePlaces /\ Timeout /\ UNCHANGED <<zeroVars, reg, cmds>>
      /\ CloseEnds(ForceClosed(obj), TRUE) \/ CloseEnds(obj, TRUE)
  BY DEF CloseTimeout, ClosePlaces
<1>2. /\ inbox' \in Seq(GoodReply) /\ pushback' \in GoodReply \cup {None}
      /\ seqDue' \in BOOLEAN /\ dstate' \in [Modes -> {"closed", "challenged", "open"}]
      /\ dtries' \in 0..MaxTries
      /\ calls' \in 0..MaxCalls /\ faults' \in 0..MaxFaults /\ others' \in 0..MaxOther
      /\ strays' \in Nat
  BY <1>1, TimeoutFacts
<1> QED BY <1>1, <1>2, CloseOverKeeps

-----------------------------------------------------------------------------
(* The other calls of the application. *)

LEMMA DestroyModeKeeps ==
  ASSUME IInv, NEW m \in Modes, DestroyMode(m)
  PROVE  IInv'
<1>1. /\ pc = "idle" /\ calls' \in 0..MaxCalls /\ obj = None /\ after = None /\ TypeOK
      /\ UNCHANGED <<zeroVars, sock, reg, pw, pkt, cmds, devVars, wireVars, faults, others>>
  BY SocketZeroAssumption DEF DestroyMode, Call, IInv, TypeOK, Hands
<1>2. \/ /\ sock[m] # None /\ obj' = sock[m] /\ after' = "destroy" /\ cur' = m /\ pc' = "closing"
         /\ UNCHANGED <<modeSocket, result>>
      \/ /\ sock[m] = None /\ modeSocket' = [modeSocket EXCEPT ![m] = None]
         /\ result' = [result EXCEPT ![m] = "none"] /\ UNCHANGED <<pc, cur, obj, after>>
  BY DEF DestroyMode
<1>3. Wire'
  BY <1>1 DEF IInv, Wire, wireVars
<1>4. TypeOK'
  BY <1>1, <1>2 DEF TypeOK, Places, Results, zeroVars, devVars, wireVars
<1>5. Selected'
  <2>1. \A k \in Modes : sock[k] # None => modeSocket'[k] # None
    BY <1>1, <1>2 DEF IInv, Selected, TypeOK
  <2> QED BY <1>1, <1>2, <2>1 DEF IInv, Selected
<1>6. Hands'
  BY <1>1, <1>2, NullAssumption DEF Hands, OpenPlaces, ClosePlaces
<1>7. Owned'
  <2>1. CASE UNCHANGED <<cur, obj, after>>
    BY <1>1, <2>1, SameOwners DEF IInv
  <2>2. CASE sock[m] # None /\ obj' = sock[m] /\ after' = "destroy" /\ cur' = m
    <3>1. \A k \in Modes : Live(k) <=> sock[k] # None
      BY <1>1 DEF Live
    <3>2. \A k \in Modes : Live(k)' <=> k # m /\ sock[k] # None
      BY <1>1, <2>2 DEF Live
    <3>3. \A s \in Modes : ~Mine(s) /\ (Mine(s)' <=> Holds(m, s))
      BY <1>1, <2>2, <3>1 DEF Mine, Holds
    <3>4. \A s, k \in Modes : Holds(k, s)' <=> k # m /\ Holds(k, s)
      BY <1>1, <3>1, <3>2 DEF Holds
    <3> QED BY <1>1, <3>3, <3>4 DEF Owned, IInv
  <2> QED BY <1>2, <2>1, <2>2
<1> QED BY <1>3, <1>4, <1>5, <1>6, <1>7 DEF IInv

LEMMA ResetOnCloseKeeps ==
  ASSUME IInv, NEW m \in Modes, ResetOnClose(m)
  PROVE  IInv'
<1>1. /\ pc = "idle" /\ calls' \in 0..MaxCalls /\ obj = None /\ TypeOK /\ sock[m] # None
      /\ sock' = [sock EXCEPT ![m].reset = TRUE]
      /\ UNCHANGED <<zeroVars, modeSocket, reg, result, callVars, cmds, devVars, wireVars,
                     faults, others>>
  BY SocketZeroAssumption DEF ResetOnClose, Call, IInv, TypeOK, Hands
<1>2. sock[m] \in Socket /\ sock \in [Modes -> Socket \cup {None}]
  BY <1>1 DEF TypeOK
<1> DEFINE x == [sock[m] EXCEPT !.reset = TRUE]
<1>3. /\ x \in Socket /\ x.registered = sock[m].registered /\ x.socket = sock[m].socket
      /\ sock' = [sock EXCEPT ![m] = x]
  BY <1>1, <1>2 DEF Socket
<1> HIDE DEF x
<1>4. /\ sock' \in [Modes -> Socket \cup {None}] /\ sock'[m] = x /\ x # None
      /\ \A k \in Modes : k # m => sock'[k] = sock[k]
  BY <1>2, <1>3, NullAssumption
<1>5. Wire'
  BY <1>1 DEF IInv, Wire, wireVars, callVars
<1>6. TypeOK'
  BY <1>1, <1>4 DEF TypeOK, zeroVars, callVars, devVars, wireVars
<1>7. Selected'
  BY <1>1, <1>3, <1>4 DEF IInv, Selected, callVars
<1>8. Hands'
  BY <1>1 DEF IInv, Hands, OpenPlaces, ClosePlaces, callVars
<1>9. Owned'
  <2>1. \A k \in Modes : Live(k)' <=> Live(k)
    BY <1>1, <1>4 DEF Live, callVars
  <2>2. \A k, s \in Modes : Holds(k, s)' <=> Holds(k, s)
    BY <1>3, <1>4, <2>1 DEF Holds
  <2>3. \A s \in Modes : Mine(s)' <=> Mine(s)
    BY <1>1 DEF Mine, callVars
  <2> QED BY <1>1, <2>2, <2>3 DEF IInv, Owned
<1> QED BY <1>5, <1>6, <1>7, <1>8, <1>9 DEF IInv

-----------------------------------------------------------------------------
LEMMA InitIInv == Init => IInv
<1> SUFFICES ASSUME Init PROVE IInv
  OBVIOUS
<1>1. Wire
  BY DEF Init, Wire
<1>2. TypeOK
  <2>1. 0 \in 0..MaxTries /\ 0 \in 0..MaxCalls /\ 0 \in 0..MaxFaults /\ 0 \in 0..MaxOther
    BY SocketZeroAssumption
  <2>2. cmds \in Seq(Command) /\ inbox \in Seq(Reply)
    BY <1>1, WireTyped
  <2>3. pc \in Places /\ pw \in Passwords /\ result \in [Modes -> Results]
    BY DEF Init, Places, Passwords, Results
  <2> QED BY <2>1, <2>2, <2>3 DEF Init, TypeOK
<1>3. Selected /\ Hands
  BY DEF Init, Selected, Hands, OpenPlaces, ClosePlaces
<1>4. Owned
  BY DEF Init, Owned, Mine, Holds, Live
<1> QED BY <1>1, <1>2, <1>3, <1>4 DEF IInv

LEMMA StepIInv == IInv /\ [Next]_vars => IInv'
<1> SUFFICES ASSUME IInv, [Next]_vars PROVE IInv'
  OBVIOUS
<1>1. ASSUME NEW m \in Modes, NEW p \in Passwords, ModeOpen(m, p) \/ RetryPassword(m, p) PROVE IInv'
  BY <1>1, ModeOpenKeeps, RetryPasswordKeeps
<1>2. ASSUME NEW m \in Modes, DestroyMode(m) \/ ResetOnClose(m) \/ SocketReceive(m) PROVE IInv'
  BY <1>2, DestroyModeKeeps, ResetOnCloseKeeps, SocketReceiveKeeps
<1>3. CASE Library
  BY <1>3, SelectModeKeeps, ModeSelectedKeeps, ModeTimeoutKeeps, OpenBeginKeeps, OpenReplyKeeps,
     AnswerChallengeKeeps, HashReplyKeeps, OpenedCheckKeeps, AwaitSequenceKeeps, LateSequenceKeeps,
     OpenTimeoutKeeps, LocalCloseKeeps, CloseReplyKeeps, ResetReplyKeeps, CloseTimeoutKeeps
     DEF Library
<1>4. CASE Device \/ DeviceOther \/ CommandLost
  BY <1>4, DeviceKeeps
<1>5. CASE UNCHANGED vars
  <2>1. UNCHANGED <<zeroVars, modeVars, callVars>>
        /\ UNCHANGED <<devVars, wireVars, cmds, calls, faults, others>>
    BY <1>5 DEF vars
  <2> QED BY <2>1, OutsideKeeps DEF IInv, TypeOK, Wire, devVars, wireVars
<1> QED BY <1>1, <1>2, <1>3, <1>4, <1>5, Zenon DEF Next, Application

LEMMA Invariant == Spec => []IInv
  BY InitIInv, StepIInv, PTL DEF Spec

(* Every member, packet and counter keeps its range: the tries that a device
   reports, the sequence that wraps around, the one slot of Pushback. *)
THEOREM TypeCorrect == Spec => []TypeOK
<1>1. IInv => TypeOK
  BY DEF IInv
<1> QED BY <1>1, Invariant, PTL

(* Whatever the device answers, however late, and wherever Open or Close throws:
   a socket is registered with the router exactly while one live Socket answers
   for it (socket.cc:1045, 1068, 1145). *)
THEOREM RegistrationsFollowSockets == Spec => []RegistrationsOwned
<1>1. IInv => RegistrationsOwned
  BY OwnedMeans DEF IInv
<1> QED BY <1>1, Invariant, PTL

(* The std::logic_error in Socket::Opened, "not previously registered", is never
   thrown: with a router the Socket that Open works on is registered from
   Opening to Opened, for a socket that is not 0 (socket.cc:1166). *)
THEOREM OpenedIsRegistered == Spec => [](pc \in OpenPlaces /\ HasQueue => obj.registered /\ obj.socket # None)
<1>1. IInv => (pc \in OpenPlaces /\ HasQueue => obj.registered /\ obj.socket # None)
  BY DEF IInv, Hands
<1> QED BY <1>1, Invariant, PTL
=============================================================================
