----------------------------- MODULE SocketZero -----------------------------
(***************************************************************************)
(* Opening and closing logical sockets: Barry::SocketZero and Barry::Socket*)
(* (src/src/socket.cc, socket.h), Controller::SelectMode and OpenSocket    *)
(* (controller.cc) and the base class of the modes (m_mode_base.cc), with  *)
(* the handheld at the other end of the cable.                             *)
(*                                                                         *)
(* The application makes one call at a time, and a call goes from one block*)
(* of code to the next, or to the next RawReceive, in one step.  The device*)
(* is external: it answers commands in order, perhaps later than the       *)
(* library is willing to wait, and sends the sequence packet that follows  *)
(* SELECT_MODE when it likes.                                              *)
(* A BulkWrite that fails is a command that gets lost and is then missed:  *)
(* the library takes the same path for both.                               *)
(*                                                                         *)
(* The device names the socket of a mode by the mode itself.  The sequence *)
(* ids that CheckSequence follows are left out: it is only called for      *)
(* socket 0, for which it accepts any id.                                  *)
(***************************************************************************)
EXTENDS Integers, Sequences

CONSTANTS Modes,        \* the modes in use, and their sockets' numbers
          None,         \* null pointer; socket number 0
          HasQueue,     \* m_queue is set (else packets are read from m_dev)
          MinTries,     \* BARRY_MIN_PASSWORD_TRIES
          MaxTries,     \* the password tries a device starts with
          SeqMod,       \* the range of m_zeroSocketSequence, 256
          MaxCalls,     \* bound: calls the application makes
          MaxFaults,    \* bound: commands lost and answers not waited for
          MaxOther,     \* bound: packets that arrive out of turn
          MaxInbox,     \* bound: packets that wait to be read
          AsDocumented  \* RetryPassword only follows BadPassword, and Open
                        \* only a success or nothing

ASSUME SocketZeroAssumption ==
    /\ None \notin Modes
    /\ HasQueue \in BOOLEAN /\ AsDocumented \in BOOLEAN
    /\ MinTries \in Nat \ {0} /\ MaxTries \in Nat /\ SeqMod \in Nat \ {0}
    /\ MaxCalls \in Nat /\ MaxFaults \in Nat /\ MaxOther \in Nat /\ MaxInbox \in Nat

VARIABLES
    \* members of SocketZero
    zseq,       \* m_zeroSocketSequence
    halfOpen,   \* m_halfOpen
    remaining,  \* m_remainingTries
    seed,       \* m_challengeSeed: the socket whose challenge it is from
    seqSeen,    \* m_modeSequencePacketSeen
    pushback,   \* m_pushback_buffer, None when m_pushback is false
    \* the Mode objects, and the router's registrations
    modeSocket, \* modeSocket[m]: m_ModeSocket
    sock,       \* sock[m]: what m_socket points to
    reg,        \* reg[s]: the InterestType registered for s, or None
    \* the call in progress
    pc,         \* where it is
    cur,        \* the mode it is made on
    pw,         \* the password passed to it
    obj,        \* the Socket being opened or closed
    pkt,        \* the packet received last, while it is still needed
    after,      \* why obj is being closed
    result,     \* result[m]: how the last call on m ended
    \* the device and the cable
    cmds,       \* commands the device has not answered
    inbox,      \* packets for socket 0 that were not read
    seqDue,     \* the device still has to send the mode's sequence packet
    dstate,     \* dstate[s]: the socket as the device sees it
    dtries,     \* password tries left on the device
    strays,     \* sequence packets that were taken for the answer to a command
    calls, faults, others

zeroVars == <<zseq, halfOpen, remaining, seed, seqSeen>>
modeVars == <<modeSocket, sock, reg, result>>
callVars == <<pc, cur, pw, obj, pkt, after>>
devVars == <<seqDue, dstate, dtries>>
wireVars == <<pushback, inbox, strays>>
vars == <<zeroVars, modeVars, callVars, devVars, wireVars, cmds, calls, faults, others>>

Passwords == {"none", "wrong", "right"}
Results == {"none", "ok", "badpassword", "error"}
Sequences8 == 0..(SeqMod - 1)
Commands == {"SELECT_MODE", "OPEN_SOCKET", "PASSWORD", "CLOSE_SOCKET", "RESET"}
Replies == {"MODE_SELECTED", "MODE_NOT_SELECTED", "OPENED_SOCKET",
            "PASSWORD_CHALLENGE", "PASSWORD_FAILED", "CLOSE_SOCKET",
            "CLOSED_SOCKET", "RESET_REPLY", "SEQUENCE", "OTHER"}
Command == [command : Commands, socket : Modes \cup {None}, sequence : Sequences8,
            password : Passwords, seed : Modes \cup {None}]
Reply == [command : Replies, socket : Modes \cup {None}, sequence : Sequences8,
          tries : 0..MaxTries]
Socket == [socket : Modes \cup {None}, closeFlag : Sequences8,
           registered : BOOLEAN, reset : BOOLEAN]
Places == {"idle", "select", "mode", "opening", "open", "open2", "challenge", "hash",
           "hash2", "opened", "sequence", "late", "closing", "close", "close2",
           "reset", "crashed"}

(* A null pointer is no object and no constant of the code. *)
ASSUME NullAssumption ==
    None \notin Socket \cup Reply \cup {"data", "sequence_and_data", "fail", "reselect", "destroy"}

TypeOK ==
    /\ zseq \in Sequences8
    /\ halfOpen \in BOOLEAN /\ remaining \in 0..MaxTries /\ seqSeen \in BOOLEAN
    /\ seed \in Modes \cup {None}
    /\ pushback \in Reply \cup {None}
    /\ modeSocket \in [Modes -> Modes \cup {None}]
    /\ sock \in [Modes -> Socket \cup {None}]
    /\ reg \in [Modes -> {None, "data", "sequence_and_data"}]
    /\ pc \in Places
    /\ cur \in Modes \cup {None}
    /\ pw \in Passwords
    /\ obj \in Socket \cup {None}
    /\ pkt \in Reply \cup {None}
    /\ after \in {None, "fail", "reselect", "destroy"}
    /\ result \in [Modes -> Results]
    /\ cmds \in Seq(Command) /\ inbox \in Seq(Reply)
    /\ seqDue \in BOOLEAN
    /\ dstate \in [Modes -> {"closed", "challenged", "open"}]
    /\ dtries \in 0..MaxTries
    /\ strays \in Nat
    /\ calls \in 0..MaxCalls /\ faults \in 0..MaxFaults /\ others \in 0..MaxOther

Init ==
    /\ zseq \in Sequences8     \* the probe has used some already
    /\ halfOpen = FALSE /\ remaining = 0 /\ seed = None /\ seqSeen = FALSE
    /\ pushback = None
    /\ modeSocket = [m \in Modes |-> None]
    /\ sock = [m \in Modes |-> None]
    /\ reg = [m \in Modes |-> None]
    /\ pc = "idle" /\ cur = None /\ pw = "none" /\ obj = None /\ pkt = None
    /\ after = None
    /\ result = [m \in Modes |-> "none"]
    /\ cmds = <<>> /\ inbox = <<>> /\ seqDue = FALSE
    /\ dstate = [m \in Modes |-> "closed"]
    /\ dtries \in 0..MaxTries
    /\ strays = 0 /\ calls = 0 /\ faults = 0 /\ others = 0

-----------------------------------------------------------------------------
(* RawSend: the packet carries m_zeroSocketSequence as it is. *)
RawSend(c, s, p) ==
    cmds' = Append(cmds, [command |-> c, socket |-> s, sequence |-> zseq,
                          password |-> p, seed |-> seed])

(* Send: as RawSend, and the sequence advances, a uint8_t. *)
Send(c, s) ==
    /\ RawSend(c, s, "none")
    /\ zseq' = (zseq + 1) % SeqMod

(* RawReceive: the packet that was pushed back, else the next one. *)
Readable == pushback # None \/ inbox # <<>>
Received == IF pushback # None THEN pushback ELSE Head(inbox)

InboxAfter == IF pushback # None THEN inbox ELSE Tail(inbox)

IsSequence(p) == p.command = "SEQUENCE"

(* The reads that take what comes for the answer to a command. *)
AnswerOnly == {"mode", "open2", "hash2", "close2", "reset"}

RawReceive ==
    /\ Readable
    /\ inbox' = InboxAfter /\ pushback' = None
    /\ strays' = strays + (IF IsSequence(Received) /\ pc \in AnswerOnly THEN 1 ELSE 0)
    /\ UNCHANGED <<devVars, calls, faults, others>>

(* RawReceive throws Usb::Timeout: nothing came, because nothing will or   *)
(* because the device is late.                                             *)
Timeout ==
    /\ ~Readable
    /\ \/ cmds = <<>> /\ ~seqDue /\ UNCHANGED faults
       \/ faults < MaxFaults /\ faults' = faults + 1
    /\ UNCHANGED <<wireVars, devVars, calls, others>>

-----------------------------------------------------------------------------
Call == pc = "idle" /\ calls < MaxCalls /\ calls' = calls + 1

(* The call ends. *)
Return(r) ==
    /\ pc' = "idle" /\ cur' = None /\ pw' = "none"
    /\ obj' = None /\ pkt' = None /\ after' = None
    /\ result' = r

(* Mode::Open: a mode that was opened before closes its socket first; the  *)
(* code calls m_socket->Close() because m_ModeSocket is set, and crashes   *)
(* when the Open that set it did not succeed.                              *)
ModeOpen(m, p) ==
    /\ Call
    /\ AsDocumented => (modeSocket[m] # None => sock[m] # None)
    /\ cur' = m /\ pw' = p
    /\ \/ /\ modeSocket[m] = None
          /\ pc' = "select"
          /\ UNCHANGED <<obj, after>>
       \/ /\ modeSocket[m] # None /\ sock[m] # None
          /\ obj' = sock[m] /\ after' = "reselect"
          /\ pc' = "closing"
       \/ /\ modeSocket[m] # None /\ sock[m] = None
          /\ pc' = "crashed"
          /\ UNCHANGED <<obj, after>>
    /\ UNCHANGED <<zeroVars, modeVars, pkt, cmds, devVars, wireVars, faults, others>>

SelectMode ==
    /\ pc = "select"
    /\ Send("SELECT_MODE", cur)
    /\ pc' = "mode"
    /\ UNCHANGED <<halfOpen, remaining, seed, seqSeen, modeVars, cur, pw, obj, pkt, after,
                   devVars, wireVars, calls, faults, others>>

(* SelectMode's answer. *)
ModeSelected ==
    /\ pc = "mode" /\ RawReceive
    /\ IF Received.command = "MODE_SELECTED"
       THEN /\ modeSocket' = [modeSocket EXCEPT ![cur] = Received.socket]
            /\ pc' = "opening"
            /\ UNCHANGED <<cur, pw, obj, pkt, after, result>>
       ELSE Return([result EXCEPT ![cur] = "error"]) /\ UNCHANGED modeSocket
    /\ UNCHANGED <<zeroVars, sock, reg, cmds>>

ModeTimeout ==
    /\ pc = "mode" /\ Timeout
    /\ Return([result EXCEPT ![cur] = "error"])
    /\ UNCHANGED <<zeroVars, modeSocket, sock, reg, cmds>>

RetryPassword(m, p) ==
    /\ Call
    /\ modeSocket[m] # None /\ sock[m] = None
    /\ AsDocumented => result[m] = "badpassword"
    /\ pc' = "opening" /\ cur' = m /\ pw' = p
    /\ UNCHANGED <<zeroVars, modeVars, obj, pkt, after, devVars, wireVars, cmds, faults, others>>

-----------------------------------------------------------------------------
(* SocketZero::Open, one action for each block between two reads. *)

(* Socket(s) and its Opening(), which throws if s is registered; then      *)
(* SendOpen, unless the device is known to wait for a password.            *)
OpenBegin ==
    LET s == modeSocket[cur]
        free == HasQueue => reg[s] = None
    IN
    /\ pc = "opening"
    /\ obj' = [socket |-> s, closeFlag |-> zseq, registered |-> HasQueue /\ free, reset |-> FALSE]
    /\ reg' = IF HasQueue /\ free THEN [reg EXCEPT ![s] = "data"] ELSE reg
    /\ \/ /\ ~free
          /\ pc' = "closing" /\ after' = "fail"
          /\ result' = [result EXCEPT ![cur] = "error"]
          /\ UNCHANGED <<zeroVars, cmds>>
       \/ /\ free /\ halfOpen
          /\ pc' = "challenge"
          /\ UNCHANGED <<zeroVars, cmds, after, result>>
       \/ /\ free /\ ~halfOpen
          /\ remaining' = 0 /\ seqSeen' = FALSE
          /\ RawSend("OPEN_SOCKET", s, "none")
          /\ pc' = "open"
          /\ UNCHANGED <<zseq, halfOpen, seed, after, result>>
    /\ UNCHANGED <<cur, pw, pkt, modeSocket, sock, devVars, wireVars, calls, faults, others>>

(* Mutant: the Socket is not closed when Open throws. *)
OpenThrows_leak(how) ==
    /\ pc' = "idle" /\ after' = None /\ pkt' = None
    /\ result' = [result EXCEPT ![cur] = how]

(* Open throws: the SocketHandle goes out of scope. *)
OpenThrows(how) ==
    /\ pc' = "closing" /\ after' = "fail" /\ pkt' = None
    /\ result' = [result EXCEPT ![cur] = how]

(* SendOpen's answer: the first packet, or the one after a sequence packet. *)
OpenReply ==
    /\ pc \in {"open", "open2"} /\ RawReceive
    /\ \/ /\ pc = "open" /\ IsSequence(Received)
          /\ seqSeen' = TRUE /\ pc' = "open2"
          /\ UNCHANGED <<halfOpen, remaining, seed, pkt>>
       \/ /\ pc = "open2" \/ ~IsSequence(Received)
          /\ UNCHANGED seqSeen
          /\ IF Received.command = "PASSWORD_CHALLENGE"
             THEN /\ halfOpen' = TRUE /\ remaining' = Received.tries /\ seed' = Received.socket
                  /\ pc' = "challenge" /\ UNCHANGED pkt
             ELSE /\ pc' = "opened" /\ pkt' = Received
                  /\ UNCHANGED <<halfOpen, remaining, seed>>
    /\ UNCHANGED <<zseq, modeVars, cur, pw, obj, after, cmds>>

(* Mutant: one try too few is enough. *)
EnoughTries_offByOne == remaining + 1 >= MinTries

EnoughTries == remaining >= MinTries

(* The half-open part: refuse, or send the hash of the password. *)
AnswerChallenge ==
    /\ pc = "challenge"
    /\ \/ /\ pw = "none" \/ ~EnoughTries
          /\ OpenThrows("badpassword")
          /\ UNCHANGED cmds
       \/ /\ pw # "none" /\ EnoughTries
          /\ RawSend("PASSWORD", obj.socket, pw)
          /\ pc' = "hash"
          /\ UNCHANGED <<after, pkt, result>>
    /\ UNCHANGED <<zeroVars, modeSocket, sock, reg, cur, pw, obj, devVars, wireVars, calls, faults, others>>

HashReply ==
    /\ pc \in {"hash", "hash2"} /\ RawReceive
    /\ \/ /\ pc = "hash" /\ IsSequence(Received)
          /\ seqSeen' = TRUE /\ pc' = "hash2"
          /\ UNCHANGED <<halfOpen, remaining, seed, pkt, after, result>>
       \/ /\ pc = "hash2" \/ ~IsSequence(Received)
          /\ UNCHANGED seqSeen
          /\ IF Received.command = "PASSWORD_FAILED"
             THEN /\ halfOpen' = TRUE /\ remaining' = Received.tries /\ seed' = Received.socket
                  /\ OpenThrows("badpassword")
             ELSE /\ halfOpen' = FALSE
                  /\ pc' = "opened" /\ pkt' = Received
                  /\ UNCHANGED <<remaining, seed, after, result>>
    /\ UNCHANGED <<zseq, modeSocket, sock, reg, cur, pw, obj, cmds>>

(* Success: Opened() completes the registration. *)
Opened ==
    /\ Return([result EXCEPT ![cur] = "ok"])
    /\ sock' = [sock EXCEPT ![cur] = obj]
    /\ reg' = IF HasQueue THEN [reg EXCEPT ![obj.socket] = "sequence_and_data"] ELSE reg

(* The closeFlag saved before the hash was sent is the Socket's own: no    *)
(* step of Open advances the sequence.                                     *)
OpenedCheck ==
    LET good == /\ pkt.command = "OPENED_SOCKET"
                /\ pkt.socket = obj.socket /\ pkt.sequence = obj.closeFlag
    IN
    /\ pc = "opened"
    /\ \/ ~good /\ OpenThrows("error") /\ UNCHANGED <<cur, pw, obj, sock, reg>>
       \/ good /\ seqSeen /\ Opened
       \/ good /\ ~seqSeen /\ pc' = "sequence" /\ pkt' = None
          /\ UNCHANGED <<cur, pw, obj, after, sock, reg, result>>
    /\ UNCHANGED <<zeroVars, modeSocket, devVars, wireVars, cmds, calls, faults, others>>

(* The mode's sequence packet has not come yet: read it here, allowing for *)
(* one packet that overtook it.                                            *)
AwaitSequence ==
    /\ pc = "sequence" /\ RawReceive
    /\ \/ IsSequence(Received) /\ Opened
       \/ ~IsSequence(Received) /\ pc' = "late" /\ pkt' = Received
          /\ UNCHANGED <<cur, pw, obj, after, sock, reg, result>>
    /\ UNCHANGED <<zeroVars, modeSocket, cmds>>

(* Pushback: the read has emptied its one slot, so it never throws. *)
LateSequence ==
    /\ pc = "late" /\ Readable
    /\ inbox' = InboxAfter /\ UNCHANGED strays
    /\ \/ /\ IsSequence(Received)
          /\ Opened /\ pushback' = pkt
       \/ /\ ~IsSequence(Received)
          /\ OpenThrows("error") /\ pushback' = None
          /\ UNCHANGED <<cur, pw, obj, sock, reg>>
    /\ UNCHANGED <<zeroVars, modeSocket, cmds, devVars, calls, faults, others>>

OpenTimeout ==
    /\ pc \in {"open", "open2", "hash", "hash2", "sequence", "late"} /\ Timeout
    /\ OpenThrows("error")
    /\ UNCHANGED <<zeroVars, modeSocket, sock, reg, cur, pw, obj, cmds>>

-----------------------------------------------------------------------------
(* Socket::LocalClose and SocketZero::Close. *)

ForceClosed(o) == [o EXCEPT !.socket = None, !.closeFlag = 0]

(* Close ends and leaves the Socket as o.  ~Socket, in a failed Open or in *)
(* ~Mode, ignores an exception; Mode::Open passes it on, and without one   *)
(* goes on to select the mode again.                                       *)
CloseEnds(o, thrown) ==
    \/ /\ after = "fail"
       /\ Return(result)
       /\ UNCHANGED <<modeSocket, sock>>
    \/ /\ after = "destroy"
       /\ Return([result EXCEPT ![cur] = "none"])
       /\ modeSocket' = [modeSocket EXCEPT ![cur] = None]
       /\ sock' = [sock EXCEPT ![cur] = None]
    \/ /\ after = "reselect" /\ thrown
       /\ Return([result EXCEPT ![cur] = "error"])
       /\ sock' = [sock EXCEPT ![cur] = o]
       /\ UNCHANGED modeSocket
    \/ /\ after = "reselect" /\ ~thrown
       /\ modeSocket' = [modeSocket EXCEPT ![cur] = None]
       /\ sock' = [sock EXCEPT ![cur] = None]
       /\ pc' = "select" /\ obj' = None /\ pkt' = None /\ after' = None
       /\ UNCHANGED <<cur, pw, result>>

(* Mutant: nothing is unregistered. *)
UnregisterInterest_skipped(o) == reg

(* LocalClose: unregister, then send CLOSE_SOCKET unless the Socket was    *)
(* closed before.                                                          *)
UnregisterInterest(o) == IF o.registered THEN [reg EXCEPT ![o.socket] = None] ELSE reg

LocalClose ==
    LET o == [obj EXCEPT !.registered = FALSE] IN
    /\ pc = "closing"
    /\ reg' = UnregisterInterest(obj)
    /\ \/ /\ obj.socket = None
          /\ CloseEnds(o, FALSE)
          /\ UNCHANGED <<zeroVars, cmds>>
       \/ /\ obj.socket # None
          /\ Send("CLOSE_SOCKET", obj.socket)
          /\ obj' = o /\ pc' = "close"
          /\ UNCHANGED <<halfOpen, remaining, seed, seqSeen, modeSocket, sock, result, cur, pw, pkt, after>>
    /\ UNCHANGED <<devVars, wireVars, calls, faults, others>>

(* Close's answer: the first packet, or the one after a sequence packet.   *)
(* CLOSED_SOCKET stands for REMOTE_CLOSE_SOCKET too.                       *)
CloseReply ==
    LET good == /\ Received.command = "CLOSED_SOCKET"
                /\ Received.socket = obj.socket /\ Received.sequence = obj.closeFlag
    IN
    /\ pc \in {"close", "close2"} /\ RawReceive
    /\ \/ /\ pc = "close" /\ IsSequence(Received)
          /\ pc' = "close2"
          /\ UNCHANGED <<zseq, cmds, modeSocket, sock, result, cur, pw, obj, pkt, after>>
       \/ /\ pc = "close2" \/ ~IsSequence(Received)
          /\ \/ ~good /\ CloseEnds(ForceClosed(obj), TRUE) /\ UNCHANGED <<zseq, cmds>>
             \/ good /\ ~obj.reset /\ CloseEnds(ForceClosed(obj), FALSE) /\ UNCHANGED <<zseq, cmds>>
             \/ good /\ obj.reset /\ Send("RESET", None) /\ pc' = "reset"
                /\ UNCHANGED <<modeSocket, sock, result, cur, pw, obj, pkt, after>>
    /\ UNCHANGED <<halfOpen, remaining, seed, seqSeen, reg>>

ResetReply ==
    /\ pc = "reset" /\ RawReceive
    /\ \/ Received.command = "RESET_REPLY" /\ CloseEnds(ForceClosed(obj), FALSE)
       \/ Received.command # "RESET_REPLY" /\ CloseEnds(obj, TRUE)
    /\ UNCHANGED <<zeroVars, reg, cmds>>

(* Mutant: the wait for the answer after a sequence packet has no timeout. *)
CloseTimeout_first ==
    /\ pc \in {"close", "reset"} /\ Timeout
    /\ CloseEnds(IF pc = "close" THEN ForceClosed(obj) ELSE obj, TRUE)
    /\ UNCHANGED <<zeroVars, reg, cmds>>

(* Only the first read of Close catches Usb::Error and forces the Socket   *)
(* closed.                                                                 *)
CloseTimeout ==
    /\ pc \in {"close", "close2", "reset"} /\ Timeout
    /\ CloseEnds(IF pc = "close" THEN ForceClosed(obj) ELSE obj, TRUE)
    /\ UNCHANGED <<zeroVars, reg, cmds>>

-----------------------------------------------------------------------------
(* Other calls of the application. *)

(* ~Mode, and a new Mode object in its place. *)
DestroyMode(m) ==
    /\ Call
    /\ \/ /\ sock[m] # None
          /\ obj' = sock[m] /\ after' = "destroy" /\ cur' = m
          /\ pc' = "closing"
          /\ UNCHANGED <<modeSocket, result>>
       \/ /\ sock[m] = None /\ modeSocket[m] # None
          /\ modeSocket' = [modeSocket EXCEPT ![m] = None]
          /\ result' = [result EXCEPT ![m] = "none"]
          /\ UNCHANGED <<pc, cur, obj, after>>
    /\ UNCHANGED <<zeroVars, sock, reg, pw, pkt, cmds, devVars, wireVars, faults, others>>

(* JavaLoader::StopStream asks for a reset on close. *)
ResetOnClose(m) ==
    /\ Call /\ sock[m] # None /\ ~sock[m].reset
    /\ sock' = [sock EXCEPT ![m].reset = TRUE]
    /\ UNCHANGED <<zeroVars, modeSocket, reg, result, callVars, cmds, devVars, wireVars, faults, others>>

(* Socket::Receive without a routing queue reads what socket 0 reads; it   *)
(* times out when nothing came, and nothing changes.                       *)
SocketReceive(m) ==
    /\ pc = "idle" /\ sock[m] # None /\ ~sock[m].registered
    /\ RawReceive
    /\ UNCHANGED <<zeroVars, modeVars, callVars, cmds>>

-----------------------------------------------------------------------------
(* The device. *)

Arrive(c, s, q, t) ==
    /\ Len(inbox) < MaxInbox
    /\ inbox' = Append(inbox, [command |-> c, socket |-> s, sequence |-> q, tries |-> t])
    /\ UNCHANGED <<pushback, strays, zeroVars, modeVars, callVars>>

Answer(c, t) ==
    /\ Arrive(c, Head(cmds).socket, Head(cmds).sequence, t)
    /\ cmds' = Tail(cmds)
    /\ UNCHANGED <<calls, faults, others>>

Asked(c) == cmds # <<>> /\ Head(cmds).command = c

DeviceSelectMode ==
    /\ Asked("SELECT_MODE")
    /\ \/ Answer("MODE_SELECTED", 0) /\ seqDue' = TRUE
       \/ Answer("MODE_NOT_SELECTED", 0) /\ UNCHANGED seqDue
    /\ UNCHANGED <<dstate, dtries>>

DeviceBecomes(s, st) == dstate' = [dstate EXCEPT ![s] = st]

(* A socket that is open already is closed instead.  Whether a password is *)
(* asked for is the device's choice: its user sets and removes it.         *)
DeviceOpen ==
    LET s == Head(cmds).socket IN
    /\ Asked("OPEN_SOCKET")
    /\ \/ /\ dstate[s] = "open"
          /\ Answer("CLOSE_SOCKET", 0) /\ DeviceBecomes(s, "closed")
       \/ /\ dstate[s] # "open"
          /\ Answer("PASSWORD_CHALLENGE", dtries) /\ DeviceBecomes(s, "challenged")
       \/ /\ dstate[s] # "open"
          /\ Answer("OPENED_SOCKET", 0) /\ DeviceBecomes(s, "open")
    /\ UNCHANGED <<seqDue, dtries>>

DevicePassword ==
    LET s == Head(cmds).socket IN
    /\ Asked("PASSWORD")
    /\ \/ /\ dstate[s] # "challenged"
          /\ Answer("CLOSE_SOCKET", 0) /\ DeviceBecomes(s, "closed")
          /\ UNCHANGED dtries
       \/ /\ dstate[s] = "challenged" /\ Head(cmds).password = "right" /\ Head(cmds).seed = s
          /\ Answer("OPENED_SOCKET", 0) /\ DeviceBecomes(s, "open")
          /\ dtries' = MaxTries
       \/ /\ dstate[s] = "challenged" /\ dtries > 0
          /\ Head(cmds).password = "wrong" \/ Head(cmds).seed # s
          /\ Answer("PASSWORD_FAILED", dtries - 1) /\ dtries' = dtries - 1
          /\ UNCHANGED dstate
    /\ UNCHANGED seqDue

(* A CLOSE_SOCKET for a socket that waits for a password may or may not    *)
(* end the wait.                                                           *)
DeviceClose ==
    LET s == Head(cmds).socket IN
    /\ Asked("CLOSE_SOCKET")
    /\ Answer("CLOSED_SOCKET", 0)
    /\ \/ DeviceBecomes(s, "closed")
       \/ dstate[s] = "challenged" /\ UNCHANGED dstate
    /\ UNCHANGED <<seqDue, dtries>>

DeviceReset ==
    /\ Asked("RESET")
    /\ Answer("RESET_REPLY", 0)
    /\ UNCHANGED devVars

DeviceSequence ==
    /\ seqDue
    /\ Arrive("SEQUENCE", None, 0, 0)
    /\ seqDue' = FALSE
    /\ UNCHANGED <<dstate, dtries, cmds, calls, faults, others>>

(* Some devices send another packet before the sequence packet. *)
DeviceOther ==
    /\ seqDue /\ others < MaxOther
    /\ Arrive("OTHER", None, 0, 0)
    /\ others' = others + 1
    /\ UNCHANGED <<devVars, cmds, calls, faults>>

CommandLost ==
    /\ cmds # <<>> /\ faults < MaxFaults
    /\ cmds' = Tail(cmds) /\ faults' = faults + 1
    /\ UNCHANGED <<zeroVars, modeVars, callVars, devVars, wireVars, calls, others>>

Device == \/ DeviceSelectMode \/ DeviceOpen \/ DevicePassword \/ DeviceClose
          \/ DeviceReset \/ DeviceSequence

(* The library's steps within a call. *)
Library == \/ SelectMode \/ ModeSelected \/ ModeTimeout
           \/ OpenBegin \/ OpenReply \/ AnswerChallenge \/ HashReply
           \/ OpenedCheck \/ AwaitSequence \/ LateSequence \/ OpenTimeout
           \/ LocalClose \/ CloseReply \/ ResetReply \/ CloseTimeout

Application == \E m \in Modes :
    \/ \E p \in Passwords : ModeOpen(m, p) \/ RetryPassword(m, p)
    \/ DestroyMode(m) \/ ResetOnClose(m) \/ SocketReceive(m)

Next == Application \/ Library \/ Device \/ DeviceOther \/ CommandLost

Spec == Init /\ [][Next]_vars

FairSpec == Spec /\ WF_vars(Library) /\ WF_vars(Device)

-----------------------------------------------------------------------------
(* Correctness *)

InFlight(c) == {i \in DOMAIN cmds : cmds[i].command = c}

(* Open's comment "only allow password attempts if there are               *)
(* BARRY_MIN_PASSWORD_TRIES or more tries remaining" is about the library's*)
(* copy of the number.  Of the device's own number, at whose end it erases *)
(* itself: while a password hash is on its way there are that many tries   *)
(* left, less one for each command that got lost, each answer that was not *)
(* waited for, each packet out of turn and each sequence packet taken for  *)
(* an answer.  Each of these lets one wrong password go by uncounted, and  *)
(* none, through all the later calls that it sets out of step, lets two.   *)
HashWithinTries == InFlight("PASSWORD") # {} => dtries + faults + others + strays >= MinTries

(* A socket is registered with the router exactly while one live Socket    *)
(* object answers for it, however Open, Close, ~Socket and ~Mode ended:    *)
(* none is left behind by a failed Open (it could never be opened again),  *)
(* and none is shared.                                                     *)
Objects == {x \in {<<m, sock[m]>> : m \in {k \in Modes : sock[k] # None /\ ~(obj # None /\ k = cur /\ after # "fail")}}
                  \cup (IF obj # None THEN {<<None, obj>>} ELSE {}) : x[2].registered}

RegistrationsOwned ==
    /\ \A s \in Modes : reg[s] # None <=> \E x \in Objects : x[2].socket = s
    /\ \A x, y \in Objects : x[2].socket = y[2].socket => x = y

(* No socket stays open on the device with nobody to close it, whichever   *)
(* way Open, Close and the destructors ended: when no call is in progress, *)
(* an open socket belongs to some mode's Socket.  A CLOSE_SOCKET that gets *)
(* lost is not sent again, so this is so as long as nothing was lost.      *)
Orphans == {s \in Modes : /\ dstate[s] = "open"
                          /\ \A m \in Modes : sock[m] = None \/ sock[m].socket # s}

NoOrphanSocket == pc = "idle" /\ cmds = <<>> /\ Orphans # {} => faults > 0

(* Every call returns, whatever the device answers and however late. *)
CallReturns == pc # "idle" ~> pc = "idle"
=============================================================================
