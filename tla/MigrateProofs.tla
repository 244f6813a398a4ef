---------------------------- MODULE MigrateProofs ----------------------------
(***************************************************************************)
(* The theorems about the migration dialog, for any devices, databases,    *)
(* passwords and number of migrations: the dialog and its thread keep      *)
(* their types and their turns, the dialog does not go while its thread    *)
(* works, no connection spends the last tries of a device, the two modes   *)
(* that add never touch a record of the target, and a migration that came  *)
(* to its end has moved everything.                                        *)
(***************************************************************************)
EXTENDS Migrate, FiniteSetTheorems, TLAPS

-----------------------------------------------------------------------------
(* The inductive invariant. *)

(* A device as a connection may find it. *)
Lock == [locked : BOOLEAN, left : (MinTries - 1)..MaxTries]
Locks == lock \in [{"source", "target"} -> Lock]

(* The thread has asked something and was not answered. *)
Asked == thread \in Asks /\ wait \in {"sent", "waiting"}

(* At most one event is on its way, and it is what the thread did last. *)
Posted ==
    \/ events = <<>>
    \/ Asked /\ events = <<EventOf[thread]>> /\ gui \in {"loop", "joinClose"}
    \/ thread = "done" /\ events = <<"THREAD_FINISHED">> /\ gui \in {"loop", "joinClose"}

(* What a handler of the GUI thread knows of the thread. *)
Handling ==
    /\ gui \in {"yield", "choose", "signal"} => Asked /\ events = <<>>
    /\ gui = "joinFinish" => thread = "done" /\ events = <<>>

(* The controls are enabled only when no thread is at work. *)
Enabled ==
    /\ enabled => thread \in {"none", "done"} /\ events = <<>> /\ gui = "loop"
    /\ running => thread \notin {"none", "start", "finish", "done"}

(* The parser that writes has the mode that the dialog shows. *)
Writing == thread \in {"look", "pump"} => parser.mode = mode /\ "mode" \in DOMAIN parser

Turns == Posted /\ Handling /\ Enabled
IInv == TypeOK /\ Locks /\ Turns /\ Writing

-----------------------------------------------------------------------------
(* What the connector does to a device. *)
LEMMA ConnectorKeepsLock ==
    ASSUME NEW c, NEW dev \in Lock
    PROVE  /\ Attempt(c, dev).dev \in Lock
           /\ \A r \in TimedOut(c, dev) : r.dev \in Lock
<1>1. Charged(c, dev) \in Lock
  <2>1. CASE Answer(c, dev) = "accepts"
    BY <2>1, MigrateAssumption DEF Charged, Lock
  <2>2. CASE Answer(c, dev) = "rejects"
    <3>1. dev.left >= MinTries
      BY <2>2, MigrateAssumption DEF Answer, Lock
    <3>2. Charged(c, dev) = [dev EXCEPT !.left = @ - 1]
      BY <2>2 DEF Charged
    <3> QED
      BY <3>1, <3>2, MigrateAssumption DEF Lock
  <2>3. CASE Answer(c, dev) \notin {"accepts", "rejects"}
    BY <2>3 DEF Charged
  <2> QED
    BY <2>1, <2>2, <2>3
<1>2. Attempt(c, dev).dev \in Lock
  <2>1. Attempt(c, dev).dev \in {dev, Charged(c, dev)}
    BY DEF Attempt
  <2> QED
    BY <1>1, <2>1
<1>3. ASSUME NEW r \in TimedOut(c, dev)
      PROVE  r.dev \in Lock
  <2>1. r.dev \in {dev, Charged(c, dev)}
    BY DEF TimedOut
  <2> QED
    BY <1>1, <2>1
<1> QED
  BY <1>2, <1>3

(* The lemmas on the steps use the names of the actions only. *)
LEMMA StepLocks ==
    ASSUME Locks, [Next]_vars
    PROVE  Locks'
<1>1. CASE ConnectTurn
  <2>1. PICK r : /\ r = Attempt(conn, lock[Peer]) \/ r \in TimedOut(conn, lock[Peer])
                 /\ lock' = [lock EXCEPT ![Peer] = r.dev]
    BY <1>1 DEF ConnectTurn
  <2>2. CASE Peer \in {"source", "target"}
    <3>1. lock[Peer] \in Lock
      BY <2>2 DEF Locks
    <3>2. r.dev \in Lock
      BY <2>1, <3>1, ConnectorKeepsLock
    <3> QED
      BY <2>1, <2>2, <3>2 DEF Locks
  <2>3. CASE Peer \notin {"source", "target"}
    BY <2>1, <2>3 DEF Locks
  <2> QED
    BY <2>2, <2>3
<1>2. ASSUME ~ConnectTurn PROVE lock' = lock
  BY <1>2 DEF Next, UserStep, GuiStep, ThreadStep, OnMigrateNow, DoSafeClose, JoinReturns, Takes,
        OnThreadFinished, OnCheckDestPin, ScanForDevices, ChooseDevice, OnPromptPassword,
        OnErrorMsg, Signal, MigrateThread, BeginWait, PasswordAnswered, BackupRecord,
        BackupDone, PinAnswered, LookAtNext, RestoreRecord, UsbError, ErrorAnswered,
        ThreadEnding, SendFinished, vars, dialog, devices, pipeline, history
<1> QED
  BY <1>1, <1>2 DEF Locks

(* EventOf of the three questions. *)
LEMMA EventOfAsk ==
    \A k \in Asks : EventOf[k] \in {"PROMPT_PASSWORD", "CHECK_DEST_PIN", "ERROR_MSG"}
BY DEF Asks, EventOf

(* The head of the queue is an event, and after it there is none. *)
LEMMA TakenLast ==
    ASSUME Posted, NEW e, Takes(e)
    PROVE  /\ events' = <<>>
           /\ e = "THREAD_FINISHED" => thread = "done"
           /\ e # "THREAD_FINISHED" => Asked
<1>1. events # <<>> /\ Head(events) = e /\ events' = Tail(events)
  BY DEF Takes
<1>2. CASE Asked /\ events = <<EventOf[thread]>>
  <2>1. Asked /\ e = EventOf[thread] /\ events' = <<>>
    BY <1>1, <1>2
  <2>2. e # "THREAD_FINISHED"
    BY <2>1, EventOfAsk DEF Asked
  <2> QED
    BY <2>1, <2>2
<1>3. CASE thread = "done" /\ events = <<"THREAD_FINISHED">>
  BY <1>1, <1>3
<1> QED
  BY <1>1, <1>2, <1>3 DEF Posted

(* A thread that is not asking and not at its end has an empty queue and an
   idle dialog, or one that joins it. *)
LEMMA ThreadAlone ==
    ASSUME TypeOK, Turns, thread \notin Asks \cup {"done"}
    PROVE  events = <<>> /\ gui \in {"loop", "joinClose"}
BY DEF TypeOK, Turns, Posted, Handling, Asked, Handlers

(* A thread that was answered has an empty queue too. *)
LEMMA AnsweredAlone ==
    ASSUME TypeOK, Turns, thread \in Asks, wait = "woken"
    PROVE  events = <<>> /\ gui \in {"loop", "joinClose"}
BY DEF TypeOK, Turns, Posted, Handling, Asked, Handlers, Asks

(* What a step of the thread that asks nothing leaves. *)
LEMMA GoesOn ==
    ASSUME TypeOK, Turns, events = <<>>, gui \in {"loop", "joinClose"},
           thread \notin {"none", "done"},
           thread' \notin {"none", "done"}, thread' \in {"start", "finish"} => running' = FALSE,
           events' = events, gui' = gui, enabled' = enabled
    PROVE  Turns'
BY DEF Turns, Posted, Handling, Enabled, Asked

LEMMA AsksFirst ==
    ASSUME TypeOK, Turns, events = <<>>, gui \in {"loop", "joinClose"},
           thread \notin {"none", "done"}, NEW kind \in Asks, Ask(kind),
           gui' = gui, enabled' = enabled
    PROVE  Turns'
<1>1. events' = <<EventOf[kind]>> /\ thread' = kind /\ wait' = "sent"
  BY DEF Ask
<1> QED
  BY <1>1 DEF Turns, Posted, Handling, Enabled, Asked, Asks

(* A step of the user or of the GUI thread keeps the turns. *)
LEMMA GuiTurns ==
    ASSUME TypeOK, Turns, UserStep \/ GuiStep
    PROVE  Turns'
<1> USE DEF Turns, Posted, Handling, Enabled, Asked
<1>1. ASSUME NEW m, NEW d, OnMigrateNow(m, d)
      PROVE  Turns'
  <2>1. events' = <<>> /\ gui' = "loop" /\ thread' = "start" /\ enabled' = FALSE /\ running' = FALSE
    BY <1>1 DEF OnMigrateNow
  <2> QED
    BY <2>1
<1>2. CASE DoSafeClose
  BY <1>2 DEF DoSafeClose
<1>3. CASE JoinReturns
  BY <1>3 DEF JoinReturns, AfterFinish
<1>4. CASE OnThreadFinished
  <2>1. events' = <<>> /\ thread = "done" /\ thread' = thread /\ gui = "loop" /\ running' = running
    BY <1>4, TakenLast DEF OnThreadFinished, Takes
  <2>2. ~enabled
    BY <1>4 DEF OnThreadFinished, Takes
  <2>3. gui' = "loop" \/ (gui' = "joinFinish" /\ enabled' = enabled)
    BY <1>4, <2>1 DEF OnThreadFinished
  <2> QED
    BY <2>1, <2>2, <2>3
<1>5. CASE OnCheckDestPin
  <2>1. events' = <<>> /\ Asked /\ thread' = thread /\ wait' = wait /\ gui = "loop" /\ running' = running
    BY <1>5, TakenLast DEF OnCheckDestPin, Takes
  <2> QED
    BY <1>5, <2>1 DEF OnCheckDestPin, Asks
<1>6. CASE ScanForDevices
  BY <1>6 DEF ScanForDevices
<1>7. ASSUME NEW d, ChooseDevice(d)
      PROVE  Turns'
  BY <1>7 DEF ChooseDevice
<1>8. ASSUME NEW pw, OnPromptPassword(pw)
      PROVE  Turns'
  <2>1. events' = <<>> /\ Asked /\ thread' = thread /\ wait' = wait /\ gui = "loop" /\ running' = running
    BY <1>8, TakenLast DEF OnPromptPassword, Takes
  <2> QED
    BY <1>8, <2>1 DEF OnPromptPassword, Asks
<1>9. CASE OnErrorMsg
  <2>1. events' = <<>> /\ Asked /\ thread' = thread /\ wait' = wait /\ gui = "loop" /\ running' = running
    BY <1>9, TakenLast DEF OnErrorMsg, Takes
  <2> QED
    BY <1>9, <2>1 DEF OnErrorMsg, Asks
<1>10. CASE Signal
  BY <1>10 DEF Signal, TypeOK
<1> QED
  BY <1>1, <1>2, <1>3, <1>4, <1>5, <1>6, <1>7, <1>8, <1>9, <1>10 DEF UserStep, GuiStep

(* A step of the thread keeps the turns. *)
LEMMA ThreadTurns ==
    ASSUME TypeOK, Turns, ThreadStep
    PROVE  Turns'
<1> USE DEF Keeps, At
<1>1. CASE MigrateThread
  <2>1. thread = "start" /\ thread' = "connect" /\ events' = events /\ gui' = gui /\ enabled' = enabled
    BY <1>1 DEF MigrateThread
  <2> QED
    BY <2>1, ThreadAlone, GoesOn DEF Asks
<1>2. CASE ConnectTurn
  <2>1. thread = "connect" /\ gui' = gui /\ enabled' = enabled /\ running' = running
    BY <1>2 DEF ConnectTurn
  <2>2. \/ thread' \in {"backup", "look", "connect"} /\ events' = events
        \/ Ask("askPassword") \/ Ask("askError")
    BY <1>2, <2>1 DEF ConnectTurn, Fails
  <2>3. events = <<>> /\ gui \in {"loop", "joinClose"}
    BY <2>1, ThreadAlone DEF Asks
  <2> QED
    BY <2>1, <2>2, <2>3, GoesOn, AsksFirst DEF Asks
<1>3. CASE BeginWait
  BY <1>3 DEF BeginWait, dialog, Turns, Posted, Handling, Enabled, Asked
<1>4. CASE PasswordAnswered
  <2>1. /\ thread \in Asks /\ wait = "woken" /\ thread' \in {"ending", "connect"}
        /\ events' = events /\ gui' = gui /\ enabled' = enabled
    BY <1>4 DEF PasswordAnswered, Asks
  <2> QED
    BY <2>1, AnsweredAlone, GoesOn DEF Asks
<1>5. CASE BackupRecord
  <2>1. /\ thread = "backup" /\ thread' \in {"ending", "backup"}
        /\ events' = events /\ gui' = gui /\ enabled' = enabled
    BY <1>5 DEF BackupRecord
  <2> QED
    BY <2>1, ThreadAlone, GoesOn DEF Asks
<1>6. CASE BackupDone
  <2>1. thread = "backup" /\ gui' = gui /\ enabled' = enabled
    BY <1>6 DEF BackupDone
  <2>2. (thread' = "ending" /\ events' = events) \/ Ask("askPin")
    BY <1>6 DEF BackupDone
  <2>3. events = <<>> /\ gui \in {"loop", "joinClose"}
    BY <2>1, ThreadAlone DEF Asks
  <2> QED
    BY <2>1, <2>2, <2>3, GoesOn, AsksFirst DEF Asks
<1>7. CASE PinAnswered
  <2>1. /\ thread \in Asks /\ wait = "woken" /\ thread' \in {"ending", "connect"}
        /\ events' = events /\ gui' = gui /\ enabled' = enabled
    BY <1>7 DEF PinAnswered, Asks
  <2> QED
    BY <2>1, AnsweredAlone, GoesOn DEF Asks
<1>8. CASE LookAtNext
  <2>1. /\ thread = "look" /\ thread' \in {"ending", "pump", "look"}
        /\ events' = events /\ gui' = gui /\ enabled' = enabled
    BY <1>8 DEF LookAtNext
  <2> QED
    BY <2>1, ThreadAlone, GoesOn DEF Asks
<1>9. ASSUME NEW refuse, RestoreRecord(refuse)
      PROVE  Turns'
  <2>1. /\ thread = "pump" /\ thread' \in {"ending", "pump", "look"}
        /\ events' = events /\ gui' = gui /\ enabled' = enabled
    BY <1>9 DEF RestoreRecord
  <2> QED
    BY <2>1, ThreadAlone, GoesOn DEF Asks
<1>10. CASE UsbError
  <2>1. thread \in {"backup", "pump"} /\ gui' = gui /\ enabled' = enabled /\ Ask("askError")
    BY <1>10 DEF UsbError, Fails
  <2>2. events = <<>> /\ gui \in {"loop", "joinClose"}
    BY <2>1, ThreadAlone DEF Asks
  <2> QED
    BY <2>1, <2>2, AsksFirst DEF Asks
<1>11. CASE ErrorAnswered
  <2>1. /\ thread \in Asks /\ wait = "woken" /\ thread' = "ending"
        /\ events' = events /\ gui' = gui /\ enabled' = enabled
    BY <1>11 DEF ErrorAnswered, Asks, dialog
  <2> QED
    BY <2>1, AnsweredAlone, GoesOn DEF Asks
<1>12. CASE ThreadEnding
  <2>1. /\ thread = "ending" /\ thread' = "finish" /\ running' = FALSE
        /\ events' = events /\ gui' = gui /\ enabled' = enabled
    BY <1>12 DEF ThreadEnding
  <2> QED
    BY <2>1, ThreadAlone, GoesOn DEF Asks
<1>13. CASE SendFinished
  <2>1. thread = "finish" /\ thread' = "done" /\ gui' = gui /\ enabled' = enabled /\ running' = running
    BY <1>13 DEF SendFinished
  <2>2. events = <<>> /\ gui \in {"loop", "joinClose"} /\ enabled = FALSE /\ running = FALSE
    BY <2>1, ThreadAlone DEF Asks, Turns, Enabled, TypeOK
  <2>3. events' = <<"THREAD_FINISHED">>
    BY <1>13, <2>2 DEF SendFinished
  <2> QED
    BY <2>1, <2>2, <2>3 DEF Turns, Posted, Handling, Enabled, Asked
<1> QED
  BY <1>1, <1>2, <1>3, <1>4, <1>5, <1>6, <1>7, <1>8, <1>9, <1>10, <1>11, <1>12, <1>13 DEF ThreadStep

(* The type invariant without what Posted and Locks say of events and lock. *)
Types ==
    /\ dlg \in {"open", "ended"} /\ gui \in {"loop"} \cup Handlers
    /\ enabled \in BOOLEAN /\ abort \in BOOLEAN /\ running \in BOOLEAN /\ created \in BOOLEAN
    /\ mode \in WriteModes /\ dest \in {"none", "source", "target"} /\ typed \in Passwords
    /\ thread \in {"none", "start", "connect", "backup", "look", "pump", "ending",
                   "finish", "done"} \cup Asks
    /\ wait \in {"no", "sent", "waiting", "woken"} /\ (wait # "no" => thread \in Asks)
    /\ stage \in {"backup", "restore"}
    /\ result \in {"none", "ok", "aborted", "error"}
    /\ faults \in 0..MaxFaults /\ rounds \in 0..MaxRounds

LEMMA TypesSuffice == Types /\ Posted /\ Locks => TypeOK
<1> SUFFICES ASSUME Types, Posted, Locks PROVE TypeOK
  OBVIOUS
<1>1. Len(events) <= 2
  <2>1. CASE events = <<>>
    BY <2>1
  <2>2. CASE events = <<EventOf[thread]>>
    BY <2>2
  <2>3. CASE events = <<"THREAD_FINISHED">>
    BY <2>3
  <2> QED
    BY <2>1, <2>2, <2>3 DEF Posted
<1>2. \A s \in DOMAIN lock : lock[s].left \in 0..MaxTries
  BY MigrateAssumption DEF Locks, Lock
<1> QED
  BY <1>1, <1>2 DEF Types, TypeOK

LEMMA GuiTypes ==
    ASSUME TypeOK, Turns, UserStep \/ GuiStep
    PROVE  Types'
<1> USE MigrateAssumption DEF TypeOK, Types, Handlers, Takes, devices, pipeline, history
<1>1. ASSUME NEW m \in WriteModes, NEW d \in {"none", "target"}, OnMigrateNow(m, d)
      PROVE  Types'
  <2>1. wait = "no"
    BY <1>1 DEF OnMigrateNow, Turns, Enabled, Asks
  <2>2. rounds' \in 0..MaxRounds
    BY <1>1 DEF OnMigrateNow
  <2>3. dest' \in {"none", "source", "target"} /\ mode' \in WriteModes
    BY <1>1 DEF OnMigrateNow
  <2>4. /\ thread' = "start" /\ result' = "none" /\ enabled' = FALSE /\ abort' = FALSE
        /\ running' = FALSE /\ created' = TRUE
        /\ UNCHANGED <<dlg, gui, typed, wait, stage, faults>>
    BY <1>1 DEF OnMigrateNow
  <2> QED
    BY <2>1, <2>2, <2>3, <2>4
<1>2. CASE DoSafeClose
  BY <1>2 DEF DoSafeClose
<1>3. CASE JoinReturns
  BY <1>3 DEF JoinReturns, AfterFinish
<1>4. CASE OnThreadFinished
  BY <1>4 DEF OnThreadFinished, AfterFinish
<1>5. CASE OnCheckDestPin
  BY <1>5 DEF OnCheckDestPin
<1>6. CASE ScanForDevices
  BY <1>6 DEF ScanForDevices
<1>7. ASSUME NEW d \in {"none", "source", "target"}, ChooseDevice(d)
      PROVE  Types'
  BY <1>7 DEF ChooseDevice
<1>8. ASSUME NEW pw \in Passwords, OnPromptPassword(pw)
      PROVE  Types'
  BY <1>8 DEF OnPromptPassword
<1>9. CASE OnErrorMsg
  BY <1>9 DEF OnErrorMsg
<1>10. CASE Signal
  BY <1>10 DEF Signal
<1> QED
  BY <1>1, <1>2, <1>3, <1>4, <1>5, <1>6, <1>7, <1>8, <1>9, <1>10 DEF UserStep, GuiStep

(* A record is refused only by a device that refuses. *)
LEMMA TakenUnlessRefused ==
    ASSUME NEW dev, NEW p, NEW d, NEW r
    PROVE  ParseRecord(dev, p, d, r, "no").ret = "ok"
BY DEF ParseRecord

LEMMA ThreadTypes ==
    ASSUME TypeOK, ThreadStep
    PROVE  Types'
<1> USE MigrateAssumption DEF TypeOK, Types, Asks, Keeps, At, dialog, devices, pipeline, history
<1>1. CASE MigrateThread
  BY <1>1 DEF MigrateThread
<1>2. CASE ConnectTurn
  <2>1. faults' \in 0..MaxFaults
    BY <1>2 DEF ConnectTurn
  <2>2. \/ thread' \in {"backup", "look", "connect"} /\ wait' = wait /\ result' = result
        \/ Ask("askPassword") /\ result' = result
        \/ Ask("askError") /\ result' = "error"
    BY <1>2 DEF ConnectTurn, Fails
  <2>3. thread = "connect" /\ Keeps /\ UNCHANGED <<abort, running, dest, stage, rounds>>
    BY <1>2 DEF ConnectTurn
  <2> QED
    BY <2>1, <2>2, <2>3 DEF Ask
<1>3. CASE BeginWait
  BY <1>3 DEF BeginWait
<1>4. CASE PasswordAnswered
  BY <1>4 DEF PasswordAnswered
<1>5. CASE BackupRecord
  BY <1>5 DEF BackupRecord
<1>6. CASE BackupDone
  BY <1>6 DEF BackupDone, Ask
<1>7. CASE PinAnswered
  BY <1>7 DEF PinAnswered
<1>8. CASE LookAtNext
  BY <1>8 DEF LookAtNext
<1>9. ASSUME NEW refuse, RestoreRecord(refuse)
      PROVE  Types'
  <2>1. faults' \in 0..MaxFaults
    <3>1. CASE refuse = "no"
      <4>1. \A k : Pumped(k, refuse).ret = "ok"
        BY <3>1, TakenUnlessRefused DEF Pumped
      <4>2. Idle.ret = "no record"
        BY DEF Idle
      <4> QED
        BY <1>9, <4>1, <4>2 DEF RestoreRecord
    <3>2. CASE refuse # "no"
      BY <1>9, <3>2 DEF RestoreRecord
    <3> QED
      BY <3>1, <3>2
  <2>2. /\ thread = "pump" /\ thread' \in {"ending", "pump", "look"}
        /\ result' \in {"aborted", result} /\ Keeps
        /\ UNCHANGED <<abort, running, dest, wait, stage, rounds>>
    BY <1>9 DEF RestoreRecord
  <2> QED
    BY <2>1, <2>2
<1>10. CASE UsbError
  BY <1>10 DEF UsbError, Fails, Ask
<1>11. CASE ErrorAnswered
  BY <1>11 DEF ErrorAnswered
<1>12. CASE ThreadEnding
  BY <1>12 DEF ThreadEnding
<1>13. CASE SendFinished
  BY <1>13 DEF SendFinished
<1> QED
  BY <1>1, <1>2, <1>3, <1>4, <1>5, <1>6, <1>7, <1>8, <1>9, <1>10, <1>11, <1>12, <1>13 DEF ThreadStep

-----------------------------------------------------------------------------
(* The parser. *)

(* A parser never changes its mode. *)
LEMMA ParserKeepsMode ==
    ASSUME NEW dev, NEW p, NEW d, NEW r, NEW refuse, "mode" \in DOMAIN p
    PROVE  LET q == ParseRecord(dev, p, d, r, refuse).parser
           IN  "mode" \in DOMAIN q /\ q.mode = p.mode
<1>1. ASSUME NEW s, "mode" \in DOMAIN s
      PROVE  LET c == [s EXCEPT !.last = MakeNewRecordId(s.tab, s.last)]
             IN  "mode" \in DOMAIN c /\ c.mode = s.mode
  BY <1>1
<1>2. "mode" \in DOMAIN StartDB(dev, p, d) /\ StartDB(dev, p, d).mode = p.mode
  BY DEF StartDB
<1> DEFINE q == IF d # p.db THEN StartDB(dev, p, d) ELSE p
           counted == IF p.mode = "ADD_WITH_NEW_ID"
                      THEN [q EXCEPT !.last = MakeNewRecordId(q.tab, q.last)] ELSE q
<1>3. "mode" \in DOMAIN q /\ q.mode = p.mode
  BY <1>2
<1>4. "mode" \in DOMAIN counted /\ counted.mode = p.mode
  BY <1>1, <1>3
<1>5. ParseRecord(dev, p, d, r, refuse).parser \in {q, counted}
  BY DEF ParseRecord
<1> QED
  BY <1>3, <1>4, <1>5

(* A record that is added leaves the others as they are. *)
LEMMA AddKeeps ==
    ASSUME NEW t, NEW id, NEW val, NEW i \in DOMAIN t
    PROVE  i \in DOMAIN AddRecord(t, id, val) /\ AddRecord(t, id, val)[i] = t[i]
BY DEF AddRecord

Adding == {"ADD_BUT_NO_OVERWRITE", "ADD_WITH_NEW_ID"}

(* What a parser that adds does to a device. *)
LEMMA AddingKeeps ==
    ASSUME NEW dev, NEW p, NEW d, NEW r, NEW refuse, "mode" \in DOMAIN p, p.mode \in Adding,
           NEW n \in DOMAIN dev, NEW i \in DOMAIN dev[n]
    PROVE  LET w == ParseRecord(dev, p, d, r, refuse).dev
           IN  i \in DOMAIN w[n] /\ w[n][i] = dev[n][i]
<1> DEFINE q == IF d # p.db THEN StartDB(dev, p, d) ELSE p
           w == ParseRecord(dev, p, d, r, refuse).dev
<1>1. q.mode = p.mode
  BY DEF StartDB
<1>2. \/ w = dev \/ w = [dev EXCEPT ![d] = dev[d]]
      \/ w = [dev EXCEPT ![d] = WriteNext(dev[d], q, r)]
  BY DEF ParseRecord, Adding
<1>3. CASE w = dev \/ w = [dev EXCEPT ![d] = dev[d]]
  BY <1>3
<1>4. CASE w = [dev EXCEPT ![d] = WriteNext(dev[d], q, r)]
  <2>1. CASE n # d
    BY <1>4, <2>1
  <2>2. CASE n = d
    <3>1. w[n] = WriteNext(dev[d], q, r)
      BY <1>4, <2>2
    <3>2. \/ WriteNext(dev[d], q, r) = dev[d]
          \/ \E id : WriteNext(dev[d], q, r) = AddRecord(dev[d], id, r.val)
      BY <1>1 DEF WriteNext, Adding
    <3> QED
      BY <2>2, <3>1, <3>2, AddKeeps
  <2> QED
    BY <2>1, <2>2
<1> QED
  BY <1>2, <1>3, <1>4

(* What one PumpEntry does to the parser and the target. *)
LEMMA PumpEffect ==
    ASSUME NEW refuse, RestoreRecord(refuse)
    PROVE  /\ thread = "pump" /\ mode' = mode
           /\ \/ target' = target /\ parser' = parser
              \/ \E d, r : LET w == ParseRecord(target, parser, d, r, refuse)
                           IN  target' = w.dev /\ parser' = w.parser
<1>1. PICK f, w : /\ w = IF f.ret = "true" THEN Pumped(f.rec.id, refuse) ELSE Idle
                  /\ \/ f.ret = "false" /\ target' = target /\ parser' = parser
                     \/ f.ret = "true" /\ target' = w.dev /\ parser' = w.parser
  BY DEF RestoreRecord
<1>2. thread = "pump" /\ mode' = mode
  BY DEF RestoreRecord, At, Keeps
<1> QED
  BY <1>1, <1>2 DEF Pumped

LEMMA StepWriting ==
    ASSUME TypeOK, Turns, Writing, [Next]_vars
    PROVE  Writing'
<1>1. ASSUME NEW m, NEW d, OnMigrateNow(m, d)
      PROVE  Writing'
  BY <1>1 DEF OnMigrateNow, Writing
<1>2. ASSUME NEW refuse, RestoreRecord(refuse)
      PROVE  Writing'
  <2>1. parser.mode = mode /\ "mode" \in DOMAIN parser /\ mode' = mode
    BY <1>2, PumpEffect DEF Writing
  <2>2. parser'.mode = parser.mode /\ "mode" \in DOMAIN parser'
    BY <1>2, <2>1, PumpEffect, ParserKeepsMode
  <2> QED
    BY <2>1, <2>2 DEF Writing
<1>3. CASE ConnectTurn
  <2>1. mode' = mode /\ thread = "connect"
    BY <1>3 DEF ConnectTurn, Keeps, At
  <2>2. thread' \in {"look", "pump"} => parser' = NewParser(mode)
    BY <1>3, <2>1 DEF ConnectTurn, Fails, Ask
  <2> QED
    BY <2>1, <2>2 DEF Writing, NewParser
<1>4. ASSUME \A m, d : ~OnMigrateNow(m, d), \A refuse : ~RestoreRecord(refuse), ~ConnectTurn
      PROVE  /\ mode' = mode /\ parser' = parser
             /\ thread' \in {"look", "pump"} => thread \in {"look", "pump"}
  BY <1>4 DEF Next, UserStep, GuiStep, ThreadStep, DoSafeClose, JoinReturns, Takes,
        OnThreadFinished, OnCheckDestPin, ScanForDevices, ChooseDevice, OnPromptPassword,
        OnErrorMsg, Signal, MigrateThread, BeginWait, PasswordAnswered, BackupRecord,
        BackupDone, PinAnswered, LookAtNext, UsbError, Fails, Ask, ErrorAnswered,
        ThreadEnding, SendFinished, Keeps, At, vars, dialog, devices, pipeline, history
<1> QED
  BY <1>1, <1>2, <1>3, <1>4 DEF Writing

(* Only PumpEntry writes to the target. *)
LEMMA StepTarget ==
    ASSUME [Next]_vars, \A refuse : ~RestoreRecord(refuse)
    PROVE  target' = target
BY DEF Next, UserStep, GuiStep, ThreadStep, OnMigrateNow, DoSafeClose, JoinReturns, Takes,
       OnThreadFinished, OnCheckDestPin, ScanForDevices, ChooseDevice, OnPromptPassword,
       OnErrorMsg, Signal, MigrateThread, ConnectTurn, BeginWait, PasswordAnswered,
       BackupRecord, BackupDone, PinAnswered, LookAtNext, UsbError, ErrorAnswered,
       ThreadEnding, SendFinished, vars, dialog, devices, pipeline, history

(* The two flags that DoSafeClose tests say enough of the thread: it has set
   m_thread_running while it works, and it was created and not joined while it
   is there at all. *)
Resting == {"none", "start", "finish", "done"}

Flags ==
    /\ thread \notin Resting => running
    /\ thread \notin {"none", "done"} => created
    /\ dlg = "ended" => thread \in Resting

LEMMA GuiFlags ==
    ASSUME TypeOK, Turns, Flags, UserStep \/ GuiStep
    PROVE  Flags'
<1>1. ASSUME NEW m, NEW d, OnMigrateNow(m, d)
      PROVE  Flags'
  BY <1>1 DEF OnMigrateNow, Flags, Resting
<1>2. CASE DoSafeClose
  <2>1. UNCHANGED <<thread, running, created>>
    BY <1>2 DEF DoSafeClose
  <2>2. dlg' = "ended" => ~running \/ ~created
    BY <1>2 DEF DoSafeClose
  <2> QED
    BY <2>1, <2>2 DEF Flags, Resting
<1>3. CASE JoinReturns
  BY <1>3 DEF JoinReturns, Flags, Resting
<1>4. CASE OnThreadFinished
  <2>1. thread = "done" /\ UNCHANGED <<thread, running, created>>
    BY <1>4, TakenLast DEF OnThreadFinished, Takes, Turns
  <2> QED
    BY <2>1 DEF Flags, Resting
<1>5. ASSUME UNCHANGED <<thread, running, created, dlg>>
      PROVE  Flags'
  BY <1>5 DEF Flags
<1>6. CASE OnCheckDestPin \/ ScanForDevices \/ OnErrorMsg \/ Signal
  BY <1>5, <1>6 DEF OnCheckDestPin, ScanForDevices, OnErrorMsg, Signal, Takes
<1>7. CASE (\E d : ChooseDevice(d)) \/ (\E pw : OnPromptPassword(pw))
  BY <1>5, <1>7 DEF ChooseDevice, OnPromptPassword, Takes
<1> QED
  BY <1>1, <1>2, <1>3, <1>4, <1>6, <1>7 DEF UserStep, GuiStep

LEMMA ThreadFlags ==
    ASSUME TypeOK, Flags, ThreadStep
    PROVE  Flags'
<1>1. CASE MigrateThread
  BY <1>1 DEF MigrateThread, At, Keeps, Flags, Resting
<1>2. CASE BeginWait
  BY <1>2 DEF BeginWait, dialog, Flags
<1>3. CASE ThreadEnding \/ SendFinished
  BY <1>3 DEF ThreadEnding, SendFinished, At, Keeps, Flags, Resting
<1>4. ASSUME thread \notin Resting, thread' \notin Resting, dlg = "open",
             UNCHANGED <<running, created, dlg>>
      PROVE  Flags'
  BY <1>4 DEF Flags, Resting
<1>5. CASE ConnectTurn
  <2>1. At("connect") /\ Keeps /\ running' = running
    BY <1>5 DEF ConnectTurn
  <2>2. thread = "connect" /\ dlg = "open" /\ dlg' = dlg /\ created' = created
    BY <2>1 DEF At, Keeps
  <2>3. \/ thread' \in {"backup", "look", "connect"}
        \/ Ask("askPassword") \/ Ask("askError")
    BY <1>5, <2>2 DEF ConnectTurn, Fails
  <2> QED
    BY <1>4, <2>1, <2>2, <2>3 DEF Ask, Resting
<1>6. CASE PasswordAnswered \/ PinAnswered \/ ErrorAnswered
  BY <1>4, <1>6 DEF PasswordAnswered, PinAnswered, ErrorAnswered, At, Keeps, Resting, dialog
<1>7. CASE BackupRecord \/ BackupDone
  BY <1>4, <1>7 DEF BackupRecord, BackupDone, Ask, At, Keeps, Resting
<1>8. CASE LookAtNext \/ UsbError
  BY <1>4, <1>8 DEF LookAtNext, UsbError, Fails, Ask, At, Keeps, Resting
<1>9. CASE \E refuse : RestoreRecord(refuse)
  BY <1>4, <1>9 DEF RestoreRecord, At, Keeps, Resting
<1> QED
  BY <1>1, <1>2, <1>3, <1>5, <1>6, <1>7, <1>8, <1>9 DEF ThreadStep

-----------------------------------------------------------------------------
(* The theorems. *)

LEMMA InitInv == Init => IInv
<1> SUFFICES ASSUME Init PROVE IInv
  OBVIOUS
<1>1. Types
  <2>1. /\ dlg = "open" /\ enabled = TRUE /\ gui = "loop"
        /\ abort = FALSE /\ running = FALSE /\ created = FALSE
        /\ mode = "ERASE_ALL_WRITE_ALL" /\ dest = "none" /\ typed = NoPassword
        /\ thread = "none" /\ wait = "no" /\ stage = "backup"
        /\ result = "none" /\ rounds = 0 /\ faults = 0
    BY DEF Init
  <2>2. typed \in Passwords /\ rounds \in 0..MaxRounds /\ faults \in 0..MaxFaults
    BY <2>1, MigrateAssumption
  <2> QED
    BY <2>1, <2>2 DEF Types, WriteModes
<1>2. Locks
  BY MigrateAssumption DEF Init, Locks, Lock
<1>3. Turns
  BY DEF Init, Turns, Posted, Handling, Enabled
<1>4. Writing
  BY DEF Init, Writing
<1> QED
  BY <1>1, <1>2, <1>3, <1>4, TypesSuffice DEF IInv, Turns

LEMMA StepInv == IInv /\ [Next]_vars => IInv'
<1> SUFFICES ASSUME IInv, [Next]_vars PROVE IInv'
  OBVIOUS
<1>1. Locks' /\ Writing'
  BY StepLocks, StepWriting DEF IInv
<1>2. CASE Next
  <2>1. Turns' /\ Types'
    BY <1>2, GuiTurns, ThreadTurns, GuiTypes, ThreadTypes DEF IInv, Next
  <2>2. (Types /\ Posted /\ Locks => TypeOK)'
    BY TypesSuffice, PTL
  <2>3. TypeOK'
    BY <1>1, <2>1, <2>2 DEF Turns
  <2> QED
    BY <1>1, <2>1, <2>3 DEF IInv
<1>3. CASE UNCHANGED vars
  BY <1>1, <1>3 DEF IInv, TypeOK, Turns, Posted, Handling, Enabled, Asked, vars, dialog, devices,
                    pipeline, history
<1> QED
  BY <1>2, <1>3

LEMMA Inductive == Spec => []IInv
BY InitInv, StepInv, PTL DEF Spec

(* The dialog, its thread and what they share keep their types: in
   particular there is never more than one event on its way, and a thread
   waits only while it asks (MigrateDlg.cc). *)
THEOREM TypeCorrect == Spec => []TypeOK
<1>1. IInv => TypeOK
  BY DEF IInv
<1> QED
  BY <1>1, Inductive, PTL

(* The dialog never goes while its thread works on a device or waits for an
   answer, however closes, joins and events of any number of migrations fall
   (DoSafeClose, MigrateDlg.cc:270). *)
THEOREM WorkIsStoppedFirst == Spec => []WorkStopsFirst
<1>1. Init => Flags
  BY DEF Init, Flags, Resting
<1>2. IInv /\ Flags /\ [Next]_vars => Flags'
  <2> SUFFICES ASSUME IInv, Flags, [Next]_vars PROVE Flags'
    OBVIOUS
  <2>1. CASE Next
    BY <2>1, GuiFlags, ThreadFlags DEF IInv, Next
  <2>2. CASE UNCHANGED vars
    BY <2>2 DEF Flags, vars, dialog
  <2> QED
    BY <2>1, <2>2
<1>3. Flags => WorkStopsFirst
  BY DEF Flags, Resting, WorkStopsFirst
<1> QED
  BY <1>1, <1>2, <1>3, Inductive, PTL DEF Spec

(* Whatever the user types, however connections time out and however often a
   migration is started, at least MinTries - 1 tries are left on each device
   (Connector::Connect; socket.cc:512), for every number of tries. *)
THEOREM TriesAreLeft == Spec => []TriesLeft
<1>1. IInv => TriesLeft
  BY MigrateAssumption DEF IInv, Locks, Lock, TriesLeft
<1> QED
  BY <1>1, Inductive, PTL

(* No step of a migration that adds changes or removes a record that the
   target has, for any contents of the two devices and whatever is refused or
   aborted (DeviceParser::WriteNext, m_desktop.cc:738). *)
THEOREM AddingKeepsExisting == Spec => KeepsExisting
<1> DEFINE Kept == \A d \in DOMAIN target : \A i \in DOMAIN target[d] :
                       i \in DOMAIN target'[d] /\ target'[d][i] = target[d][i]
<1>1. ASSUME IInv, [Next]_vars, mode \in Adding
      PROVE  Kept
  <2>1. CASE \E refuse : RestoreRecord(refuse)
    <3>1. PICK refuse : RestoreRecord(refuse)
      BY <2>1
    <3>2. parser.mode \in Adding /\ "mode" \in DOMAIN parser
      BY <1>1, <3>1, PumpEffect DEF IInv, Writing
    <3>3. CASE target' = target
      BY <3>3
    <3>4. CASE target' # target
      <4>1. PICK d, r : target' = ParseRecord(target, parser, d, r, refuse).dev
        BY <3>1, <3>4, PumpEffect
      <4> QED
        BY <3>2, <4>1, AddingKeeps
    <3> QED
      BY <3>3, <3>4
  <2>2. CASE \A refuse : ~RestoreRecord(refuse)
    BY <1>1, <2>2, StepTarget
  <2> QED
    BY <2>1, <2>2
<1>2. IInv /\ [Next]_vars => [(mode \in {"ADD_BUT_NO_OVERWRITE", "ADD_WITH_NEW_ID"}) => Kept]_vars
  BY <1>1 DEF Adding
<1> QED
  BY <1>2, Inductive, PTL DEF Spec, KeepsExisting

-----------------------------------------------------------------------------
(* What was copied: the second invariant, on top of the first one. *)

(* Tables as the devices have them. *)
Tables(dev) == \A n \in DOMAIN dev : IsFiniteSet(DOMAIN dev[n]) /\ DOMAIN dev[n] \subseteq Nat \ {0}

(* The builder b has gone past place i of the k-th database. *)
Behind(b, k, i) ==
    \/ k < b.cur
    \/ k = b.cur /\ b.started /\ (b.busy => i <= b.at)

BuilderFields == {"dbs", "cur", "started", "busy", "at"}
GoodBuilder(b) ==
    /\ DOMAIN b = BuilderFields /\ b.dbs = DbList
    /\ b.cur \in Nat \ {0} /\ b.started \in BOOLEAN /\ b.busy \in BOOLEAN /\ b.at \in Nat
    /\ b.busy => b.started /\ b.cur <= Len(DbList)
    /\ ~b.started => b.cur = 1

(* The k-th entry of the archive is the record at place i of database n. *)
EntryOf(a, src, k, n, i) ==
    /\ n \in DOMAIN src /\ i \in DOMAIN src[n]
    /\ a.entries[k].db = n /\ a.entries[k].whole
    /\ a.entries[k].id = src[n][i].id /\ a.entries[k].val = src[n][i].val

List(s, n) == s = [i \in 1..n |-> s[i]]
GoodArchive(a) ==
    /\ DOMAIN a = {"entries", "torn"} /\ a.torn = FALSE
    /\ Len(a.entries) \in Nat /\ List(a.entries, Len(a.entries))

(* The archive while the builder goes through the source: from which database
   and from which place each entry is. *)
CopyingTo(m, a, src, b, which, place) ==
    /\ which \in [1..m -> 1..Len(DbList)] /\ place \in [1..m -> Nat]
    /\ \A k \in 1..m : EntryOf(a, src, k, DbList[which[k]], place[k])
    /\ \A j, k \in 1..m :
          j < k => which[j] < which[k] \/ (which[j] = which[k] /\ place[j] < place[k])
    /\ \A q \in 1..Len(DbList) : \A i \in DOMAIN src[DbList[q]] :
          Behind(b, q, i) <=> \E k \in 1..m : which[k] = q /\ place[k] = i
Copying(a, src, b, which, place) == CopyingTo(Len(a.entries), a, src, b, which, place)

(* The archive of a backup that is over. *)
Copied(a, src, place) ==
    /\ GoodArchive(a) /\ place \in [1..Len(a.entries) -> Nat]
    /\ \A k \in 1..Len(a.entries) :
          a.entries[k].db # NoName /\ EntryOf(a, src, k, a.entries[k].db, place[k])
    /\ \A n \in DOMAIN src : \A i \in DOMAIN src[n] :
          \E k \in 1..Len(a.entries) : a.entries[k].db = n /\ place[k] = i
    /\ \A j, k \in 1..Len(a.entries) :
          j < k /\ a.entries[j].db = a.entries[k].db => place[j] < place[k]
    /\ \A i, j, k \in 1..Len(a.entries) :
          i < j /\ j < k /\ a.entries[i].db = a.entries[k].db => a.entries[j].db = a.entries[i].db

(* The entries of database n, and those that the filter f lets through. *)
Of(a, n) == {k \in 1..Len(a.entries) : a.entries[k].db = n}
Selected(a, f) == {k \in 1..Len(a.entries) : IsSelected(f, a.entries[k].db)}

(* The ones that the reader r has given or skipped. *)
Past(a, f, r) ==
    {k \in Selected(a, f) : k < r.pos \/ (k = r.pos /\ r.state \notin {"NEXT", "DBEND"})}

ReaderFields == {"state", "pos", "db", "held", "meta", "threw"}
Loaded(a, f, r) == r.pos \in Selected(a, f) /\ r.db = a.entries[r.pos].db /\ r.meta = r.pos
GoodReader(a, f, r) ==
    /\ DOMAIN r = ReaderFields /\ r.pos \in 0..Len(a.entries)
    /\ r.state \in {"EMPTY", "NEXT", "EOF"}
    /\ r.state = "NEXT" => Loaded(a, f, r)
    /\ r.state = "EMPTY" /\ r # New => r.pos \in Selected(a, f) /\ r.db = a.entries[r.pos].db
    /\ r.state = "EOF" => r.pos = Len(a.entries)

(* The records of one database at the places S of the source are written: what
   the parser p has made of the database old. *)
SameRecord(x, y) == x.id = y.id /\ x.val = y.val
Erased(new, src, S) ==
    DOMAIN new = 1..Cardinality(S) /\ \A i \in S : SameRecord(new[Rank(src, i)], src[i])
Overwritten(old, new, src, S) ==
    /\ DOMAIN old \subseteq DOMAIN new
    /\ \A j \in DOMAIN old : /\ new[j].id = old[j].id
                             /\ old[j].id \notin {src[i].id : i \in S} => new[j] = old[j]
    /\ Ids(new) = Ids(old) \cup {src[i].id : i \in S}
    /\ \A x \in {src[i].id : i \in S} :
          \E i \in S : src[i].id = x /\ \E j \in DOMAIN new : SameRecord(new[j], src[i])
Added(old, new, src, S) ==
    Pairs(new) = Pairs(old) \cup {<<src[i].id, src[i].val>> : i \in {j \in S : src[j].id \notin Ids(old)}}
Renumbered(old, new, src, S, last) ==
    /\ last \in Nat /\ DOMAIN old \subseteq DOMAIN new /\ \A j \in DOMAIN old : new[j] = old[j]
    /\ Vals(new) = Vals(old) \cup {src[i].val : i \in S}
    /\ Cardinality(DOMAIN new) = Cardinality(DOMAIN old) + Cardinality(S)
    /\ \A j \in DOMAIN new \ DOMAIN old :
          new[j].id \in Nat /\ new[j].id <= last /\ new[j].id \notin Ids(old)
    /\ \A i, j \in DOMAIN new :
          i # j /\ new[i].id = new[j].id => {i, j} \subseteq DOMAIN old
Partly(p, old, new, src, S) ==
    /\ p.mode = "ERASE_ALL_WRITE_ALL" => Erased(new, src, S)
    /\ p.mode = "INDIVIDUAL_OVERWRITE" => p.tab = old /\ Overwritten(old, new, src, S)
    /\ p.mode = "ADD_BUT_NO_OVERWRITE" => p.tab = old /\ Added(old, new, src, S)
    /\ p.mode = "ADD_WITH_NEW_ID" => p.tab = old /\ Renumbered(old, new, src, S, p.last)

(* Every database of the target, except the one that is being written, is
   wholly before the reader or wholly after it. *)
Level(a, f, r, src, old, new, bad, m, now) ==
    \A n \in DOMAIN new \ now :
        IF Of(a, n) \cap Past(a, f, r) = {} THEN new[n] = old[n]
        ELSE /\ Of(a, n) \subseteq Past(a, f, r)
             /\ n \notin bad => Migrated(m, old[n], new[n], src[n])

(* The parser holds a database that has begun, or none. *)
Begun(a, f, r, p, new) ==
    p.db # NoName => p.db \in DOMAIN new /\ Of(a, p.db) \cap Past(a, f, r) # {}

ParserFields == {"mode", "db", "tab", "last"}
Reading(a, f, r, p, src, old, new) ==
    /\ GoodReader(a, f, r) /\ DOMAIN p = ParserFields
    /\ DOMAIN old = DOMAIN new /\ Tables(old) /\ f = [All EXCEPT !.list = DOMAIN new]
    /\ Begun(a, f, r, p, new)

Looking(a, f, r, p, src, old, new, bad) ==
    /\ Reading(a, f, r, p, src, old, new)
    /\ r.state = "EMPTY" => r = New
    /\ Level(a, f, r, src, old, new, bad, p.mode, {})

Inside(a, f, r, n) == GoodReader(a, f, r) /\ r.state \in {"NEXT", "EMPTY"} /\ r # New /\ r.db = n

Written(a, f, r, place, n) == {place[k] : k \in Of(a, n) \cap Past(a, f, r)}
Pumping(a, f, r, p, place, src, old, new, bad, n) ==
    /\ Reading(a, f, r, p, src, old, new) /\ Inside(a, f, r, n)
    /\ Level(a, f, r, src, old, new, bad, p.mode, {n})
    /\ n \in DOMAIN new =>
          IF Of(a, n) \cap Past(a, f, r) = {} THEN new[n] = old[n]
          ELSE p.db = n /\ Partly(p, old[n], new[n], src[n], Written(a, f, r, place, n))

(* All that a thread which came to its end has done. *)
Finished == \A d \in DOMAIN target \ refused :
                IF d \notin DOMAIN source \/ Ids(source[d]) = {} THEN target[d] = before[d]
                ELSE Migrated(mode, before[d], target[d], source[d])

Stores == source \in Sources /\ Tables(target)

CopiesBackup == thread = "backup" =>
    /\ stage = "backup" /\ GoodBuilder(builder) /\ GoodArchive(archive)
    /\ \E which, place : Copying(archive, source, builder, which, place)
(* The thread has the whole archive. *)
Holds ==
    \/ thread \in {"askPin", "look", "pump"}
    \/ stage = "restore" /\ thread \in {"connect", "askPassword"}
CopiesHeld == Holds => \E place : Copied(archive, source, place)
CopiesLook == thread = "look" =>
    Looking(archive, DestFilter, rd, parser, source, before, target, refused)
CopiesPump == thread = "pump" =>
    \E place : /\ Copied(archive, source, place)
               /\ Pumping(archive, DestFilter, rd, parser, place, source, before, target, refused,
                          rd.db)
CopiesEnd == result = "ok" => thread \in {"ending", "finish", "done"} /\ Finished

Copies == CopiesBackup /\ CopiesHeld /\ CopiesLook /\ CopiesPump /\ CopiesEnd

-----------------------------------------------------------------------------
(* The builder goes through the databases of the source. *)

LEMMA LeastOf ==
    \A S \in SUBSET Nat : S # {} => Min(S) \in S /\ \A i \in S : Min(S) <= i
<1> SUFFICES ASSUME NEW S \in SUBSET Nat, S # {}
             PROVE  Min(S) \in S /\ \A i \in S : Min(S) <= i
  OBVIOUS
<1>1. PICK x \in S : \A y \in S : ~(<<y, x>> \in OpToRel(<, Nat))
  BY NatLessThanWellFounded, WFMin
<1>2. \A y \in S : x <= y
  <2> TAKE y \in S
  <2>1. ~(y < x)
    BY <1>1 DEF OpToRel
  <2> QED BY <2>1
<1> QED BY <1>2 DEF Min

(* The database that is read next, and the place in it. *)
Upcoming(b) == IF ~b.busy /\ b.started THEN b.cur + 1 ELSE b.cur
Mark(b) == IF b.busy THEN b.at ELSE 0

LEMMA BehindIs ==
  ASSUME NEW b, GoodBuilder(b)
  PROVE  /\ Upcoming(b) \in Nat \ {0} /\ Mark(b) \in Nat
         /\ \A k \in 1..Len(DbList), i \in Nat \ {0} :
                Behind(b, k, i) <=> k < Upcoming(b) \/ (k = Upcoming(b) /\ i <= Mark(b))
<1>1. /\ b.cur \in Nat \ {0} /\ b.started \in BOOLEAN /\ b.busy \in BOOLEAN /\ b.at \in Nat
      /\ (b.busy => b.started) /\ (~b.started => b.cur = 1) /\ Len(DbList) \in Nat
  BY DevicesAssumption DEF GoodBuilder
<1>2. CASE b.busy
  BY <1>1, <1>2 DEF Behind, Upcoming, Mark
<1>3. CASE ~b.busy /\ b.started
  BY <1>1, <1>3 DEF Behind, Upcoming, Mark
<1>4. CASE ~b.busy /\ ~b.started
  BY <1>1, <1>4 DEF Behind, Upcoming, Mark
<1> QED BY <1>2, <1>3, <1>4

(* What one FetchRecord does: the first record after the mark, or none. *)
Loads(b, n, rest) ==
    /\ DOMAIN n = BuilderFields /\ n.dbs = DbList /\ n.cur = Upcoming(b) /\ n.started = TRUE
    /\ n.busy = (rest # {}) /\ n.at = IF rest = {} THEN 0 ELSE Min(rest)

LEMMA FetchLoads ==
  ASSUME NEW src, NEW b, GoodBuilder(b), Upcoming(b) <= Len(DbList),
         NEW n, n = FetchFromDevice(src, b),
         NEW rest, rest = {j \in DOMAIN src[DbList[Upcoming(b)]] : j > Mark(b)}
  PROVE  Loads(b, n, rest)
<1>1. /\ b.cur \in Nat \ {0} /\ b.started \in BOOLEAN /\ b.busy \in BOOLEAN /\ b.at \in Nat
      /\ (b.busy => b.started) /\ Len(DbList) \in Nat /\ DOMAIN b = BuilderFields /\ b.dbs = DbList
  BY DevicesAssumption DEF GoodBuilder
<1>2. ~(b.cur > Len(b.dbs))
  BY <1>1 DEF Upcoming
<1>3. ASSUME NEW c, DOMAIN c = BuilderFields, c.dbs = DbList, c.cur = Upcoming(b), c.started = TRUE,
             n = LoadAfter(c, src[DbList[Upcoming(b)]], Mark(b))
      PROVE  Loads(b, n, rest)
  <2>1. PICK x, y : x = (rest # {}) /\ y = IF rest = {} THEN 0 ELSE Min(rest)
    OBVIOUS
  <2>2. n = [c EXCEPT !.busy = x, !.at = y]
    BY <1>3, <2>1 DEF LoadAfter
  <2> QED BY <1>3, <2>1, <2>2 DEF BuilderFields, Loads
<1>4. CASE b.busy
  <2>1. n = LoadAfter(b, src[DbList[Upcoming(b)]], Mark(b))
    BY <1>1, <1>2, <1>4 DEF FetchFromDevice, BuilderEOF, Upcoming, Mark
  <2>2. b.cur = Upcoming(b) /\ b.started = TRUE
    BY <1>1, <1>4 DEF Upcoming
  <2> QED BY <1>1, <1>3, <2>1, <2>2
<1>5. CASE ~b.busy /\ ~b.started
  <2>1. PICK c : c = [b EXCEPT !.started = TRUE]
    OBVIOUS
  <2>2. n = LoadAfter(c, src[DbList[Upcoming(b)]], Mark(b))
    BY <1>1, <1>2, <1>5, <2>1 DEF FetchFromDevice, BuilderEOF, Upcoming, Mark
  <2>3. DOMAIN c = BuilderFields /\ c.dbs = DbList /\ c.cur = Upcoming(b) /\ c.started = TRUE
    BY <1>1, <1>5, <2>1 DEF Upcoming, BuilderFields
  <2> QED BY <1>3, <2>2, <2>3
<1>6. CASE ~b.busy /\ b.started
  <2>1. PICK c : c = [b EXCEPT !.cur = @ + 1, !.at = 0]
    OBVIOUS
  <2>2. DOMAIN c = BuilderFields /\ c.dbs = DbList /\ c.cur = Upcoming(b) /\ c.started = TRUE
    BY <1>1, <1>6, <2>1 DEF Upcoming, BuilderFields
  <2>3. ~BuilderEOF(c)
    BY <1>1, <2>2 DEF BuilderEOF, Upcoming
  <2>4. n = LoadAfter(c, src[DbList[Upcoming(b)]], Mark(b))
    BY <1>2, <1>6, <2>1, <2>2, <2>3 DEF FetchFromDevice, BuilderEOF, Mark
  <2> QED BY <1>3, <2>2, <2>4
<1> QED BY <1>1, <1>4, <1>5, <1>6

(* With a record, the builder is past one place more, which comes after all the
   others; without one, past the same places. *)
Fetches(src, b, n) ==
    /\ GoodBuilder(n)
    /\ n.at = 0 => \A q \in 1..Len(DbList) : \A i \in DOMAIN src[DbList[q]] :
                       Behind(n, q, i) <=> Behind(b, q, i)
    /\ n.at # 0 =>
          /\ n.cur \in 1..Len(DbList) /\ n.at \in DOMAIN src[DbList[n.cur]]
          /\ \A q \in 1..Len(DbList) : \A i \in DOMAIN src[DbList[q]] :
                /\ Behind(n, q, i) <=> Behind(b, q, i) \/ (q = n.cur /\ i = n.at)
                /\ Behind(b, q, i) => q < n.cur \/ (q = n.cur /\ i < n.at)

LEMMA FetchDoes ==
  ASSUME NEW src, Tables(src), \A k \in 1..Len(DbList) : DbList[k] \in DOMAIN src,
         NEW b, GoodBuilder(b), ~BuilderEOF(b), NEW n, n = FetchFromDevice(src, b)
  PROVE  Fetches(src, b, n)
<1>0. \A q \in 1..Len(DbList) : \A i \in DOMAIN src[DbList[q]] : i \in Nat \ {0}
  BY DEF Tables
<1>1. /\ b.cur \in Nat \ {0} /\ b.started \in BOOLEAN /\ b.busy \in BOOLEAN /\ b.at \in Nat
      /\ (b.busy => b.started /\ b.cur <= Len(DbList)) /\ Len(DbList) \in Nat
      /\ DOMAIN b = BuilderFields /\ b.dbs = DbList /\ b.cur <= Len(DbList)
  BY DevicesAssumption DEF GoodBuilder, BuilderEOF
<1>2. CASE Upcoming(b) <= Len(DbList)
  <2>1. PICK u, t, i0 : u = Upcoming(b) /\ t = src[DbList[u]] /\ i0 = Mark(b)
    OBVIOUS
  <2>2. PICK rest : rest = {j \in DOMAIN t : j > i0}
    OBVIOUS
  <2>3. /\ DOMAIN n = BuilderFields /\ n.dbs = DbList /\ n.cur = u
        /\ n.started = TRUE /\ n.busy = (rest # {})
        /\ rest = {} => n.at = 0
        /\ rest # {} => n.at = Min(rest)
    <3>1. Loads(b, n, rest)
      BY <1>2, <2>1, <2>2, FetchLoads
    <3> QED BY <2>1, <3>1 DEF Loads
  <2>4. /\ u \in Nat \ {0} /\ i0 \in Nat
        /\ \A k \in 1..Len(DbList), i \in Nat \ {0} : Behind(b, k, i) <=> k < u \/ (k = u /\ i <= i0)
    BY <2>1, BehindIs
  <2>5. u \in 1..Len(DbList) /\ DOMAIN t \subseteq Nat \ {0}
    BY <1>0, <1>1, <1>2, <2>1, <2>4
  <2>6. rest # {} => n.at \in rest /\ \A i \in rest : n.at <= i
    <3>1. rest \in SUBSET Nat
      BY <2>2, <2>5
    <3>2. rest # {} => Min(rest) \in rest /\ \A i \in rest : Min(rest) <= i
      BY <3>1, LeastOf
    <3> QED BY <2>3, <3>2
  <2>7. n.at \in Nat /\ (n.at = 0 <=> rest = {})
    BY <2>2, <2>3, <2>5, <2>6
  <2>8. GoodBuilder(n)
    <3>1. n.cur \in Nat \ {0} /\ n.cur <= Len(DbList)
      BY <1>1, <2>3, <2>4, <2>5
    <3>2. n.busy \in BOOLEAN /\ n.started \in BOOLEAN
      BY <2>3, Zenon
    <3> QED BY <2>3, <2>7, <3>1, <3>2 DEF GoodBuilder
  <2>9. \A k \in 1..Len(DbList) : \A i : Behind(n, k, i) <=> k < u \/ (k = u /\ (rest # {} => i <= n.at))
    BY <2>3 DEF Behind
  <2>10. CASE rest = {}
    <3>1. ASSUME NEW q \in 1..Len(DbList), NEW i \in DOMAIN src[DbList[q]]
          PROVE  Behind(n, q, i) <=> Behind(b, q, i)
      <4>1. i \in Nat \ {0} /\ (q = u => i <= i0)
        BY <1>0, <2>1, <2>2, <2>4, <2>10
      <4> QED BY <2>4, <2>9, <2>10, <4>1
    <3> QED BY <2>7, <2>8, <2>10, <3>1 DEF Fetches
  <2>11. CASE rest # {}
    <3>1. n.at \in DOMAIN t /\ n.at > i0 /\ n.at \in Nat
      BY <2>2, <2>6, <2>7, <2>11
    <3>2. ASSUME NEW q \in 1..Len(DbList), NEW i \in DOMAIN src[DbList[q]]
          PROVE  /\ Behind(n, q, i) <=> Behind(b, q, i) \/ (q = u /\ i = n.at)
                 /\ Behind(b, q, i) => q < u \/ (q = u /\ i < n.at)
      <4>1. i \in Nat \ {0} /\ q \in Nat
        BY <1>0, <1>1
      <4>2. q = u => (i <= n.at <=> i <= i0 \/ i = n.at)
        BY <2>1, <2>2, <2>4, <2>6, <2>11, <3>1, <4>1
      <4> QED BY <2>4, <2>9, <2>11, <3>1, <4>1, <4>2
    <3> QED BY <2>1, <2>3, <2>5, <2>7, <2>8, <2>11, <3>1, <3>2 DEF Fetches
  <2> QED BY <2>10, <2>11
<1>3. CASE ~(Upcoming(b) <= Len(DbList))
  <2>1. ~b.busy /\ b.started /\ b.cur = Len(DbList)
    BY <1>1, <1>3 DEF Upcoming
  <2>2. PICK c : c = [b EXCEPT !.cur = @ + 1, !.at = 0]
    OBVIOUS
  <2>3. /\ DOMAIN c = BuilderFields /\ c.dbs = DbList /\ c.cur = Len(DbList) + 1
        /\ c.started = b.started /\ c.busy = b.busy /\ c.at = 0
    BY <1>1, <2>1, <2>2 DEF BuilderFields
  <2>4. n = c
    BY <1>1, <2>1, <2>2, <2>3 DEF FetchFromDevice, BuilderEOF
  <2>5. GoodBuilder(c)
    BY <1>1, <2>1, <2>3 DEF GoodBuilder
  <2>6. \A q \in 1..Len(DbList) : \A i : Behind(c, q, i) /\ Behind(b, q, i)
    BY <1>1, <2>1, <2>3 DEF Behind
  <2> QED BY <2>3, <2>4, <2>5, <2>6 DEF Fetches
<1> QED BY <1>2, <1>3

(* An empty archive and a new builder. *)
LEMMA CopyStarts ==
  ASSUME NEW src, NEW b, b = NewBuilder(DbList)
  PROVE  /\ GoodBuilder(b) /\ GoodArchive(Empty)
         /\ \E which, place : Copying(Empty, src, b, which, place)
<1>1. /\ DOMAIN b = BuilderFields /\ b.dbs = DbList /\ b.cur = 1 /\ b.started = FALSE
      /\ b.busy = FALSE /\ b.at = 0
  BY DEF NewBuilder, BuilderFields
<1>2. GoodBuilder(b)
  <2>1. b.started \in BOOLEAN /\ b.busy \in BOOLEAN
    BY <1>1, Zenon
  <2>2. b.cur \in Nat \ {0} /\ b.at \in Nat /\ ~b.busy
    BY <1>1
  <2> QED BY <1>1, <2>1, <2>2 DEF GoodBuilder
<1>3. /\ DOMAIN Empty = {"entries", "torn"} /\ Empty.torn = FALSE /\ Empty.entries = <<>>
  BY DEF Empty
<1>4. Len(Empty.entries) = 0 /\ List(Empty.entries, 0)
  BY <1>3 DEF List
<1>5. GoodArchive(Empty)
  BY <1>3, <1>4 DEF GoodArchive
<1>6. PICK f, g : f = [k \in 1..0 |-> 1] /\ g = [k \in 1..0 |-> 0]
  OBVIOUS
<1>7. \A q \in 1..Len(DbList) : \A i : ~Behind(b, q, i)
  BY <1>1, DevicesAssumption DEF Behind
<1>8. f \in [1..0 -> 1..Len(DbList)] /\ g \in [1..0 -> Nat]
  BY <1>6
<1>9. CopyingTo(0, Empty, src, b, f, g)
  BY <1>7, <1>8 DEF CopyingTo
<1>10. Copying(Empty, src, b, f, g)
  BY <1>4, <1>9 DEF Copying
<1> QED BY <1>2, <1>5, <1>10

(* One entry more at the end of an archive. *)
Appended(a, x, e, n) ==
    /\ GoodArchive(x) /\ Len(x.entries) = n + 1 /\ x.entries[n + 1] = e
    /\ \A k \in 1..n : x.entries[k] = a.entries[k]

LEMMA AppendedEntry ==
  ASSUME NEW a, GoodArchive(a), NEW e, NEW x, x = [a EXCEPT !.entries = Append(@, e)],
         NEW n, n = Len(a.entries)
  PROVE  Appended(a, x, e, n)
<1>1. PICK s : s = a.entries
  OBVIOUS
<1>2. n \in Nat /\ List(s, n) /\ Len(s) = n /\ DOMAIN a = {"entries", "torn"} /\ a.torn = FALSE
  BY <1>1 DEF GoodArchive
<1>3. PICK u : u = Append(s, e)
  OBVIOUS
<1>4. /\ DOMAIN u = 1..(n + 1) /\ u[n + 1] = e /\ Len(u) = n + 1 /\ List(u, n + 1)
      /\ \A i \in 1..n : u[i] = s[i]
  <2> DEFINE R == {s[i] : i \in 1..n} \cup {e}
  <2>1. s \in Seq(R)
    <3>1. s = [i \in 1..n |-> s[i]]
      BY <1>2 DEF List
    <3>2. [i \in 1..n |-> s[i]] \in [1..n -> R]
      OBVIOUS
    <3>3. s \in [1..n -> R]
      BY <3>1, <3>2
    <3> QED BY <1>2, <3>3
  <2>2. e \in R
    OBVIOUS
  <2> HIDE DEF R
  <2>3. u \in Seq(R) /\ Len(u) = n + 1 /\ u[n + 1] = e /\ \A i \in 1..n : u[i] = s[i]
    BY <1>2, <1>3, <2>1, <2>2
  <2>4. u = [i \in 1..(n + 1) |-> u[i]]
    BY <2>3
  <2> QED BY <2>3, <2>4 DEF List
<1>5. x.entries = u /\ x.torn = FALSE /\ DOMAIN x = {"entries", "torn"}
  BY <1>1, <1>2, <1>3
<1>6. n + 1 \in Nat
  BY <1>2
<1> QED BY <1>1, <1>4, <1>5, <1>6 DEF GoodArchive, Appended

LEMMA CopyGoesOn ==
  ASSUME NEW src, NEW a, GoodArchive(a), NEW b, NEW which, NEW place, Copying(a, src, b, which, place),
         NEW n, Fetches(src, b, n), n.at = 0
  PROVE  Copying(a, src, n, which, place)
<1>1. PICK m : m = Len(a.entries)
  OBVIOUS
<1>2. CopyingTo(m, a, src, b, which, place)
  BY <1>1 DEF Copying
<1>3. \A q \in 1..Len(DbList) : \A i \in DOMAIN src[DbList[q]] : Behind(n, q, i) <=> Behind(b, q, i)
  BY DEF Fetches
<1>4. \A q \in 1..Len(DbList) : \A i \in DOMAIN src[DbList[q]] :
          Behind(n, q, i) <=> \E k \in 1..m : which[k] = q /\ place[k] = i
  <2>1. \A q \in 1..Len(DbList) : \A i \in DOMAIN src[DbList[q]] :
            Behind(b, q, i) <=> \E k \in 1..m : which[k] = q /\ place[k] = i
    BY <1>2, Zenon DEF CopyingTo
  <2> QED BY <1>3, <2>1, Zenon
<1>5. CopyingTo(m, a, src, n, which, place)
  BY <1>2, <1>4, Zenon DEF CopyingTo
<1> QED BY <1>1, <1>5, Zenon DEF Copying

LEMMA CopyAdds ==
  ASSUME NEW src, Tables(src), \A k \in 1..Len(DbList) : DbList[k] \in DOMAIN src,
         NEW a, GoodArchive(a), NEW b, NEW which, NEW place, Copying(a, src, b, which, place),
         NEW n, Fetches(src, b, n), n.at # 0,
         NEW x, NEW d, d = DbList[n.cur],
         x = [a EXCEPT !.entries = Append(@, [db |-> d, whole |-> TRUE, id |-> src[d][n.at].id,
                                              val |-> src[d][n.at].val])]
  PROVE  GoodArchive(x) /\ \E f, g : Copying(x, src, n, f, g)
<1>1. PICK m, e : /\ m = Len(a.entries)
                  /\ e = [db |-> d, whole |-> TRUE, id |-> src[d][n.at].id,
                          val |-> src[d][n.at].val]
  OBVIOUS
<1>2. /\ GoodArchive(x) /\ Len(x.entries) = m + 1 /\ x.entries[m + 1] = e
      /\ \A k \in 1..m : x.entries[k] = a.entries[k]
  <2>1. x = [a EXCEPT !.entries = Append(@, e)]
    BY <1>1
  <2>2. Appended(a, x, e, m)
    BY <1>1, <2>1, AppendedEntry
  <2> QED BY <2>2, Zenon DEF Appended
<1>3. m \in Nat
  BY <1>1 DEF GoodArchive
<1>4. PICK c, i0 : c = n.cur /\ i0 = n.at
  OBVIOUS
<1>5. /\ c \in 1..Len(DbList) /\ i0 \in DOMAIN src[DbList[c]] /\ d = DbList[c]
      /\ \A q \in 1..Len(DbList) : \A i \in DOMAIN src[DbList[q]] :
            /\ Behind(n, q, i) <=> Behind(b, q, i) \/ (q = c /\ i = i0)
            /\ Behind(b, q, i) => q < c \/ (q = c /\ i < i0)
  BY <1>4 DEF Fetches
<1>6. i0 \in Nat /\ Len(DbList) \in Nat
  BY <1>5, DevicesAssumption DEF Tables
<1>7. /\ which \in [1..m -> 1..Len(DbList)] /\ place \in [1..m -> Nat]
      /\ \A k \in 1..m : EntryOf(a, src, k, DbList[which[k]], place[k])
      /\ \A j, k \in 1..m :
            j < k => which[j] < which[k] \/ (which[j] = which[k] /\ place[j] < place[k])
      /\ \A q \in 1..Len(DbList) : \A i \in DOMAIN src[DbList[q]] :
            Behind(b, q, i) <=> \E k \in 1..m : which[k] = q /\ place[k] = i
  <2>1. CopyingTo(m, a, src, b, which, place)
    BY <1>1 DEF Copying
  <2> QED BY <2>1 DEF CopyingTo
<1>8. PICK f, g : /\ f = [k \in 1..(m + 1) |-> IF k = m + 1 THEN c ELSE which[k]]
                  /\ g = [k \in 1..(m + 1) |-> IF k = m + 1 THEN i0 ELSE place[k]]
  OBVIOUS
<1>9. /\ \A k \in 1..m : k \in 1..(m + 1) /\ k # m + 1
      /\ \A k \in 1..(m + 1) : k \in 1..m \/ k = m + 1
      /\ m + 1 \in 1..(m + 1)
  BY <1>3
<1>10. /\ f \in [1..(m + 1) -> 1..Len(DbList)] /\ g \in [1..(m + 1) -> Nat]
       /\ f[m + 1] = c /\ g[m + 1] = i0
       /\ \A k \in 1..m : f[k] = which[k] /\ g[k] = place[k]
  BY <1>5, <1>6, <1>7, <1>8, <1>9
<1>11. ASSUME NEW k \in 1..(m + 1) PROVE EntryOf(x, src, k, DbList[f[k]], g[k])
  <2>1. CASE k \in 1..m
    <3>1. x.entries[k] = a.entries[k] /\ f[k] = which[k] /\ g[k] = place[k]
      BY <1>2, <1>10, <2>1, Zenon
    <3>2. EntryOf(a, src, k, DbList[which[k]], place[k])
      BY <1>7, <2>1, Zenon
    <3> QED BY <3>1, <3>2, Zenon DEF EntryOf
  <2>2. CASE k = m + 1
    <3>1. e.db = d /\ e.whole = TRUE /\ e.id = src[d][i0].id /\ e.val = src[d][i0].val
      BY <1>1, <1>4
    <3> QED BY <1>2, <1>5, <1>10, <2>2, <3>1 DEF EntryOf
  <2> QED BY <1>9, <2>1, <2>2
<1>12. ASSUME NEW j \in 1..m PROVE f[j] < c \/ (f[j] = c /\ g[j] < i0)
  <2>1. which[j] \in 1..Len(DbList) /\ place[j] \in DOMAIN src[DbList[which[j]]]
    BY <1>7 DEF EntryOf
  <2>2. Behind(b, which[j], place[j])
    BY <1>7, <2>1
  <2> QED BY <1>5, <1>10, <2>1, <2>2
<1>13. ASSUME NEW j \in 1..(m + 1), NEW k \in 1..(m + 1), j < k
       PROVE  f[j] < f[k] \/ (f[j] = f[k] /\ g[j] < g[k])
  <2>1. j \in 1..m
    BY <1>3, <1>13
  <2>2. CASE k \in 1..m
    BY <1>7, <1>10, <1>13, <2>1, <2>2
  <2>3. CASE k = m + 1
    BY <1>10, <1>12, <2>1, <2>3
  <2> QED BY <1>9, <2>2, <2>3
<1>14. ASSUME NEW q \in 1..Len(DbList), NEW i \in DOMAIN src[DbList[q]]
       PROVE  Behind(n, q, i) <=> \E k \in 1..(m + 1) : f[k] = q /\ g[k] = i
  <2>1. (\E k \in 1..(m + 1) : f[k] = q /\ g[k] = i)
           <=> (\E k \in 1..m : which[k] = q /\ place[k] = i) \/ (c = q /\ i0 = i)
    BY <1>9, <1>10
  <2> QED BY <1>5, <1>7, <2>1
<1>15. CopyingTo(m + 1, x, src, n, f, g)
  BY <1>10, <1>11, <1>13, <1>14 DEF CopyingTo
<1>16. Copying(x, src, n, f, g)
  BY <1>2, <1>15, Zenon DEF Copying
<1> QED BY <1>2, <1>16, Zenon

(* The builder is through: everything is in the archive. *)
LEMMA CopyDone ==
  ASSUME NEW src, DOMAIN src = {DbList[k] : k \in DOMAIN DbList}, NEW a, GoodArchive(a),
         NEW b, GoodBuilder(b), BuilderEOF(b), NEW which, NEW place, Copying(a, src, b, which, place)
  PROVE  Copied(a, src, place)
<1>1. PICK m : m = Len(a.entries)
  OBVIOUS
<1>2. /\ m \in Nat /\ Len(DbList) \in Nat /\ DOMAIN DbList = 1..Len(DbList)
      /\ \A k \in 1..Len(DbList) : DbList[k] # NoName
      /\ \A j, k \in 1..Len(DbList) : DbList[j] = DbList[k] => j = k
  BY <1>1, DevicesAssumption DEF GoodArchive
<1>3. /\ which \in [1..m -> 1..Len(DbList)] /\ place \in [1..m -> Nat]
      /\ \A k \in 1..m : EntryOf(a, src, k, DbList[which[k]], place[k])
      /\ \A j, k \in 1..m :
            j < k => which[j] < which[k] \/ (which[j] = which[k] /\ place[j] < place[k])
      /\ \A q \in 1..Len(DbList) : \A i \in DOMAIN src[DbList[q]] :
            Behind(b, q, i) <=> \E k \in 1..m : which[k] = q /\ place[k] = i
  <2>1. CopyingTo(m, a, src, b, which, place)
    BY <1>1 DEF Copying
  <2> QED BY <2>1 DEF CopyingTo
<1>4. \A k \in 1..m : a.entries[k].db = DbList[which[k]]
  BY <1>3 DEF EntryOf
<1>5. \A k \in 1..m : a.entries[k].db # NoName /\ EntryOf(a, src, k, a.entries[k].db, place[k])
  BY <1>2, <1>3, <1>4
<1>6. ASSUME NEW n \in DOMAIN src, NEW i \in DOMAIN src[n]
      PROVE  \E k \in 1..m : a.entries[k].db = n /\ place[k] = i
  <2>1. PICK q \in 1..Len(DbList) : n = DbList[q]
    BY <1>2
  <2>2. q < b.cur
    BY <1>2 DEF BuilderEOF, GoodBuilder
  <2>3. Behind(b, q, i)
    BY <2>2 DEF Behind
  <2> QED BY <1>3, <1>4, <2>1, <2>3
<1>7. \A j, k \in 1..m : a.entries[j].db = a.entries[k].db => which[j] = which[k]
  BY <1>2, <1>3, <1>4
<1>8. ASSUME NEW j \in 1..m, NEW k \in 1..m, j < k, a.entries[j].db = a.entries[k].db
      PROVE  place[j] < place[k]
  <2>1. which[j] = which[k] /\ which[k] \in Nat
    BY <1>2, <1>3, <1>7, <1>8
  <2> QED BY <1>3, <1>8, <2>1
<1>9. ASSUME NEW i \in 1..m, NEW j \in 1..m, NEW k \in 1..m, i < j, j < k,
             a.entries[i].db = a.entries[k].db
      PROVE  a.entries[j].db = a.entries[i].db
  <2>1. which[i] = which[k] /\ which[i] \in Nat /\ which[j] \in Nat
    <3>1. which[i] = which[k]
      BY <1>7, <1>9
    <3>2. which[i] \in 1..Len(DbList) /\ which[j] \in 1..Len(DbList)
      BY <1>3
    <3> QED BY <1>2, <3>1, <3>2
  <2>2. which[i] <= which[j] /\ which[j] <= which[k]
    BY <1>3, <1>9, <2>1
  <2> QED BY <1>4, <2>1, <2>2
<1> QED BY <1>1, <1>3, <1>5, <1>6, <1>8, <1>9 DEF Copied

-----------------------------------------------------------------------------
(* The reader goes through the archive. *)

(* What the reader needs to know of the archive of a backup. *)
Backed(a) ==
    /\ Len(a.entries) \in Nat /\ a.torn = FALSE
    /\ \A k \in 1..Len(a.entries) : SplitTarPath(a.entries[k])
    /\ \A i, j, k \in 1..Len(a.entries) :
          i < j /\ j < k /\ a.entries[i].db = a.entries[k].db => a.entries[j].db = a.entries[i].db

LEMMA CopiedIsBacked ==
  ASSUME NEW a, NEW src, NEW place, Copied(a, src, place)
  PROVE  Backed(a)
  BY DEF Copied, Backed, GoodArchive, EntryOf, SplitTarPath

(* The databases that have records which the filter lets through. *)
Wanted(a, f) == {n \in {a.entries[k].db : k \in 1..Len(a.entries)} : IsSelected(f, n)}

LEMMA SelectedFacts ==
  ASSUME NEW a, Backed(a), NEW f
  PROVE  /\ Len(a.entries) \in Nat /\ Selected(a, f) \subseteq 1..Len(a.entries)
         /\ Selected(a, f) \in SUBSET Nat
         /\ \A k \in Selected(a, f) : /\ SplitTarPath(a.entries[k]) /\ a.entries[k].db \in Wanted(a, f)
                                    /\ a.entries[k].db # NoName /\ k \in Of(a, a.entries[k].db)
         /\ \A n \in Wanted(a, f) : Of(a, n) \subseteq Selected(a, f)
         /\ \A n : n \notin Wanted(a, f) => Of(a, n) \cap Selected(a, f) = {}
<1>1. Len(a.entries) \in Nat /\ \A k \in 1..Len(a.entries) : SplitTarPath(a.entries[k])
  BY DEF Backed
<1>2. Selected(a, f) \subseteq 1..Len(a.entries)
  BY DEF Selected
<1>3. Selected(a, f) \in SUBSET Nat
  BY <1>1, <1>2
<1>4. \A k \in Selected(a, f) : /\ SplitTarPath(a.entries[k]) /\ a.entries[k].db \in Wanted(a, f)
                               /\ a.entries[k].db # NoName /\ k \in Of(a, a.entries[k].db)
  BY <1>1 DEF Selected, Of, SplitTarPath, Wanted
<1>5. \A n \in Wanted(a, f) : Of(a, n) \subseteq Selected(a, f)
  BY DEF Selected, Of, Wanted
<1>6. \A n : n \notin Wanted(a, f) => Of(a, n) \cap Selected(a, f) = {}
  BY DEF Selected, Of, Wanted
<1> QED BY <1>1, <1>2, <1>3, <1>4, <1>5, <1>6

(* The search loop stops at the first selected record after the position. *)
Ahead(a, f, r) == {k \in Selected(a, f) : k > r.pos}

LEMMA HitsAre ==
  ASSUME NEW a, Backed(a), NEW f, NEW r, r.pos \in 0..Len(a.entries), r.db \in Wanted(a, f) \cup {NoName}
  PROVE  {i \in (r.pos + 1)..Len(a.entries) : Found(a, f, r, i)} = Ahead(a, f, r)
<1>1. Len(a.entries) \in Nat /\ r.pos \in Nat
  BY SelectedFacts
<1>2. \A i \in 1..Len(a.entries) : a.entries[i].db \in Wanted(a, f) <=> i \in Selected(a, f)
  BY DEF Wanted, Selected
<1>3. \A i \in 1..Len(a.entries) : Found(a, f, r, i) <=> i \in Selected(a, f)
  BY <1>2 DEF Found, Selected, SplitTarPath, Backed
<1>4. \A i : i \in (r.pos + 1)..Len(a.entries) <=> i \in 1..Len(a.entries) /\ i > r.pos
  BY <1>1
<1>5. \A i : i \in Ahead(a, f, r) => i \in 1..Len(a.entries)
  BY SelectedFacts DEF Ahead
<1> QED BY <1>3, <1>4, <1>5 DEF Ahead

(* What Retrieve finds when nothing is loaded. *)
Finds(a, f, r, q) ==
    /\ DOMAIN q = ReaderFields
    /\ Ahead(a, f, r) # {} =>
          /\ q.pos \in Ahead(a, f, r) /\ \A k \in Ahead(a, f, r) : q.pos <= k
          /\ q.db = a.entries[q.pos].db /\ q.meta = q.pos /\ ~Throws(r, q)
          /\ q.state = IF q.db = r.db \/ r.db = NoName THEN "NEXT" ELSE "DBEND"
    /\ Ahead(a, f, r) = {} => ~Throws(r, q) /\ q.state = "EOF" /\ q.pos = Len(a.entries)

LEMMA RetrieveFinds ==
  ASSUME NEW a, Backed(a), NEW f, NEW r, GoodReader(a, f, r), r.state = "EMPTY",
         NEW own \in BOOLEAN, NEW q, q = Retrieve(a, f, r, own)
  PROVE  Finds(a, f, r, q)
<1>1. r.pos \in 0..Len(a.entries) /\ DOMAIN r = ReaderFields
  BY DEF GoodReader
<1>2. r.db \in Wanted(a, f) \cup {NoName}
  BY SelectedFacts DEF GoodReader, New
<1>3. PICK i : i = Min(Ahead(a, f, r))
  OBVIOUS
<1>4. {j \in (r.pos + 1)..Len(a.entries) : Found(a, f, r, j)} = Ahead(a, f, r)
  BY <1>1, <1>2, HitsAre
<1>5. CASE Ahead(a, f, r) # {}
  <2>1. i \in Ahead(a, f, r) /\ \A k \in Ahead(a, f, r) : i <= k
    <3>1. Ahead(a, f, r) \in SUBSET Nat
      BY SelectedFacts DEF Ahead
    <3> QED BY <1>3, <1>5, <3>1, LeastOf
  <2>2. PICK st : st = IF a.entries[i].db = r.db \/ r.db = NoName THEN "NEXT" ELSE "DBEND"
    OBVIOUS
  <2>3. PICK h : q = [r EXCEPT !.state = st, !.pos = i, !.db = a.entries[i].db, !.meta = i, !.held = h]
    <3>1. PICK h : h = IF own THEN i ELSE r.held
      OBVIOUS
    <3> QED BY <1>3, <1>4, <1>5, <2>2, <3>1 DEF Retrieve
  <2>4. /\ DOMAIN q = ReaderFields /\ q.pos = i /\ q.db = a.entries[i].db /\ q.meta = i
        /\ q.state = st /\ q.threw = r.threw
    BY <1>1, <2>3 DEF ReaderFields
  <2> QED BY <1>5, <2>1, <2>2, <2>4 DEF Throws, Finds
<1>6. CASE Ahead(a, f, r) = {}
  <2>1. PICK h : h = IF own THEN 0 ELSE r.held
    OBVIOUS
  <2>2. q = [r EXCEPT !.state = "EOF", !.pos = Len(a.entries), !.held = h]
    BY <1>4, <1>6, <2>1 DEF Retrieve, Backed
  <2>3. DOMAIN q = ReaderFields /\ q.threw = r.threw /\ q.state = "EOF" /\ q.pos = Len(a.entries)
    BY <1>1, <2>2 DEF ReaderFields
  <2> QED BY <1>6, <2>3 DEF Throws, Finds
<1> QED BY <1>5, <1>6

(* What a reader in state NEXT, and one that has given its record, have behind
   them. *)
LEMMA PastIs ==
  ASSUME NEW a, Backed(a), NEW f, NEW r, r.pos \in Nat
  PROVE  /\ r.state \in {"NEXT", "DBEND"} => Past(a, f, r) = {k \in Selected(a, f) : k < r.pos}
         /\ r.state \in {"EMPTY", "EOF"} => Past(a, f, r) = {k \in Selected(a, f) : k <= r.pos}
<1>1. Selected(a, f) \in SUBSET Nat
  BY SelectedFacts
<1>2. \A k \in Nat : k <= r.pos <=> k < r.pos \/ k = r.pos
  OBVIOUS
<1> QED BY <1>1, <1>2 DEF Past

(* Nothing but records of database n is between p and q, which is the first of
   another database: then all of n is before q, and what is before p stays the
   same for the others. *)
LEMMA NextDatabase ==
  ASSUME NEW a, Backed(a), NEW f, NEW n \in Wanted(a, f), NEW p \in Of(a, n),
         NEW q \in Selected(a, f), p < q, a.entries[q].db # n,
         \A k \in Selected(a, f) : p < k /\ k < q => a.entries[k].db = n
  PROVE  /\ Of(a, n) \subseteq {k \in Selected(a, f) : k < q}
         /\ \A m \in Wanted(a, f) \ {n} : \A k \in Of(a, m) : k < q <=> k < p
<1>1. /\ Of(a, n) \subseteq Selected(a, f) /\ Selected(a, f) \subseteq 1..Len(a.entries)
      /\ Len(a.entries) \in Nat /\ Selected(a, f) \in SUBSET Nat
  BY SelectedFacts
<1>2. ASSUME NEW k \in Of(a, n) PROVE k < q
  <2> SUFFICES ASSUME ~(k < q) PROVE FALSE
    OBVIOUS
  <2>1. k \in Nat /\ q \in Nat /\ k # q /\ q < k
    BY <1>1 DEF Of
  <2>2. p \in 1..Len(a.entries) /\ q \in 1..Len(a.entries) /\ k \in 1..Len(a.entries)
    BY <1>1
  <2>4. a.entries[p].db = n /\ a.entries[k].db = n
    BY DEF Of
  <2> QED BY <2>1, <2>2, <2>4 DEF Backed
<1>3. ASSUME NEW m \in Wanted(a, f) \ {n}, NEW k \in Of(a, m) PROVE k < q <=> k < p
  <2>1. k \in Selected(a, f) /\ a.entries[k].db = m
    BY SelectedFacts DEF Of
  <2>2. k # p
    BY <2>1 DEF Of
  <2>3. k \in Nat /\ p \in Nat /\ q \in Nat
    BY <1>1, <2>1
  <2>4. ~(p < k /\ k < q)
    BY <2>1
  <2> QED BY <2>2, <2>3, <2>4
<1> QED BY <1>1, <1>2, <1>3

(* Nothing but records of n is after p. *)
LEMMA LastDatabase ==
  ASSUME NEW a, Backed(a), NEW f, NEW n \in Wanted(a, f), NEW p \in Of(a, n),
         \A k \in Selected(a, f) : p < k => a.entries[k].db = n
  PROVE  \A m \in Wanted(a, f) \ {n} : \A k \in Of(a, m) : k < p
<1> SUFFICES ASSUME NEW m \in Wanted(a, f) \ {n}, NEW k \in Of(a, m) PROVE k < p
  OBVIOUS
<1>1. k \in Selected(a, f) /\ a.entries[k].db = m /\ p \in Selected(a, f)
  BY SelectedFacts DEF Of
<1>2. k # p /\ ~(p < k)
  BY <1>1 DEF Of
<1>3. k \in Nat /\ p \in Nat
  BY <1>1, SelectedFacts
<1> QED BY <1>2, <1>3

(* The reader q stands where database n is over for the reader r. *)
Leaves(a, f, r, q, n) ==
    /\ GoodReader(a, f, q) /\ q.state \in {"NEXT", "EOF"}
    /\ Of(a, n) \subseteq Past(a, f, q)
    /\ \A m : m # n => Of(a, m) \cap Past(a, f, q) = Of(a, m) \cap Past(a, f, r)

LEMMA InsideFacts ==
  ASSUME NEW a, Backed(a), NEW f, NEW r, NEW n, Inside(a, f, r, n)
  PROVE  /\ r.pos \in Of(a, n) /\ r.pos \in Selected(a, f) /\ n \in Wanted(a, f) /\ n # NoName
         /\ r.pos \in Nat /\ DOMAIN r = ReaderFields
         /\ \A m \in Wanted(a, f) \ {n} : Of(a, m) \cap Past(a, f, r) = {k \in Of(a, m) : k < r.pos}
<1>1. r.pos \in Selected(a, f) /\ n = a.entries[r.pos].db /\ DOMAIN r = ReaderFields
  BY DEF Inside, GoodReader, Loaded
<1>2. r.pos \in Of(a, n) /\ n \in Wanted(a, f) /\ n # NoName /\ r.pos \in Nat
  BY <1>1, SelectedFacts
<1>3. ASSUME NEW m \in Wanted(a, f) \ {n} PROVE Of(a, m) \cap Past(a, f, r) = {k \in Of(a, m) : k < r.pos}
  <2>1. Of(a, m) \subseteq Selected(a, f)
    BY SelectedFacts
  <2>2. r.pos \notin Of(a, m)
    BY <1>1 DEF Of
  <2> QED BY <2>1, <2>2 DEF Past
<1> QED BY <1>1, <1>2, <1>3

(* Where a reader has to stand to have left n. *)
LEMMA LeavesToNext ==
  ASSUME NEW a, Backed(a), NEW f, NEW r, NEW n, Inside(a, f, r, n),
         NEW q, DOMAIN q = ReaderFields, q.state = "NEXT", Loaded(a, f, q), r.pos < q.pos, q.db # n,
         \A k \in Selected(a, f) : r.pos < k /\ k < q.pos => a.entries[k].db = n
  PROVE  Leaves(a, f, r, q, n)
<1>1. /\ r.pos \in Of(a, n) /\ n \in Wanted(a, f) /\ r.pos \in Nat
      /\ \A m \in Wanted(a, f) \ {n} : Of(a, m) \cap Past(a, f, r) = {k \in Of(a, m) : k < r.pos}
  BY InsideFacts
<1>2. q.pos \in Selected(a, f) /\ a.entries[q.pos].db # n
  BY DEF Loaded
<1>3. /\ Of(a, n) \subseteq {k \in Selected(a, f) : k < q.pos}
      /\ \A m \in Wanted(a, f) \ {n} : \A k \in Of(a, m) : k < q.pos <=> k < r.pos
  BY <1>1, <1>2, NextDatabase
<1>4. Selected(a, f) \subseteq 1..Len(a.entries) /\ Len(a.entries) \in Nat
  BY SelectedFacts
<1>5. q.pos \in 0..Len(a.entries) /\ q.pos \in Nat
  BY <1>2, <1>4
<1>6. GoodReader(a, f, q)
  BY <1>5 DEF GoodReader
<1>7. Past(a, f, q) = {k \in Selected(a, f) : k < q.pos}
  BY <1>5, PastIs
<1>8. \A m \in Wanted(a, f) : Of(a, m) \subseteq Selected(a, f)
  BY SelectedFacts
<1>9. ASSUME NEW m, m # n PROVE Of(a, m) \cap Past(a, f, q) = Of(a, m) \cap Past(a, f, r)
  <2>1. CASE m \in Wanted(a, f)
    BY <1>1, <1>3, <1>7, <1>8, <1>9, <2>1
  <2>2. CASE m \notin Wanted(a, f)
    BY <2>2, SelectedFacts DEF Past
  <2> QED BY <2>1, <2>2
<1> QED BY <1>1, <1>3, <1>6, <1>7, <1>8, <1>9 DEF Leaves

LEMMA LeavesToEnd ==
  ASSUME NEW a, Backed(a), NEW f, NEW r, NEW n, Inside(a, f, r, n),
         NEW q, DOMAIN q = ReaderFields, q.state = "EOF", q.pos = Len(a.entries),
         \A k \in Selected(a, f) : r.pos < k => a.entries[k].db = n
  PROVE  Leaves(a, f, r, q, n)
<1>1. /\ r.pos \in Of(a, n) /\ n \in Wanted(a, f) /\ r.pos \in Nat
      /\ \A m \in Wanted(a, f) \ {n} : Of(a, m) \cap Past(a, f, r) = {k \in Of(a, m) : k < r.pos}
  BY InsideFacts
<1>2. \A m \in Wanted(a, f) \ {n} : \A k \in Of(a, m) : k < r.pos
  BY <1>1, LastDatabase
<1>3. Selected(a, f) \subseteq 1..Len(a.entries) /\ Len(a.entries) \in Nat
  BY SelectedFacts
<1>4. GoodReader(a, f, q)
  BY <1>3 DEF GoodReader
<1>5. Past(a, f, q) = Selected(a, f)
  BY <1>3, PastIs
<1>6. \A m \in Wanted(a, f) : Of(a, m) \subseteq Selected(a, f)
  BY SelectedFacts
<1>7. ASSUME NEW m, m # n PROVE Of(a, m) \cap Past(a, f, q) = Of(a, m) \cap Past(a, f, r)
  <2>1. CASE m \in Wanted(a, f)
    BY <1>1, <1>2, <1>5, <1>6, <1>7, <2>1
  <2>2. CASE m \notin Wanted(a, f)
    BY <2>2, SelectedFacts DEF Past
  <2> QED BY <2>1, <2>2
<1> QED BY <1>1, <1>2, <1>4, <1>5, <1>6, <1>7 DEF Leaves

(* What looking ahead from inside n, with nothing loaded, comes to. *)
Nears(a, f, r, q) == r.pos < q.pos /\ \A k \in Selected(a, f) : r.pos < k => q.pos <= k
SeesOwn(a, f, r, q, n) ==
    ~Throws(r, q) /\ q.state = "NEXT" /\ Loaded(a, f, q) /\ q.db = n /\ Nears(a, f, r, q)
SeesOther(a, f, r, q, n) ==
    ~Throws(r, q) /\ q.state = "DBEND" /\ Loaded(a, f, q) /\ q.db # n /\ Nears(a, f, r, q)
SeesEnd(a, f, r, q) ==
    /\ ~Throws(r, q) /\ q.state = "EOF" /\ q.pos = Len(a.entries)
    /\ \A k \in Selected(a, f) : ~(r.pos < k)

LEMMA AheadOf ==
  ASSUME NEW a, Backed(a), NEW f, NEW r, NEW n, Inside(a, f, r, n), r.state = "EMPTY",
         NEW own \in BOOLEAN, NEW q, q = Retrieve(a, f, r, own)
  PROVE  /\ DOMAIN q = ReaderFields
         /\ SeesOwn(a, f, r, q, n) \/ SeesOther(a, f, r, q, n) \/ SeesEnd(a, f, r, q)
<1>1. GoodReader(a, f, r) /\ r.db = n
  BY DEF Inside
<1>2. n # NoName /\ r.pos \in Nat
  BY InsideFacts
<1>3. Selected(a, f) \in SUBSET Nat
  BY SelectedFacts
<1>4. \A k \in Selected(a, f) : k \in Ahead(a, f, r) <=> r.pos < k
  BY <1>2, <1>3 DEF Ahead
<1>5. Ahead(a, f, r) \subseteq Selected(a, f)
  BY DEF Ahead
<1>6. Finds(a, f, r, q)
  BY <1>1, RetrieveFinds
<1>7. CASE Ahead(a, f, r) # {}
  <2>1. Loaded(a, f, q) /\ r.pos < q.pos
    BY <1>4, <1>5, <1>6, <1>7 DEF Loaded, Finds
  <2>2. Nears(a, f, r, q)
    BY <1>4, <1>6, <1>7, <2>1 DEF Finds, Nears
  <2>3. ~Throws(r, q) /\ q.state = IF q.db = n THEN "NEXT" ELSE "DBEND"
    BY <1>1, <1>2, <1>6, <1>7 DEF Finds
  <2> QED BY <1>6, <2>1, <2>2, <2>3 DEF Finds, SeesOwn, SeesOther
<1>8. CASE Ahead(a, f, r) = {}
  BY <1>4, <1>6, <1>8 DEF Finds, SeesEnd
<1>9. DOMAIN q = ReaderFields
  BY <1>6 DEF Finds
<1> QED BY <1>7, <1>8, <1>9

(* FetchRecord gives the next record of n, or leaves n when all of it was
   given. *)
Gives(a, f, r, g, n) ==
    /\ Inside(a, f, g.obj, n) /\ g.rec.id \in Of(a, n)
    /\ Past(a, f, r) = {k \in Selected(a, f) : k < g.rec.id}
    /\ Past(a, f, g.obj) = Past(a, f, r) \cup {g.rec.id}
Fetched(a, f, r, g, n) ==
    \/ g.ret = "true" /\ Gives(a, f, r, g, n)
    \/ g.ret = "false" /\ Leaves(a, f, r, g.obj, n) /\ Of(a, n) \subseteq Past(a, f, r)

LEMMA FetchRecordDoes ==
  ASSUME NEW a, Backed(a), NEW f, NEW r, NEW n, Inside(a, f, r, n),
         NEW g, g = FetchRecord(a, f, r)
  PROVE  Fetched(a, f, r, g, n)
<1>1. PICK q : q = Retrieve(a, f, r, FALSE)
  OBVIOUS
<1>3. /\ r.pos \in Of(a, n) /\ r.pos \in Selected(a, f) /\ n \in Wanted(a, f) /\ n # NoName
      /\ r.pos \in Nat /\ DOMAIN r = ReaderFields
  BY InsideFacts
<1>4. Selected(a, f) \in SUBSET Nat /\ Selected(a, f) \subseteq 1..Len(a.entries) /\ Len(a.entries) \in Nat
  BY SelectedFacts
<1>5. ASSUME NEW s, NEW data, g = Deliver(r, s, data), ~Throws(r, s), s.state = "NEXT",
             DOMAIN s = ReaderFields, Loaded(a, f, s), s.db = n,
             Past(a, f, r) = {k \in Selected(a, f) : k < s.pos}
      PROVE  Fetched(a, f, r, g, n)
  <2>1. g = Record(s, data)
    BY <1>5 DEF Deliver
  <2>2. PICK o : o = [s EXCEPT !.state = "EMPTY"]
    OBVIOUS
  <2>3. g.ret = "true" /\ g.obj = o /\ g.rec.id = s.pos
    BY <1>5, <2>1, <2>2 DEF Record, Loaded
  <2>4. o.state = "EMPTY" /\ o.pos = s.pos /\ o.db = s.db /\ DOMAIN o = ReaderFields
    BY <1>5, <2>2 DEF ReaderFields
  <2>5. /\ s.pos \in Selected(a, f) /\ s.db = a.entries[s.pos].db /\ s.pos \in 1..Len(a.entries)
        /\ s.pos \in Nat /\ s.pos # 0
    BY <1>4, <1>5 DEF Loaded
  <2>6. o # New
    BY <2>4, <2>5 DEF New
  <2>7. Inside(a, f, o, n)
    BY <1>5, <2>4, <2>5, <2>6 DEF Inside, GoodReader
  <2>8. Past(a, f, o) = {k \in Selected(a, f) : k <= s.pos}
    BY <2>4, <2>5, PastIs
  <2>9. Past(a, f, o) = Past(a, f, r) \cup {s.pos}
    <3>1. \A k \in Selected(a, f) : k <= s.pos <=> k < s.pos \/ k = s.pos
      BY <1>4, <2>5
    <3> QED BY <1>5, <2>5, <2>8, <3>1
  <2>10. s.pos \in Of(a, n)
    BY <1>5, <2>5, SelectedFacts
  <2>11. Gives(a, f, r, g, n)
    BY <1>5, <2>3, <2>7, <2>9, <2>10 DEF Gives
  <2> QED BY <2>3, <2>11 DEF Fetched
<1>6. CASE r.state = "NEXT"
  <2>1. g = Deliver(r, r, r.held) /\ ~Throws(r, r)
    BY <1>6 DEF FetchRecord, Throws
  <2>2. Loaded(a, f, r) /\ r.db = n
    BY <1>6 DEF Inside, GoodReader
  <2>3. Past(a, f, r) = {k \in Selected(a, f) : k < r.pos}
    BY <1>3, <1>6, PastIs
  <2> QED BY <1>3, <1>5, <1>6, <2>1, <2>2, <2>3
<1>7. CASE r.state = "EMPTY"
  <2>0. Past(a, f, r) = {k \in Selected(a, f) : k <= r.pos}
    BY <1>3, <1>7, PastIs
  <2>1. /\ DOMAIN q = ReaderFields
        /\ SeesOwn(a, f, r, q, n) \/ SeesOther(a, f, r, q, n) \/ SeesEnd(a, f, r, q)
    <3>1. FALSE \in BOOLEAN
      OBVIOUS
    <3> QED BY <1>1, <1>7, <3>1, AheadOf
  <2>2. CASE SeesOwn(a, f, r, q, n)
    <3>0. /\ ~Throws(r, q) /\ q.state = "NEXT" /\ Loaded(a, f, q) /\ q.db = n /\ r.pos < q.pos
          /\ \A k \in Selected(a, f) : r.pos < k => q.pos <= k
      BY <2>2 DEF SeesOwn, Nears
    <3>1. g = Deliver(r, q, q.pos)
      BY <1>1, <1>7, <3>0 DEF FetchRecord
    <3>2. q.pos \in Nat
      BY <1>4, <3>0 DEF Loaded
    <3>3. \A k \in Selected(a, f) : k <= r.pos <=> k < q.pos
      BY <1>3, <1>4, <3>0, <3>2
    <3>4. Past(a, f, r) = {k \in Selected(a, f) : k < q.pos}
      BY <2>0, <3>3
    <3> QED BY <1>5, <2>1, <3>0, <3>1, <3>4
  <2>3. CASE SeesOther(a, f, r, q, n)
    <3>0. /\ ~Throws(r, q) /\ q.state = "DBEND" /\ Loaded(a, f, q) /\ q.db # n /\ r.pos < q.pos
          /\ \A k \in Selected(a, f) : r.pos < k => q.pos <= k
      BY <2>3 DEF SeesOther, Nears
    <3>a. PICK w : w = [q EXCEPT !.held = q.pos]
      OBVIOUS
    <3>b. /\ w.state = "DBEND" /\ w.pos = q.pos /\ w.db = q.db /\ w.meta = q.meta /\ w.threw = q.threw
          /\ DOMAIN w = ReaderFields
      BY <2>1, <3>0, <3>a DEF ReaderFields
    <3>c. g = Deliver(r, w, q.pos)
      BY <1>1, <1>7, <3>0, <3>a DEF FetchRecord
    <3>1. PICK o : o = [w EXCEPT !.state = "NEXT"]
      OBVIOUS
    <3>2. g.ret = "false" /\ g.obj = o
      <4>1. ~Throws(r, w)
        BY <3>0, <3>b DEF Throws
      <4> QED BY <3>1, <3>b, <3>c, <4>1 DEF Deliver, Nothing
    <3>3. /\ o.state = "NEXT" /\ o.pos = q.pos /\ o.db = q.db /\ o.meta = q.meta
          /\ DOMAIN o = ReaderFields
      BY <3>1, <3>b DEF ReaderFields
    <3>4. Loaded(a, f, o) /\ q.pos \in Nat
      BY <1>4, <3>0, <3>3 DEF Loaded
    <3>5. \A k \in Selected(a, f) : r.pos < k /\ k < o.pos => a.entries[k].db = n
      BY <1>4, <3>0, <3>3, <3>4
    <3>6. Leaves(a, f, r, o, n)
      BY <3>0, <3>3, <3>4, <3>5, LeavesToNext
    <3>7. Past(a, f, o) = {k \in Selected(a, f) : k < q.pos}
      BY <3>3, <3>4, PastIs
    <3>8. \A k \in Selected(a, f) : k < q.pos => k <= r.pos
      BY <1>3, <1>4, <3>0, <3>4
    <3>9. Of(a, n) \subseteq Past(a, f, r)
      BY <2>0, <3>6, <3>7, <3>8 DEF Leaves
    <3> QED BY <3>2, <3>6, <3>9 DEF Fetched
  <2>4. CASE SeesEnd(a, f, r, q)
    <3>0. /\ ~Throws(r, q) /\ q.state = "EOF" /\ q.pos = Len(a.entries)
          /\ \A k \in Selected(a, f) : ~(r.pos < k)
      BY <2>4 DEF SeesEnd
    <3>1. g.ret = "false" /\ g.obj = q
      BY <1>1, <1>7, <3>0 DEF FetchRecord, Deliver, Nothing
    <3>2. Leaves(a, f, r, q, n)
      BY <2>1, <3>0, LeavesToEnd
    <3>3. Past(a, f, r) = Selected(a, f) /\ Of(a, n) \subseteq Selected(a, f)
      BY <1>3, <1>4, <2>0, <3>0, SelectedFacts
    <3> QED BY <3>1, <3>2, <3>3 DEF Fetched
  <2> QED BY <2>1, <2>2, <2>3, <2>4
<1> QED BY <1>6, <1>7 DEF Inside

(* SkipCurrentDB leaves n, whatever of it was read. *)
LEMMA SkipDoes ==
  ASSUME NEW a, Backed(a), NEW f, NEW r, NEW n, Inside(a, f, r, n)
  PROVE  Leaves(a, f, r, SkipCurrentDB(a, f, r), n)
<1>1. PICK q, s, z : /\ q = Retrieve(a, f, r, TRUE)
                     /\ s = SkipLoop(a, f, r)
                     /\ z = SkipCurrentDB(a, f, r)
  OBVIOUS
<1> SUFFICES Leaves(a, f, r, z, n)
  BY <1>1
<1>2. PICK others : others = {i \in (q.pos + 1)..Len(a.entries) :
                                 Found(a, f, q, i) /\ a.entries[i].db # q.db}
  OBVIOUS
<1>3. z = IF s.state = "DBEND" THEN [s EXCEPT !.state = "NEXT"] ELSE s
  BY <1>1 DEF SkipCurrentDB
<1>4. /\ r.pos \in Of(a, n) /\ r.pos \in Selected(a, f) /\ n \in Wanted(a, f) /\ n # NoName
      /\ r.pos \in Nat /\ DOMAIN r = ReaderFields
  BY InsideFacts
<1>5. Selected(a, f) \in SUBSET Nat /\ Selected(a, f) \subseteq 1..Len(a.entries) /\ Len(a.entries) \in Nat
  BY SelectedFacts
<1>6. ASSUME ~Throws(r, q), q.state = "NEXT", DOMAIN q = ReaderFields, Loaded(a, f, q), q.db = n,
             r.pos <= q.pos, \A k \in Selected(a, f) : r.pos < k => q.pos <= k
      PROVE  Leaves(a, f, r, z, n)
  <2>1. q.pos \in Selected(a, f) /\ q.pos \in 0..Len(a.entries) /\ q.pos \in Nat
    BY <1>5, <1>6 DEF Loaded
  <2>2. others = {i \in Ahead(a, f, q) : a.entries[i].db # n}
    <3>1. {i \in (q.pos + 1)..Len(a.entries) : Found(a, f, q, i)} = Ahead(a, f, q)
      BY <1>4, <1>6, <2>1, HitsAre
    <3> QED BY <1>2, <1>6, <3>1
  <2>3. \A i \in others : i \in Selected(a, f) /\ q.pos < i /\ a.entries[i].db # n
    BY <1>5, <2>1, <2>2 DEF Ahead
  <2>4. \A i \in Selected(a, f) : q.pos < i /\ i \notin others => a.entries[i].db = n
    BY <1>5, <2>1, <2>2 DEF Ahead
  <2>5. a.entries[q.pos].db = n
    BY <1>6 DEF Loaded
  <2>6. CASE others # {}
    <3>1. PICK m : m = Min(others)
      OBVIOUS
    <3>2. m \in others /\ \A i \in others : m <= i
      <4>1. others \in SUBSET Nat
        BY <1>5, <2>3
      <4> QED BY <2>6, <3>1, <4>1, LeastOf
    <3>3. s = [q EXCEPT !.state = "DBEND", !.pos = m, !.held = m, !.meta = m,
                        !.db = a.entries[m].db]
      BY <1>1, <1>2, <1>6, <2>6, <3>1 DEF SkipLoop
    <3>4. /\ s.state = "DBEND" /\ s.pos = m /\ s.meta = m /\ s.db = a.entries[m].db
          /\ DOMAIN s = ReaderFields
      BY <1>6, <3>3 DEF ReaderFields
    <3>5. z = [s EXCEPT !.state = "NEXT"]
      BY <1>3, <3>4
    <3>6. /\ z.state = "NEXT" /\ z.pos = m /\ z.meta = m /\ z.db = a.entries[m].db
          /\ DOMAIN z = ReaderFields
      BY <3>4, <3>5 DEF ReaderFields
    <3>7. Loaded(a, f, z) /\ z.db # n /\ m \in Nat /\ r.pos < z.pos
      BY <1>4, <1>5, <1>6, <2>1, <2>3, <3>2, <3>6 DEF Loaded
    <3>8. \A k \in Selected(a, f) : r.pos < k /\ k < z.pos => a.entries[k].db = n
      <4> SUFFICES ASSUME NEW k \in Selected(a, f), r.pos < k, k < m PROVE a.entries[k].db = n
        BY <3>6
      <4>1. q.pos <= k /\ k \in Nat
        BY <1>5, <1>6
      <4>2. k = q.pos \/ (q.pos < k /\ k \notin others)
        BY <2>1, <3>2, <3>7, <4>1
      <4> QED BY <2>4, <2>5, <4>2
    <3> QED BY <3>6, <3>7, <3>8, LeavesToNext
  <2>7. CASE others = {}
    <3>1. s = [q EXCEPT !.state = "EOF", !.pos = Len(a.entries)]
      BY <1>1, <1>2, <1>6, <2>7 DEF SkipLoop
    <3>2. s.state = "EOF" /\ s.pos = Len(a.entries) /\ DOMAIN s = ReaderFields
      BY <1>6, <3>1 DEF ReaderFields
    <3>3. \A k \in Selected(a, f) : r.pos < k => a.entries[k].db = n
      <4> SUFFICES ASSUME NEW k \in Selected(a, f), r.pos < k PROVE a.entries[k].db = n
        OBVIOUS
      <4>1. q.pos <= k /\ k \in Nat
        BY <1>5, <1>6
      <4>2. k = q.pos \/ q.pos < k
        BY <2>1, <4>1
      <4> QED BY <2>4, <2>5, <2>7, <4>2
    <3>4. z = s
      BY <1>3, <3>2
    <3> QED BY <3>2, <3>3, <3>4, LeavesToEnd
  <2> QED BY <2>6, <2>7
<1>7. CASE r.state = "NEXT"
  <2>1. q = r /\ ~Throws(r, q)
    BY <1>1, <1>7 DEF Retrieve, Throws
  <2>2. Loaded(a, f, r) /\ r.db = n
    BY <1>7 DEF Inside, GoodReader
  <2>3. r.pos <= r.pos /\ \A k \in Selected(a, f) : r.pos < k => r.pos <= k
    BY <1>4, <1>5
  <2>4. /\ q.state = "NEXT" /\ DOMAIN q = ReaderFields /\ Loaded(a, f, q) /\ q.db = n
        /\ r.pos <= q.pos /\ \A k \in Selected(a, f) : r.pos < k => q.pos <= k
    BY <1>4, <1>7, <2>1, <2>2, <2>3
  <2> QED BY <1>6, <2>1, <2>4
<1>8. CASE r.state = "EMPTY"
  <2>1. /\ DOMAIN q = ReaderFields
        /\ SeesOwn(a, f, r, q, n) \/ SeesOther(a, f, r, q, n) \/ SeesEnd(a, f, r, q)
    <3>1. TRUE \in BOOLEAN
      OBVIOUS
    <3> QED BY <1>1, <1>8, <3>1, AheadOf
  <2>2. CASE SeesOwn(a, f, r, q, n)
    <3>0. /\ ~Throws(r, q) /\ q.state = "NEXT" /\ Loaded(a, f, q) /\ q.db = n /\ r.pos < q.pos
          /\ \A k \in Selected(a, f) : r.pos < k => q.pos <= k
      BY <2>2 DEF SeesOwn, Nears
    <3>1. q.pos \in Nat
      BY <1>5, <3>0 DEF Loaded
    <3>2. r.pos <= q.pos
      BY <1>4, <3>0, <3>1
    <3> QED BY <1>6, <2>1, <3>0, <3>2
  <2>3. CASE SeesOther(a, f, r, q, n)
    <3>0. /\ ~Throws(r, q) /\ q.state = "DBEND" /\ Loaded(a, f, q) /\ q.db # n /\ r.pos < q.pos
          /\ \A k \in Selected(a, f) : r.pos < k => q.pos <= k
      BY <2>3 DEF SeesOther, Nears
    <3>1. s = q
      BY <1>1, <3>0 DEF SkipLoop
    <3>2. z = [q EXCEPT !.state = "NEXT"]
      BY <1>3, <3>0, <3>1
    <3>3. /\ z.state = "NEXT" /\ z.pos = q.pos /\ z.db = q.db /\ z.meta = q.meta
          /\ DOMAIN z = ReaderFields
      BY <2>1, <3>2 DEF ReaderFields
    <3>4. Loaded(a, f, z) /\ q.pos \in Nat
      BY <1>5, <3>0, <3>3 DEF Loaded
    <3>5. \A k \in Selected(a, f) : r.pos < k /\ k < z.pos => a.entries[k].db = n
      BY <1>5, <3>0, <3>3, <3>4
    <3> QED BY <3>0, <3>3, <3>4, <3>5, LeavesToNext
  <2>4. CASE SeesEnd(a, f, r, q)
    <3>0. q.state = "EOF" /\ \A k \in Selected(a, f) : ~(r.pos < k)
      BY <2>4 DEF SeesEnd
    <3>1. s = [q EXCEPT !.state = "EOF", !.pos = Len(a.entries)]
      BY <1>1, <1>2, <3>0 DEF SkipLoop
    <3>2. s.state = "EOF" /\ s.pos = Len(a.entries) /\ DOMAIN s = ReaderFields
      BY <2>1, <3>1 DEF ReaderFields
    <3>3. z = s
      BY <1>3, <3>2
    <3> QED BY <3>0, <3>2, <3>3, LeavesToEnd
  <2> QED BY <2>1, <2>2, <2>3, <2>4
<1> QED BY <1>7, <1>8 DEF Inside

-----------------------------------------------------------------------------
(* The tables of a device. *)

LEMMA Bounded ==
    \A n \in Nat : \A f \in [1..n -> Nat] : \E b \in Nat : \A i \in 1..n : f[i] <= b
<1> DEFINE Good(n) == \A f \in [1..n -> Nat] : \E b \in Nat : \A i \in 1..n : f[i] <= b
           Bad == {n \in Nat : ~Good(n)}
<1> SUFFICES Bad = {}
  OBVIOUS
<1> SUFFICES ASSUME Bad # {} PROVE FALSE
  OBVIOUS
<1>1. PICK m : m = Min(Bad)
  OBVIOUS
<1>2. m \in Bad /\ \A i \in Bad : m <= i
  <2>1. Bad \in SUBSET Nat
    OBVIOUS
  <2> HIDE DEF Bad
  <2> QED BY <1>1, <2>1, LeastOf
<1>3. m \in Nat /\ ~Good(m)
  BY <1>2
<1>4. Good(0)
  <2>1. 0 \in Nat /\ 1..0 = {}
    OBVIOUS
  <2> QED BY <2>1
<1>5. m - 1 \in Nat /\ Good(m - 1)
  <2>1. m # 0
    BY <1>3, <1>4
  <2>2. m - 1 \in Nat /\ ~(m <= m - 1)
    BY <1>3, <2>1
  <2> QED BY <1>2, <2>2
<1>6. ASSUME NEW f \in [1..m -> Nat] PROVE \E b \in Nat : \A i \in 1..m : f[i] <= b
  <2>1. [i \in 1..(m - 1) |-> f[i]] \in [1..(m - 1) -> Nat]
    <3>1. \A i \in 1..(m - 1) : i \in 1..m
      BY <1>3
    <3>2. \A i \in 1..(m - 1) : f[i] \in Nat
      BY <3>1
    <3>3. PICK k : k = m - 1
      OBVIOUS
    <3>4. [i \in 1..k |-> f[i]] \in [1..k -> Nat]
      BY <3>2, <3>3
    <3> QED BY <3>3, <3>4
  <2>2. PICK b \in Nat : \A i \in 1..(m - 1) : [j \in 1..(m - 1) |-> f[j]][i] <= b
    BY <1>5, <2>1
  <2>3. \A i \in 1..(m - 1) : f[i] <= b
    BY <2>2
  <2>4. m \in 1..m /\ f[m] \in Nat /\ \A i \in 1..m : i \in 1..(m - 1) \/ i = m
    BY <1>3, <1>5
  <2>5. CASE f[m] <= b
    BY <2>3, <2>4, <2>5
  <2>6. CASE ~(f[m] <= b)
    <3>1. \A i \in 1..m : f[i] \in Nat
      OBVIOUS
    <3>2. ASSUME NEW i \in 1..m PROVE f[i] <= f[m]
      <4>1. f[i] \in Nat /\ (i \in 1..(m - 1) => f[i] <= b)
        BY <2>3, <3>1
      <4>2. CASE i = m
        BY <2>4, <4>2
      <4>3. CASE i \in 1..(m - 1)
        BY <2>4, <2>6, <4>1, <4>3
      <4> QED BY <2>4, <4>2, <4>3
    <3> QED BY <2>4, <3>2
  <2> QED BY <2>5, <2>6
<1> QED BY <1>3, <1>6

LEMMA GreatestOf ==
  ASSUME NEW S, IsFiniteSet(S), S \in SUBSET Nat, S # {}
  PROVE  Max(S) \in S /\ \A i \in S : i <= Max(S)
<1>1. PICK n : n = Cardinality(S)
  OBVIOUS
<1>2. n \in Nat /\ ExistsBijection(1..n, S)
  BY <1>1, FS_CardinalityType
<1>3. PICK f \in [1..n -> S] : \A y \in S : \E i \in 1..n : f[i] = y
  BY <1>2 DEF ExistsBijection, Bijection, Surjection
<1>4. f \in [1..n -> Nat]
  BY <1>3
<1>5. PICK b \in Nat : \A i \in 1..n : f[i] <= b
  BY <1>2, <1>4, Bounded
<1>6. PICK U : U = {c \in Nat : \A y \in S : y <= c}
  OBVIOUS
<1>7. U \in SUBSET Nat /\ b \in U
  BY <1>3, <1>5, <1>6
<1>8. PICK c : c = Min(U)
  OBVIOUS
<1>9. c \in U /\ \A i \in U : c <= i
  BY <1>7, <1>8, LeastOf
<1>10. c \in Nat /\ \A y \in S : y <= c
  BY <1>6, <1>9
<1>11. c \in S
  <2> SUFFICES ASSUME c \notin S PROVE FALSE
    OBVIOUS
  <2>1. PICK z \in S : z \in Nat
    OBVIOUS
  <2>2. c # 0
    BY <1>10, <2>1
  <2>3. c - 1 \in Nat /\ \A y \in S : y <= c - 1
    BY <1>10, <2>2
  <2>4. c - 1 \in U
    BY <1>6, <2>3
  <2> QED BY <1>9, <1>10, <2>4
<1> QED BY <1>10, <1>11 DEF Max

(* A table with one record more, at i. *)
Grown(t, u, i, id, val) ==
    /\ i \in Nat \ {0} /\ i \notin DOMAIN t /\ DOMAIN u = DOMAIN t \cup {i}
    /\ u[i].id = id /\ u[i].val = val /\ \A j \in DOMAIN t : u[j] = t[j]
    /\ \A n \in Nat : DOMAIN t = 1..n => i = n + 1
    /\ IsFiniteSet(DOMAIN u) /\ DOMAIN u \subseteq Nat \ {0}
    /\ Cardinality(DOMAIN u) = Cardinality(DOMAIN t) + 1

LEMMA AddGrows ==
  ASSUME NEW t, IsFiniteSet(DOMAIN t), DOMAIN t \subseteq Nat \ {0}, NEW id, NEW val,
         NEW u, u = AddRecord(t, id, val)
  PROVE  Grown(t, u, NextIndex(t), id, val)
<1>1. PICK D, i : D = DOMAIN t /\ i = NextIndex(t)
  OBVIOUS
<1>2. IsFiniteSet(D) /\ D \subseteq Nat \ {0} /\ D \in SUBSET Nat
  BY <1>1
<1>3. i \in Nat \ {0} /\ \A j \in D : j < i
  <2>1. CASE D = {}
    BY <1>1, <2>1 DEF NextIndex
  <2>2. CASE D # {}
    <3>1. PICK m : m = Max(D)
      OBVIOUS
    <3>2. m \in D /\ \A j \in D : j <= m
      BY <1>2, <2>2, <3>1, GreatestOf
    <3>3. i = m + 1
      BY <1>1, <2>2, <3>1 DEF NextIndex
    <3> QED BY <1>2, <3>2, <3>3
  <2> QED BY <2>1, <2>2
<1>4. i \notin D
  BY <1>3
<1>5. u = [j \in D \cup {i} |-> IF j \in D THEN t[j] ELSE Stored(id, val)]
  BY <1>1 DEF AddRecord
<1>6. DOMAIN u = D \cup {i} /\ u[i] = Stored(id, val) /\ \A j \in D : u[j] = t[j]
  BY <1>4, <1>5
<1>7. u[i].id = id /\ u[i].val = val
  BY <1>6 DEF Stored
<1>8. ASSUME NEW n \in Nat, D = 1..n PROVE i = n + 1
  <2>1. CASE n = 0
    <3>1. D = {}
      BY <1>8, <2>1
    <3> QED BY <1>1, <2>1, <3>1 DEF NextIndex
  <2>2. CASE n # 0
    <3>1. n \in D /\ D # {}
      BY <1>8, <2>2
    <3>2. PICK m : m = Max(D)
      OBVIOUS
    <3>3. m \in D /\ \A j \in D : j <= m
      BY <1>2, <3>1, <3>2, GreatestOf
    <3>4. m = n
      BY <1>8, <3>1, <3>3
    <3> QED BY <1>1, <3>1, <3>2, <3>4 DEF NextIndex
  <2> QED BY <2>1, <2>2
<1>9. IsFiniteSet(D \cup {i}) /\ Cardinality(D \cup {i}) = Cardinality(D) + 1
  BY <1>2, <1>4, FS_AddElement
<1>10. D \cup {i} \subseteq Nat \ {0}
  BY <1>2, <1>3
<1> QED BY <1>1, <1>3, <1>4, <1>6, <1>7, <1>8, <1>9, <1>10 DEF Grown

(* The id that is made is a new one. *)
LEMMA NewIdIsNew ==
  ASSUME NEW t, IsFiniteSet(DOMAIN t), NEW last \in Nat, NEW q, q = MakeNewRecordId(t, last)
  PROVE  q \in Nat /\ q > last /\ q \notin Ids(t)
<1>1. PICK D, c : D = DOMAIN t /\ c = Cardinality(D)
  OBVIOUS
<1>2. c \in Nat
  BY <1>1, FS_CardinalityType
<1>3. PICK I, X, e : e = last + c + 1 /\ I = (last + 1)..e /\ X = Ids(t)
  OBVIOUS
<1>4. e \in Nat /\ last + 1 \in Nat
  BY <1>2, <1>3
<1>5. IsFiniteSet(I) /\ Cardinality(I) = c + 1
  <2>1. IsFiniteSet(I) /\ Cardinality(I) = IF last + 1 > e THEN 0 ELSE e - (last + 1) + 1
    <3>1. last + 1 \in Int /\ e \in Int
      BY <1>4
    <3>2. PICK s : s = last + 1
      OBVIOUS
    <3>3. IsFiniteSet(s..e) /\ Cardinality(s..e) = IF s > e THEN 0 ELSE e - s + 1
      BY <3>1, <3>2, FS_Interval
    <3> QED BY <1>3, <3>2, <3>3
  <2> QED BY <1>2, <1>3, <2>1
<1>6. PICK g : g = [i \in D |-> t[i].id]
  OBVIOUS
<1>7. g \in Surjection(D, X)
  BY <1>1, <1>3, <1>6 DEF Surjection, Ids
<1>8. IsFiniteSet(X) /\ Cardinality(X) <= c
  BY <1>1, <1>7, FS_Surjection
<1>9. PICK N : N = {n \in I : n \notin X}
  OBVIOUS
<1>10. N # {}
  <2> SUFFICES ASSUME N = {} PROVE FALSE
    OBVIOUS
  <2>1. I \in SUBSET X
    BY <1>9
  <2>2. Cardinality(I) <= Cardinality(X)
    BY <1>8, <2>1, FS_Subset
  <2>3. Cardinality(X) \in Nat
    BY <1>8, FS_CardinalityType
  <2> QED BY <1>2, <1>5, <1>8, <2>2, <2>3
<1>11. N \in SUBSET Nat
  BY <1>3, <1>4, <1>9
<1>12. q = Min(N)
  BY <1>1, <1>3, <1>9 DEF MakeNewRecordId
<1>13. q \in N
  BY <1>10, <1>11, <1>12, LeastOf
<1> QED BY <1>3, <1>4, <1>9, <1>11, <1>13

-----------------------------------------------------------------------------
(* One record more is written, the one at place i of the source. *)

LEMMA EraseWrites ==
  ASSUME NEW src, IsFiniteSet(DOMAIN src), DOMAIN src \subseteq Nat \ {0},
         NEW S, S \subseteq DOMAIN src, NEW i \in DOMAIN src, i \notin S,
         \A j \in DOMAIN src : j <= i <=> j \in S \cup {i},
         NEW t, Erased(t, src, S), NEW u, NEW k, Grown(t, u, k, src[i].id, src[i].val)
  PROVE  Erased(u, src, S \cup {i})
<1>1. PICK c : c = Cardinality(S)
  OBVIOUS
<1>2. IsFiniteSet(S)
  <2>1. S \in SUBSET DOMAIN src
    OBVIOUS
  <2> QED BY <2>1, FS_Subset
<1>3. c \in Nat /\ Cardinality(S \cup {i}) = c + 1
  BY <1>1, <1>2, FS_CardinalityType, FS_AddElement
<1>4. /\ DOMAIN t = 1..c /\ \A j \in S : SameRecord(t[Rank(src, j)], src[j])
  BY <1>1 DEF Erased
<1>5. /\ k = c + 1 /\ DOMAIN u = 1..c \cup {k} /\ u[k].id = src[i].id /\ u[k].val = src[i].val
      /\ \A j \in 1..c : u[j] = t[j]
  BY <1>3, <1>4 DEF Grown
<1>6. DOMAIN u = 1..(c + 1)
  BY <1>3, <1>5
<1>7. Rank(src, i) = c + 1
  <2>1. {j \in DOMAIN src : j <= i} = S \cup {i}
    OBVIOUS
  <2> QED BY <1>3, <2>1 DEF Rank
<1>8. ASSUME NEW j \in S PROVE Rank(src, j) \in 1..c
  <2>1. PICK R : R = {x \in DOMAIN src : x <= j}
    OBVIOUS
  <2>2. i \in Nat /\ j \in Nat /\ j # i /\ j <= i /\ j \in DOMAIN src
    OBVIOUS
  <2>3. ASSUME NEW x \in R PROVE x \in S
    <3>1. x \in DOMAIN src /\ x \in Nat /\ x <= j
      BY <2>1
    <3>2. x <= i /\ x # i
      BY <2>2, <3>1
    <3> QED BY <3>1, <3>2
  <2>4. R \in SUBSET S /\ j \in R
    BY <2>1, <2>2, <2>3
  <2>5. IsFiniteSet(R) /\ Cardinality(R) <= c
    BY <1>1, <1>2, <2>4, FS_Subset
  <2>6. Cardinality(R) \in Nat /\ Cardinality(R) # 0
    BY <2>4, <2>5, FS_CardinalityType, FS_EmptySet
  <2>7. Rank(src, j) = Cardinality(R)
    BY <2>1 DEF Rank
  <2> QED BY <1>3, <2>5, <2>6, <2>7
<1>9. ASSUME NEW j \in S \cup {i} PROVE SameRecord(u[Rank(src, j)], src[j])
  <2>1. CASE j = i
    BY <1>5, <1>7, <2>1 DEF SameRecord
  <2>2. CASE j \in S
    BY <1>4, <1>5, <1>8, <2>2
  <2> QED BY <2>1, <2>2
<1> QED BY <1>3, <1>6, <1>9 DEF Erased

LEMMA OverwriteWrites ==
  ASSUME NEW src, NEW S, NEW i, i \notin S, NEW old, DOMAIN old \subseteq Nat,
         NEW t, Overwritten(old, t, src, S), src[i].id \in Ids(old),
         NEW u, NEW m, m = GetIndex(old, src[i].id), u = SetRecord(t, m, src[i].id, src[i].val)
  PROVE  Overwritten(old, u, src, S \cup {i})
<1>1. PICK x, g, I : x = src[i].id /\ g = GetIndex(old, x) /\ I = {j \in DOMAIN old : old[j].id = x}
  OBVIOUS
<1>2. g \in DOMAIN old /\ old[g].id = x
  <2>1. I # {} /\ I \in SUBSET Nat
    BY <1>1 DEF Ids
  <2>2. g = Min(I)
    BY <1>1 DEF GetIndex
  <2>3. g \in I
    BY <2>1, <2>2, LeastOf
  <2> QED BY <1>1, <2>3
<1>3. PICK X : X = {src[j].id : j \in S}
  OBVIOUS
<1>4. {src[j].id : j \in S \cup {i}} = X \cup {x}
  BY <1>1, <1>3
<1>5. /\ DOMAIN old \subseteq DOMAIN t
      /\ \A j \in DOMAIN old : t[j].id = old[j].id /\ (old[j].id \notin X => t[j] = old[j])
      /\ Ids(t) = Ids(old) \cup X
      /\ \A y \in X : \E k \in S : src[k].id = y /\ \E j \in DOMAIN t : SameRecord(t[j], src[k])
  BY <1>3 DEF Overwritten
<1>6. g \in DOMAIN t /\ t[g].id = x
  BY <1>2, <1>5
<1>7. u = [t EXCEPT ![g] = Stored(x, src[i].val)]
  BY <1>1 DEF SetRecord
<1>8. DOMAIN u = DOMAIN t /\ u[g] = Stored(x, src[i].val) /\ \A j \in DOMAIN t : j # g => u[j] = t[j]
  BY <1>6, <1>7
<1>9. u[g].id = x /\ u[g].val = src[i].val
  BY <1>8 DEF Stored
<1>10. \A j \in DOMAIN t : u[j].id = t[j].id
  BY <1>6, <1>8, <1>9
<1>11. \A j \in DOMAIN old : u[j].id = old[j].id /\ (old[j].id \notin X \cup {x} => u[j] = old[j])
  BY <1>2, <1>5, <1>8, <1>10
<1>12. Ids(u) = Ids(old) \cup (X \cup {x})
  <2>1. Ids(u) = Ids(t)
    BY <1>8, <1>10 DEF Ids
  <2>2. x \in Ids(old)
    BY <1>1
  <2> QED BY <1>5, <2>1, <2>2
<1>13. ASSUME NEW y \in X \cup {x}
       PROVE  \E k \in S \cup {i} : src[k].id = y /\ \E j \in DOMAIN u : SameRecord(u[j], src[k])
  <2>1. CASE y = x
    <3>1. SameRecord(u[g], src[i]) /\ src[i].id = y
      BY <1>1, <1>9, <2>1 DEF SameRecord
    <3> QED BY <1>6, <1>8, <3>1
  <2>2. CASE y # x
    <3>1. PICK k \in S : src[k].id = y /\ \E j \in DOMAIN t : SameRecord(t[j], src[k])
      BY <1>5, <2>2
    <3>2. PICK j \in DOMAIN t : SameRecord(t[j], src[k])
      BY <3>1
    <3>3. j # g
      BY <1>6, <2>2, <3>1, <3>2 DEF SameRecord
    <3>4. SameRecord(u[j], src[k])
      BY <1>8, <3>2, <3>3
    <3> QED BY <1>8, <3>1, <3>4
  <2> QED BY <2>1, <2>2
<1>14. DOMAIN old \subseteq DOMAIN u
  BY <1>5, <1>8
<1> QED BY <1>4, <1>8, <1>11, <1>12, <1>13, <1>14 DEF Overwritten

LEMMA OverwriteAdds ==
  ASSUME NEW src, NEW S, NEW i, i \notin S, NEW old,
         NEW t, Overwritten(old, t, src, S), src[i].id \notin Ids(old),
         NEW u, NEW k, Grown(t, u, k, src[i].id, src[i].val)
  PROVE  Overwritten(old, u, src, S \cup {i})
<1>1. PICK x, X : x = src[i].id /\ X = {src[j].id : j \in S}
  OBVIOUS
<1>2. {src[j].id : j \in S \cup {i}} = X \cup {x}
  BY <1>1
<1>3. /\ DOMAIN old \subseteq DOMAIN t
      /\ \A j \in DOMAIN old : t[j].id = old[j].id /\ (old[j].id \notin X => t[j] = old[j])
      /\ Ids(t) = Ids(old) \cup X
      /\ \A y \in X : \E m \in S : src[m].id = y /\ \E j \in DOMAIN t : SameRecord(t[j], src[m])
  BY <1>1 DEF Overwritten
<1>4. /\ DOMAIN u = DOMAIN t \cup {k} /\ u[k].id = x /\ u[k].val = src[i].val
      /\ \A j \in DOMAIN t : u[j] = t[j]
  BY <1>1 DEF Grown
<1>5. Ids(u) = Ids(old) \cup (X \cup {x})
  <2>1. Ids(u) = Ids(t) \cup {x}
    BY <1>4 DEF Ids
  <2> QED BY <1>3, <2>1
<1>6. ASSUME NEW y \in X \cup {x}
      PROVE  \E m \in S \cup {i} : src[m].id = y /\ \E j \in DOMAIN u : SameRecord(u[j], src[m])
  <2>1. CASE y = x
    <3>1. SameRecord(u[k], src[i]) /\ src[i].id = y
      BY <1>1, <1>4, <2>1 DEF SameRecord
    <3> QED BY <1>4, <3>1
  <2>2. CASE y # x
    <3>1. PICK m \in S : src[m].id = y /\ \E j \in DOMAIN t : SameRecord(t[j], src[m])
      BY <1>3, <2>2
    <3>2. PICK j \in DOMAIN t : SameRecord(t[j], src[m])
      BY <3>1
    <3>3. j \in DOMAIN u /\ SameRecord(u[j], src[m])
      BY <1>4, <3>2
    <3> QED BY <3>1, <3>3
  <2> QED BY <2>1, <2>2
<1>7. \A j \in DOMAIN old : u[j].id = old[j].id /\ (old[j].id \notin X \cup {x} => u[j] = old[j])
  BY <1>3, <1>4
<1>8. DOMAIN old \subseteq DOMAIN u
  BY <1>3, <1>4
<1> QED BY <1>2, <1>5, <1>6, <1>7, <1>8 DEF Overwritten

LEMMA AddWrites ==
  ASSUME NEW src, NEW S, NEW i, i \notin S, NEW old, NEW t, Added(old, t, src, S), NEW u,
         \/ src[i].id \in Ids(old) /\ u = t
         \/ src[i].id \notin Ids(old) /\ \E k : Grown(t, u, k, src[i].id, src[i].val)
  PROVE  Added(old, u, src, S \cup {i})
<1>1. PICK F, G : /\ F = {j \in S : src[j].id \notin Ids(old)}
                  /\ G = {j \in S \cup {i} : src[j].id \notin Ids(old)}
  OBVIOUS
<1>2. Pairs(t) = Pairs(old) \cup {<<src[j].id, src[j].val>> : j \in F}
  BY <1>1 DEF Added
<1>3. CASE src[i].id \in Ids(old) /\ u = t
  <2>1. F = G
    BY <1>1, <1>3
  <2> QED BY <1>1, <1>2, <1>3, <2>1 DEF Added
<1>4. CASE src[i].id \notin Ids(old) /\ \E k : Grown(t, u, k, src[i].id, src[i].val)
  <2>1. G = F \cup {i}
    BY <1>1, <1>4
  <2>2. PICK k : Grown(t, u, k, src[i].id, src[i].val)
    BY <1>4
  <2>3. /\ DOMAIN u = DOMAIN t \cup {k} /\ u[k].id = src[i].id /\ u[k].val = src[i].val
        /\ \A j \in DOMAIN t : u[j] = t[j]
    BY <2>2 DEF Grown
  <2>4. PICK x, y, z : x = <<src[i].id, src[i].val>> /\ y = {<<src[j].id, src[j].val>> : j \in F}
                       /\ z = {<<src[j].id, src[j].val>> : j \in G}
    OBVIOUS
  <2>5. Pairs(u) = Pairs(t) \cup {x}
    <3>1. ASSUME NEW e \in Pairs(u) PROVE e \in Pairs(t) \cup {x}
      <4>1. PICK j \in DOMAIN u : e = <<u[j].id, u[j].val>>
        BY DEF Pairs
      <4> QED BY <2>3, <2>4, <4>1 DEF Pairs
    <3>2. ASSUME NEW e \in Pairs(t) PROVE e \in Pairs(u)
      <4>1. PICK j \in DOMAIN t : e = <<t[j].id, t[j].val>>
        BY DEF Pairs
      <4> QED BY <2>3, <4>1 DEF Pairs
    <3>3. x \in Pairs(u)
      BY <2>3, <2>4 DEF Pairs
    <3> QED BY <3>1, <3>2, <3>3
  <2>6. z = y \cup {x}
    BY <2>1, <2>4
  <2>7. Pairs(u) = Pairs(old) \cup z
    BY <1>2, <2>4, <2>5, <2>6
  <2> QED BY <1>1, <2>4, <2>7 DEF Added
<1> QED BY <1>3, <1>4

LEMMA RenumberWrites ==
  ASSUME NEW src, NEW S, IsFiniteSet(S), NEW i, i \notin S, NEW old, IsFiniteSet(DOMAIN old), NEW last,
         NEW t, IsFiniteSet(DOMAIN t), Renumbered(old, t, src, S, last),
         NEW q, q = MakeNewRecordId(old, last), NEW u, NEW k, Grown(t, u, k, q, src[i].val)
  PROVE  Renumbered(old, u, src, S \cup {i}, q)
<1>1. /\ last \in Nat /\ DOMAIN old \subseteq DOMAIN t /\ \A j \in DOMAIN old : t[j] = old[j]
      /\ Vals(t) = Vals(old) \cup {src[m].val : m \in S}
      /\ Cardinality(DOMAIN t) = Cardinality(DOMAIN old) + Cardinality(S)
      /\ \A j \in DOMAIN t \ DOMAIN old :
            t[j].id \in Nat /\ t[j].id <= last /\ t[j].id \notin Ids(old)
      /\ \A m, j \in DOMAIN t :
            m # j /\ t[m].id = t[j].id => {m, j} \subseteq DOMAIN old
  BY DEF Renumbered
<1>2. q \in Nat /\ q > last /\ q \notin Ids(old)
  BY <1>1, NewIdIsNew
<1>3. /\ k \notin DOMAIN t /\ DOMAIN u = DOMAIN t \cup {k} /\ u[k].id = q /\ u[k].val = src[i].val
      /\ \A j \in DOMAIN t : u[j] = t[j]
      /\ Cardinality(DOMAIN u) = Cardinality(DOMAIN t) + 1
  BY DEF Grown
<1>4. DOMAIN old \subseteq DOMAIN u /\ \A j \in DOMAIN old : u[j] = old[j]
  BY <1>1, <1>3
<1>5. Vals(u) = Vals(old) \cup {src[m].val : m \in S \cup {i}}
  <2>1. Vals(u) = Vals(t) \cup {src[i].val}
    BY <1>3 DEF Vals
  <2>2. {src[m].val : m \in S \cup {i}} = {src[m].val : m \in S} \cup {src[i].val}
    OBVIOUS
  <2> QED BY <1>1, <2>1, <2>2
<1>6. Cardinality(DOMAIN u) = Cardinality(DOMAIN old) + Cardinality(S \cup {i})
  <2>1. Cardinality(S \cup {i}) = Cardinality(S) + 1 /\ Cardinality(S) \in Nat
    BY FS_AddElement, FS_CardinalityType
  <2>2. PICK D : D = DOMAIN old
    OBVIOUS
  <2>3. Cardinality(D) \in Nat
    BY <2>2, FS_CardinalityType
  <2> QED BY <1>1, <1>3, <2>1, <2>2, <2>3
<1>7. ASSUME NEW j \in DOMAIN u \ DOMAIN old
      PROVE  u[j].id \in Nat /\ u[j].id <= q /\ u[j].id \notin Ids(old)
  <2>1. CASE j = k
    BY <1>2, <1>3, <2>1
  <2>2. CASE j # k
    <3>1. j \in DOMAIN t \ DOMAIN old /\ u[j] = t[j]
      BY <1>3, <2>2
    <3> QED BY <1>1, <1>2, <3>1
  <2> QED BY <2>1, <2>2
<1>8. ASSUME NEW j \in DOMAIN t PROVE u[j].id # q
  <2>1. CASE j \in DOMAIN old
    BY <1>2, <1>4, <2>1 DEF Ids
  <2>2. CASE j \notin DOMAIN old
    <3>1. t[j].id \in Nat /\ t[j].id <= last
      BY <1>1, <2>2
    <3> QED BY <1>1, <1>2, <1>3, <3>1
  <2> QED BY <2>1, <2>2
<1>9. ASSUME NEW m \in DOMAIN u, NEW j \in DOMAIN u, m # j, u[m].id = u[j].id
      PROVE  {m, j} \subseteq DOMAIN old
  <2>1. m # k /\ j # k
    BY <1>3, <1>8, <1>9
  <2>2. m \in DOMAIN t /\ j \in DOMAIN t
    BY <1>3, <2>1
  <2> QED BY <1>1, <1>3, <1>9, <2>2
<1> QED BY <1>2, <1>4, <1>5, <1>6, <1>7, <1>9 DEF Renumbered

(* The parser after a write. *)
Counted(q) ==
    IF q.mode = "ADD_WITH_NEW_ID" THEN [q EXCEPT !.last = MakeNewRecordId(q.tab, q.last)] ELSE q

Table(t) == IsFiniteSet(DOMAIN t) /\ DOMAIN t \subseteq Nat \ {0}

LEMMA CountedFields ==
  ASSUME NEW q, DOMAIN q = ParserFields
  PROVE  /\ DOMAIN Counted(q) = ParserFields /\ Counted(q).mode = q.mode /\ Counted(q).db = q.db
         /\ Counted(q).tab = q.tab
         /\ q.mode = "ADD_WITH_NEW_ID" => Counted(q).last = MakeNewRecordId(q.tab, q.last)
<1>1. CASE q.mode = "ADD_WITH_NEW_ID"
  <2>1. PICK x : x = MakeNewRecordId(q.tab, q.last)
    OBVIOUS
  <2>2. Counted(q) = [q EXCEPT !.last = x]
    BY <1>1, <2>1 DEF Counted
  <2> QED BY <2>1, <2>2 DEF ParserFields
<1>2. CASE q.mode # "ADD_WITH_NEW_ID"
  BY <1>2 DEF Counted
<1> QED BY <1>1, <1>2

(* The writes of a database, in each of the modes. *)
LEMMA PartWrites ==
  ASSUME NEW src, IsFiniteSet(DOMAIN src), DOMAIN src \subseteq Nat \ {0},
         NEW S, S \subseteq DOMAIN src, NEW i \in DOMAIN src, i \notin S,
         \A j \in DOMAIN src : j <= i <=> j \in S \cup {i},
         NEW old, Table(old), NEW t, Table(t), NEW q, DOMAIN q = ParserFields, q.mode \in WriteModes,
         Partly(q, old, t, src, S), NEW r, r.id = src[i].id, r.val = src[i].val
  PROVE  /\ Partly(Counted(q), old, WriteNext(t, q, r), src, S \cup {i})
         /\ Table(WriteNext(t, q, r))
<1>1. PICK u : u = WriteNext(t, q, r)
  OBVIOUS
<1>2. /\ Counted(q).mode = q.mode /\ Counted(q).tab = q.tab
      /\ q.mode = "ADD_WITH_NEW_ID" => Counted(q).last = MakeNewRecordId(q.tab, q.last)
  BY CountedFields
<1>3. IsFiniteSet(S)
  <2>1. S \in SUBSET DOMAIN src
    OBVIOUS
  <2> QED BY <2>1, FS_Subset
<1>4. /\ IsFiniteSet(DOMAIN t) /\ DOMAIN t \subseteq Nat \ {0}
      /\ IsFiniteSet(DOMAIN old) /\ DOMAIN old \subseteq Nat
  BY DEF Table
<1>5. ASSUME NEW id, NEW val, u = AddRecord(t, id, val)
      PROVE  Grown(t, u, NextIndex(t), id, val) /\ Table(u)
  <2>1. Grown(t, u, NextIndex(t), id, val)
    BY <1>4, <1>5, AddGrows
  <2> QED BY <2>1 DEF Grown, Table
<1>6. CASE q.mode = "ERASE_ALL_WRITE_ALL"
  <2>1. u = AddRecord(t, src[i].id, src[i].val)
    BY <1>1, <1>6 DEF WriteNext
  <2>2. Grown(t, u, NextIndex(t), src[i].id, src[i].val) /\ Table(u)
    BY <1>5, <2>1
  <2>3. Erased(t, src, S)
    BY <1>6 DEF Partly
  <2>4. Erased(u, src, S \cup {i})
    BY <2>2, <2>3, EraseWrites
  <2> QED BY <1>1, <1>2, <1>6, <2>2, <2>4 DEF Partly
<1>7. CASE q.mode = "INDIVIDUAL_OVERWRITE"
  <2>1. q.tab = old /\ Overwritten(old, t, src, S)
    BY <1>7 DEF Partly
  <2>2. CASE src[i].id \in Ids(old)
    <3>1. u = SetRecord(t, GetIndex(old, src[i].id), src[i].id, src[i].val)
      BY <1>1, <1>7, <2>1, <2>2 DEF WriteNext, HasIndex
    <3>2. PICK m : m = GetIndex(old, src[i].id)
      OBVIOUS
    <3>3. u = SetRecord(t, m, src[i].id, src[i].val)
      BY <3>1, <3>2
    <3>4. Overwritten(old, u, src, S \cup {i})
      BY <1>4, <2>1, <2>2, <3>2, <3>3, OverwriteWrites
    <3>5. DOMAIN u = DOMAIN t
      BY <3>3 DEF SetRecord
    <3>6. Table(u)
      BY <1>4, <3>5 DEF Table
    <3> QED BY <1>1, <1>2, <1>7, <2>1, <3>4, <3>6 DEF Partly
  <2>3. CASE src[i].id \notin Ids(old)
    <3>1. u = AddRecord(t, src[i].id, src[i].val)
      BY <1>1, <1>7, <2>1, <2>3 DEF WriteNext, HasIndex
    <3>2. Grown(t, u, NextIndex(t), src[i].id, src[i].val) /\ Table(u)
      BY <1>5, <3>1
    <3>3. Overwritten(old, u, src, S \cup {i})
      BY <2>1, <2>3, <3>2, OverwriteAdds
    <3> QED BY <1>1, <1>2, <1>7, <2>1, <3>2, <3>3 DEF Partly
  <2> QED BY <2>2, <2>3
<1>8. CASE q.mode = "ADD_BUT_NO_OVERWRITE"
  <2>1. q.tab = old /\ Added(old, t, src, S)
    BY <1>8 DEF Partly
  <2>2. CASE src[i].id \in Ids(old)
    <3>1. u = t
      BY <1>1, <1>8, <2>1, <2>2 DEF WriteNext, HasIndex
    <3>2. Added(old, u, src, S \cup {i})
      BY <2>1, <2>2, <3>1, AddWrites
    <3> QED BY <1>1, <1>2, <1>8, <2>1, <3>1, <3>2 DEF Partly
  <2>3. CASE src[i].id \notin Ids(old)
    <3>1. u = AddRecord(t, src[i].id, src[i].val)
      BY <1>1, <1>8, <2>1, <2>3 DEF WriteNext, HasIndex
    <3>2. Grown(t, u, NextIndex(t), src[i].id, src[i].val) /\ Table(u)
      BY <1>5, <3>1
    <3>3. Added(old, u, src, S \cup {i})
      BY <2>1, <2>3, <3>2, AddWrites
    <3> QED BY <1>1, <1>2, <1>8, <2>1, <3>2, <3>3 DEF Partly
  <2> QED BY <2>2, <2>3
<1>9. CASE q.mode = "ADD_WITH_NEW_ID"
  <2>1. q.tab = old /\ Renumbered(old, t, src, S, q.last)
    BY <1>9 DEF Partly
  <2>2. PICK x, last : x = MakeNewRecordId(old, last) /\ last = q.last
    OBVIOUS
  <2>3. u = AddRecord(t, x, src[i].val)
    BY <1>1, <1>9, <2>1, <2>2 DEF WriteNext
  <2>4. Grown(t, u, NextIndex(t), x, src[i].val) /\ Table(u)
    BY <1>5, <2>3
  <2>5. Renumbered(old, u, src, S \cup {i}, x)
    BY <1>3, <1>4, <2>1, <2>2, <2>4, RenumberWrites
  <2> QED BY <1>1, <1>2, <1>9, <2>1, <2>2, <2>4, <2>5 DEF Partly
<1> QED BY <1>6, <1>7, <1>8, <1>9 DEF WriteModes

(* Where the writes of a database start: the table the parser takes, and what
   is left of the database. *)
Starts(dev, p, d) == IF p.mode = "ERASE_ALL_WRITE_ALL" THEN ClearDatabase(dev[d]) ELSE dev[d]

LEMMA PartStarts ==
  ASSUME NEW dev, NEW p, DOMAIN p = ParserFields, NEW d \in DOMAIN dev, Table(dev[d]),
         NEW q, q = StartDB(dev, p, d), NEW src
  PROVE  /\ DOMAIN q = ParserFields /\ q.mode = p.mode /\ q.db = d
         /\ Partly(q, dev[d], Starts(dev, p, d), src, {}) /\ Table(Starts(dev, p, d))
<1>1. PICK none, x : /\ none = [p EXCEPT !.db = NoName, !.tab = <<>>, !.last = 1]
                     /\ x = IF p.mode = "ERASE_ALL_WRITE_ALL" THEN <<>> ELSE dev[d]
  OBVIOUS
<1>2. q = [none EXCEPT !.db = d, !.tab = x]
  BY <1>1 DEF StartDB
<1>3. /\ DOMAIN q = ParserFields /\ q.mode = p.mode /\ q.db = d /\ q.tab = x /\ q.last = 1
  <2>1. DOMAIN none = ParserFields /\ none.mode = p.mode /\ none.last = 1
    BY <1>1 DEF ParserFields
  <2> QED BY <1>2, <2>1 DEF ParserFields
<1>4. PICK old, t : old = dev[d] /\ t = Starts(dev, p, d)
  OBVIOUS
<1>5. Cardinality({}) = 0 /\ IsFiniteSet({})
  BY FS_EmptySet
<1>6. CASE p.mode = "ERASE_ALL_WRITE_ALL"
  <2>1. DOMAIN t = {} /\ 1..0 = {}
    BY <1>4, <1>6 DEF Starts, ClearDatabase
  <2> QED BY <1>3, <1>4, <1>5, <1>6, <2>1 DEF Partly, Erased, Table
<1>7. CASE p.mode # "ERASE_ALL_WRITE_ALL"
  <2>1. t = old /\ q.tab = old
    BY <1>1, <1>3, <1>4, <1>7 DEF Starts
  <2>2. Overwritten(old, t, src, {}) /\ Added(old, t, src, {})
    BY <2>1 DEF Overwritten, Added
  <2>3. Renumbered(old, t, src, {}, 1)
    <3>1. PICK D : D = DOMAIN old
      OBVIOUS
    <3>2. Cardinality(D) \in Nat
      BY <1>4, <3>1, FS_CardinalityType DEF Table
    <3> QED BY <1>5, <2>1, <3>1, <3>2 DEF Renumbered
  <2> QED BY <1>3, <1>4, <1>7, <2>1, <2>2, <2>3 DEF Partly
<1> QED BY <1>6, <1>7

(* With all the records written, the database is migrated. *)
LEMMA PartDone ==
  ASSUME NEW p, p.mode \in WriteModes, NEW old, NEW new, NEW src, Partly(p, old, new, src, DOMAIN src)
  PROVE  Migrated(p.mode, old, new, src)
<1>1. CASE p.mode = "ERASE_ALL_WRITE_ALL"
  BY <1>1 DEF Partly, Erased, Migrated, SameRecord
<1>2. CASE p.mode = "INDIVIDUAL_OVERWRITE"
  <2>1. Overwritten(old, new, src, DOMAIN src) /\ Ids(src) = {src[i].id : i \in DOMAIN src}
    BY <1>2 DEF Partly, Ids
  <2>2. ASSUME NEW x \in Ids(src) PROVE \E e \in Pairs(src) : e[1] = x /\ e \in Pairs(new)
    <3>1. PICK i \in DOMAIN src : src[i].id = x /\ \E j \in DOMAIN new : SameRecord(new[j], src[i])
      BY <2>1 DEF Overwritten
    <3>2. PICK j \in DOMAIN new : SameRecord(new[j], src[i])
      BY <3>1
    <3>3. PICK e : e = <<src[i].id, src[i].val>>
      OBVIOUS
    <3>4. e = <<new[j].id, new[j].val>>
      BY <3>2, <3>3 DEF SameRecord
    <3> QED BY <3>1, <3>3, <3>4 DEF Pairs
  <2> QED BY <1>2, <2>1, <2>2 DEF Migrated, Overwritten
<1>3. CASE p.mode = "ADD_BUT_NO_OVERWRITE"
  <2>1. Added(old, new, src, DOMAIN src)
    BY <1>3 DEF Partly
  <2>2. PICK y : y = {<<src[i].id, src[i].val>> : i \in {j \in DOMAIN src : src[j].id \notin Ids(old)}}
    OBVIOUS
  <2>3. y = {e \in Pairs(src) : e[1] \notin Ids(old)}
    BY <2>2 DEF Pairs
  <2> QED BY <1>3, <2>1, <2>2, <2>3 DEF Migrated, Added
<1>4. CASE p.mode = "ADD_WITH_NEW_ID"
  <2>1. Renumbered(old, new, src, DOMAIN src, p.last)
    BY <1>4 DEF Partly
  <2> QED BY <1>4, <2>1 DEF Migrated, Renumbered, Vals
<1> QED BY <1>1, <1>2, <1>3, <1>4 DEF WriteModes

-----------------------------------------------------------------------------
(* The parser gets a record of database n. *)

LEMMA ParseUnknown ==
  ASSUME NEW dev, NEW p, DOMAIN p = ParserFields, NEW n, n \notin DOMAIN dev, n # NoName, p.db # n,
         NEW r, NEW refuse, NEW w, w = ParseRecord(dev, p, n, r, refuse)
  PROVE  /\ w.dev = dev /\ w.ret = "ok" /\ DOMAIN w.parser = ParserFields /\ w.parser.mode = p.mode
         /\ w.parser.db = NoName
<1>1. PICK q : q = [p EXCEPT !.db = NoName, !.tab = <<>>, !.last = 1]
  OBVIOUS
<1>2. DOMAIN q = ParserFields /\ q.mode = p.mode /\ q.db = NoName
  BY <1>1 DEF ParserFields
<1>3. StartDB(dev, p, n) = q
  BY <1>1 DEF StartDB
<1>4. w = [dev |-> dev, parser |-> q, ret |-> "ok"]
  BY <1>2, <1>3 DEF ParseRecord
<1> QED BY <1>2, <1>4

(* What is written, by which parser, to which table. *)
Chooses(dev, p, n, q, t) ==
    IF p.db # n THEN q = StartDB(dev, p, n) /\ t = Starts(dev, p, n) ELSE q = p /\ t = dev[n]
Parsed(dev, n, r, refuse, q, t, w) ==
    /\ w.ret \in {"ok", "ReturnCodeError"}
    /\ w.ret = "ok" => w.dev = [dev EXCEPT ![n] = WriteNext(t, q, r)] /\ w.parser = Counted(q)
    /\ w.ret = "ReturnCodeError" =>
          w.dev \in {dev, [dev EXCEPT ![n] = t]} /\ w.parser \in {q, Counted(q)}

LEMMA ParseKnown ==
  ASSUME NEW dev, NEW p, NEW n, NEW q, NEW t, Chooses(dev, p, n, q, t), q.db = n, q.mode = p.mode,
         NEW r, NEW refuse, NEW w, w = ParseRecord(dev, p, n, r, refuse)
  PROVE  Parsed(dev, n, r, refuse, q, t, w)
<1>1. PICK e : e = (n # p.db /\ q.db = n /\ p.mode = "ERASE_ALL_WRITE_ALL")
  OBVIOUS
<1>2. q = IF n # p.db THEN StartDB(dev, p, n) ELSE p
  BY DEF Chooses
<1>3. t = IF e THEN ClearDatabase(dev[n]) ELSE dev[n]
  BY <1>1 DEF Chooses, Starts
<1>4. PICK c, x : c = Counted(q) /\ x = WriteNext(t, q, r)
  OBVIOUS
<1>5. c = IF p.mode = "ADD_WITH_NEW_ID" THEN [q EXCEPT !.last = MakeNewRecordId(q.tab, q.last)] ELSE q
  BY <1>4 DEF Counted
<1>6. w = CASE q.db # n -> [dev |-> dev, parser |-> q, ret |-> "ok"]
            [] q.db = n /\ e /\ refuse = "clear" ->
                   [dev |-> dev, parser |-> q, ret |-> "ReturnCodeError"]
            [] q.db = n /\ refuse = "write" ->
                   [dev |-> [dev EXCEPT ![n] = t], parser |-> c, ret |-> "ReturnCodeError"]
            [] OTHER -> [dev |-> [dev EXCEPT ![n] = x], parser |-> c, ret |-> "ok"]
  BY <1>1, <1>2, <1>3, <1>4, <1>5 DEF ParseRecord
<1>7. CASE e /\ refuse = "clear"
  <2>1. w = [dev |-> dev, parser |-> q, ret |-> "ReturnCodeError"]
    BY <1>6, <1>7
  <2> QED BY <2>1 DEF Parsed
<1>8. CASE refuse = "write"
  <2>1. w = [dev |-> [dev EXCEPT ![n] = t], parser |-> c, ret |-> "ReturnCodeError"]
    BY <1>6, <1>8
  <2> QED BY <1>4, <2>1 DEF Parsed
<1>9. CASE ~(e /\ refuse = "clear") /\ refuse # "write"
  <2>1. w = [dev |-> [dev EXCEPT ![n] = x], parser |-> c, ret |-> "ok"]
    BY <1>6, <1>9
  <2> QED BY <1>4, <2>1 DEF Parsed
<1> QED BY <1>7, <1>8, <1>9

(* The others are as far as they were. *)
LEMMA LevelMoves ==
  ASSUME NEW a, NEW f, NEW r, NEW o, NEW src, NEW old, NEW new, NEW now, NEW bad, NEW more, NEW m, NEW n,
         Level(a, f, r, src, old, new, bad, m, {n}), DOMAIN now = DOMAIN new, bad \subseteq more,
         \A x \in DOMAIN new : x # n => now[x] = new[x],
         \A x : x # n => Of(a, x) \cap Past(a, f, o) = Of(a, x) \cap Past(a, f, r)
  PROVE  Level(a, f, o, src, old, now, more, m, {n})
<1> SUFFICES ASSUME NEW x \in DOMAIN now \ {n}
             PROVE  IF Of(a, x) \cap Past(a, f, o) = {} THEN now[x] = old[x]
                    ELSE /\ Of(a, x) \subseteq Past(a, f, o)
                         /\ x \notin more => Migrated(m, old[x], now[x], src[x])
  BY DEF Level
<1>1. /\ IF Of(a, x) \cap Past(a, f, r) = {} THEN new[x] = old[x]
         ELSE /\ Of(a, x) \subseteq Past(a, f, r)
              /\ x \notin bad => Migrated(m, old[x], new[x], src[x])
  BY DEF Level
<1>2. now[x] = new[x] /\ Of(a, x) \cap Past(a, f, o) = Of(a, x) \cap Past(a, f, r)
  OBVIOUS
<1> QED BY <1>1, <1>2

(* The place of the record that is given is the next one. *)
NextPlace(a, f, r, g, src, place, n, S, i) ==
    /\ n \in DOMAIN src /\ S \subseteq DOMAIN src[n] /\ i \in DOMAIN src[n] /\ i \notin S
    /\ \A j \in DOMAIN src[n] : j <= i <=> j \in S \cup {i}
    /\ Written(a, f, g.obj, place, n) = S \cup {i}
    /\ a.entries[g.rec.id].db = n
    /\ a.entries[g.rec.id].id = src[n][i].id /\ a.entries[g.rec.id].val = src[n][i].val

LEMMA GivesNext ==
  ASSUME NEW a, NEW src, Tables(src), NEW place, Copied(a, src, place), NEW f, NEW r, NEW n,
         Inside(a, f, r, n), NEW g, Gives(a, f, r, g, n)
  PROVE  NextPlace(a, f, r, g, src, place, n, Written(a, f, r, place, n), place[g.rec.id])
<1>1. PICK k, S, i : k = g.rec.id /\ S = Written(a, f, r, place, n) /\ i = place[k]
  OBVIOUS
<1>2. Backed(a)
  BY CopiedIsBacked
<1>3. n \in Wanted(a, f)
  BY <1>2, InsideFacts
<1>4. /\ Of(a, n) \subseteq Selected(a, f) /\ Selected(a, f) \subseteq 1..Len(a.entries)
      /\ Len(a.entries) \in Nat
  BY <1>2, <1>3, SelectedFacts
<1>5. /\ k \in Of(a, n) /\ Past(a, f, r) = {x \in Selected(a, f) : x < k}
      /\ Past(a, f, g.obj) = Past(a, f, r) \cup {k}
  BY <1>1 DEF Gives
<1>6. /\ place \in [1..Len(a.entries) -> Nat]
      /\ \A x \in Of(a, n) : /\ n \in DOMAIN src /\ place[x] \in DOMAIN src[n]
                             /\ a.entries[x].id = src[n][place[x]].id
                             /\ a.entries[x].val = src[n][place[x]].val
  BY DEF Copied, Of, EntryOf
<1>7. \A x, y \in Of(a, n) : x < y => place[x] < place[y]
  BY DEF Copied, Of
<1>8. Of(a, n) \cap Past(a, f, r) = {x \in Of(a, n) : x < k}
  BY <1>4, <1>5
<1>9. S = {place[x] : x \in {y \in Of(a, n) : y < k}}
  BY <1>1, <1>8 DEF Written
<1>10. \A x \in Of(a, n) : x \in Nat /\ place[x] \in Nat
  BY <1>4, <1>6
<1>11. i \notin S
  BY <1>1, <1>5, <1>7, <1>9, <1>10
<1>12. ASSUME NEW j \in DOMAIN src[n] PROVE j <= i <=> j \in S \cup {i}
  <2>1. PICK x \in Of(a, n) : place[x] = j
    BY <1>5, <1>6 DEF Copied, Of
  <2>2. x < k => j < i
    BY <1>1, <1>5, <1>7, <2>1
  <2>3. k < x => i < j
    BY <1>1, <1>5, <1>7, <2>1
  <2>4. x \in Nat /\ k \in Nat /\ i \in Nat /\ j \in Nat
    BY <1>1, <1>5, <1>10, <2>1
  <2>5. j \in S => j < i
    <3> SUFFICES ASSUME j \in S PROVE j < i
      OBVIOUS
    <3>1. PICK y \in Of(a, n) : y < k /\ place[y] = j
      BY <1>9
    <3> QED BY <1>1, <1>5, <1>7, <3>1
  <2>6. CASE x < k
    <3>1. j \in S
      BY <1>9, <2>1, <2>6
    <3> QED BY <2>2, <2>4, <2>6, <3>1
  <2>7. CASE x = k
    BY <1>1, <2>1, <2>4, <2>7
  <2>8. CASE k < x
    BY <2>3, <2>4, <2>5, <2>8
  <2> QED BY <2>4, <2>6, <2>7, <2>8
<1>13. Written(a, f, g.obj, place, n) = S \cup {i}
  <2>1. Of(a, n) \cap Past(a, f, g.obj) = (Of(a, n) \cap Past(a, f, r)) \cup {k}
    BY <1>5
  <2> QED BY <1>1, <2>1 DEF Written
<1>14. S \subseteq DOMAIN src[n] /\ i \in DOMAIN src[n] /\ n \in DOMAIN src
  BY <1>1, <1>5, <1>6, <1>9
<1>15. a.entries[k].db = n /\ a.entries[k].id = src[n][i].id /\ a.entries[k].val = src[n][i].val
  BY <1>1, <1>5, <1>6 DEF Of
<1> QED BY <1>1, <1>11, <1>12, <1>13, <1>14, <1>15 DEF NextPlace

(* The parser and the table before the record is written. *)
Ready(p, q, t, old, src, S, n) ==
    /\ DOMAIN q = ParserFields /\ q.mode = p.mode /\ q.db = n
    /\ Partly(q, old, t, src, S) /\ Table(t)

LEMMA PumpReady ==
  ASSUME NEW a, NEW f, NEW r, NEW p, NEW place, NEW src, NEW old, NEW new, Tables(new), NEW bad,
         NEW n \in DOMAIN new, n # NoName, Pumping(a, f, r, p, place, src, old, new, bad, n),
         NEW q, NEW t, Chooses(new, p, n, q, t)
  PROVE  Ready(p, q, t, old[n], src[n], Written(a, f, r, place, n), n)
<1>1. DOMAIN p = ParserFields /\ Begun(a, f, r, p, new) /\ Table(new[n])
  BY DEF Pumping, Reading, Tables, Table
<1>2. CASE Of(a, n) \cap Past(a, f, r) = {}
  <2>1. p.db # n
    BY <1>1, <1>2 DEF Begun
  <2>2. q = StartDB(new, p, n) /\ t = Starts(new, p, n)
    BY <2>1 DEF Chooses
  <2>3. new[n] = old[n] /\ Written(a, f, r, place, n) = {}
    BY <1>2 DEF Pumping, Written
  <2>4. PICK s : s = src[n]
    OBVIOUS
  <2>5. /\ DOMAIN q = ParserFields /\ q.mode = p.mode /\ q.db = n
        /\ Partly(q, new[n], t, s, {}) /\ Table(t)
    BY <1>1, <2>2, PartStarts
  <2> QED BY <2>3, <2>4, <2>5 DEF Ready
<1>3. CASE Of(a, n) \cap Past(a, f, r) # {}
  <2>1. p.db = n /\ Partly(p, old[n], new[n], src[n], Written(a, f, r, place, n))
    BY <1>3 DEF Pumping
  <2>2. q = p /\ t = new[n]
    BY <2>1 DEF Chooses
  <2> QED BY <1>1, <2>1, <2>2 DEF Ready
<1> QED BY <1>2, <1>3

(* What a step of the pump comes to. *)
Pumps(a, f, r, p, place, src, old, new, bad, n, now, w) ==
    /\ Pumping(a, f, r, w, place, src, old, now, bad, n)
    /\ Tables(now) /\ DOMAIN now = DOMAIN new /\ w.mode = p.mode

LEMMA PumpWrites ==
  ASSUME NEW a, NEW src, Tables(src), NEW place, Copied(a, src, place), NEW f, NEW r,
         NEW p, p.mode \in WriteModes, NEW old, NEW new, Tables(new), NEW bad, NEW n,
         Pumping(a, f, r, p, place, src, old, new, bad, n), NEW g, Gives(a, f, r, g, n),
         NEW k, k = g.rec.id,
         NEW w, w = ParseRecord(new, p, a.entries[k].db, a.entries[k], "no"), w.ret = "ok"
  PROVE  Pumps(a, f, g.obj, p, place, src, old, new, bad, n, w.dev, w.parser)
<1>1. PICK S, i, o : S = Written(a, f, r, place, n) /\ i = place[k] /\ o = g.obj
  OBVIOUS
<1>2. Backed(a) /\ Inside(a, f, r, n)
  BY CopiedIsBacked DEF Pumping
<1>3. n # NoName
  BY <1>2, InsideFacts
<1>4. NextPlace(a, f, r, g, src, place, n, S, i)
  BY <1>1, <1>2, GivesNext
<1>5. /\ n \in DOMAIN src /\ S \subseteq DOMAIN src[n] /\ i \in DOMAIN src[n] /\ i \notin S
      /\ \A j \in DOMAIN src[n] : j <= i <=> j \in S \cup {i}
      /\ Written(a, f, o, place, n) = S \cup {i}
      /\ a.entries[k].db = n
      /\ a.entries[k].id = src[n][i].id /\ a.entries[k].val = src[n][i].val
  BY <1>1, <1>4 DEF NextPlace
<1>6. /\ Inside(a, f, o, n) /\ k \in Of(a, n) /\ Past(a, f, o) = Past(a, f, r) \cup {k}
  BY <1>1 DEF Gives
<1>7. \A x : x # n => Of(a, x) \cap Past(a, f, o) = Of(a, x) \cap Past(a, f, r)
  BY <1>6 DEF Of
<1>8. Of(a, n) \cap Past(a, f, o) # {}
  BY <1>6
<1>9. /\ GoodReader(a, f, r) /\ DOMAIN p = ParserFields /\ DOMAIN old = DOMAIN new /\ Tables(old)
      /\ f = [All EXCEPT !.list = DOMAIN new] /\ Begun(a, f, r, p, new)
      /\ Level(a, f, r, src, old, new, bad, p.mode, {n})
  BY DEF Pumping, Reading
<1>10. PICK e : e = a.entries[k]
  OBVIOUS
<1>11. w = ParseRecord(new, p, n, e, "no")
  BY <1>5, <1>10
<1>12. CASE n \in DOMAIN new
  <2>1. PICK q, t : Chooses(new, p, n, q, t)
    <3>1. PICK q, t : /\ q = IF p.db # n THEN StartDB(new, p, n) ELSE p
                      /\ t = IF p.db # n THEN Starts(new, p, n) ELSE new[n]
      OBVIOUS
    <3> QED BY <3>1 DEF Chooses
  <2>2. /\ DOMAIN q = ParserFields /\ q.mode = p.mode /\ q.db = n
        /\ Partly(q, old[n], t, src[n], S) /\ Table(t)
    <3>1. Ready(p, q, t, old[n], src[n], S, n)
      BY <1>1, <1>3, <1>12, <2>1, PumpReady
    <3> QED BY <3>1 DEF Ready
  <2>3. PICK u, c, so, oo : u = WriteNext(t, q, e) /\ c = Counted(q) /\ so = src[n] /\ oo = old[n]
    OBVIOUS
  <2>4. w.dev = [new EXCEPT ![n] = u] /\ w.parser = c
    <3>1. Parsed(new, n, e, "no", q, t, w)
      BY <1>11, <2>1, <2>2, ParseKnown
    <3> QED BY <2>3, <3>1, Zenon DEF Parsed
  <2>5. Partly(c, oo, u, so, S \cup {i}) /\ Table(u)
    <3>1. IsFiniteSet(DOMAIN so) /\ DOMAIN so \subseteq Nat \ {0} /\ Table(oo)
      BY <1>5, <1>9, <1>12, <2>3 DEF Tables, Table
    <3>2. S \subseteq DOMAIN so /\ i \in DOMAIN so /\ i \notin S
          /\ \A j \in DOMAIN so : j <= i <=> j \in S \cup {i}
      BY <1>5, <2>3
    <3>3. e.id = so[i].id /\ e.val = so[i].val
      BY <1>5, <1>10, <2>3
    <3>4. Partly(q, oo, t, so, S) /\ q.mode \in WriteModes
      BY <2>2, <2>3
    <3>5. Partly(Counted(q), oo, WriteNext(t, q, e), so, S \cup {i}) /\ Table(WriteNext(t, q, e))
      BY <2>2, <3>1, <3>2, <3>3, <3>4, PartWrites
    <3> QED BY <2>3, <3>5
  <2>6. DOMAIN c = ParserFields /\ c.mode = p.mode /\ c.db = n
    BY <2>2, <2>3, CountedFields
  <2>7. PICK now : now = w.dev
    OBVIOUS
  <2>8. DOMAIN now = DOMAIN new /\ now[n] = u /\ \A x \in DOMAIN new : x # n => now[x] = new[x]
    BY <1>12, <2>4, <2>7
  <2>9. Tables(now)
    <3> SUFFICES ASSUME NEW x \in DOMAIN now
                 PROVE  IsFiniteSet(DOMAIN now[x]) /\ DOMAIN now[x] \subseteq Nat \ {0}
      BY DEF Tables
    <3>1. CASE x = n
      BY <2>5, <2>8, <3>1 DEF Table
    <3>2. CASE x # n
      BY <2>8, <3>2 DEF Tables
    <3> QED BY <3>1, <3>2
  <2>10. Level(a, f, o, src, old, now, bad, p.mode, {n})
    <3>1. bad \subseteq bad
      OBVIOUS
    <3> QED BY <1>7, <1>9, <2>8, <3>1, LevelMoves
  <2>11. Reading(a, f, o, c, src, old, now)
    <3>1. Begun(a, f, o, c, now)
      BY <1>8, <1>12, <2>6, <2>8 DEF Begun
    <3>2. GoodReader(a, f, o) /\ f = [All EXCEPT !.list = DOMAIN now]
      BY <1>6, <1>9, <2>8 DEF Inside
    <3> QED BY <1>9, <2>6, <2>8, <3>1, <3>2 DEF Reading
  <2>12. Pumping(a, f, o, c, place, src, old, now, bad, n)
    BY <1>5, <1>6, <1>8, <2>3, <2>5, <2>6, <2>8, <2>10, <2>11 DEF Pumping
  <2> QED BY <1>1, <2>4, <2>6, <2>7, <2>8, <2>9, <2>12, Zenon DEF Pumps
<1>13. CASE n \notin DOMAIN new
  <2>1. p.db # n
    BY <1>3, <1>9, <1>13 DEF Begun
  <2>2. PICK c : c = w.parser
    OBVIOUS
  <2>3. /\ w.dev = new /\ DOMAIN c = ParserFields /\ c.mode = p.mode /\ c.db = NoName
    BY <1>3, <1>9, <1>11, <1>13, <2>1, <2>2, ParseUnknown
  <2>4. Level(a, f, o, src, old, new, bad, p.mode, {n})
    <3>1. bad \subseteq bad /\ DOMAIN new = DOMAIN new /\ \A x \in DOMAIN new : x # n => new[x] = new[x]
      OBVIOUS
    <3> QED BY <1>7, <1>9, <3>1, LevelMoves
  <2>5. Reading(a, f, o, c, src, old, new)
    BY <1>6, <1>9, <2>3 DEF Reading, Begun, Inside
  <2>6. Pumping(a, f, o, c, place, src, old, new, bad, n)
    BY <1>6, <1>13, <2>3, <2>4, <2>5 DEF Pumping
  <2> QED BY <1>1, <2>2, <2>3, <2>6 DEF Pumps
<1> QED BY <1>12, <1>13

(* The target refuses, and the rest of the database is skipped. *)
Looks(a, f, r, p, src, old, new, bad, now, w) ==
    /\ Looking(a, f, r, w, src, old, now, bad)
    /\ Tables(now) /\ DOMAIN now = DOMAIN new /\ w.mode = p.mode

LEMMA PumpRefused ==
  ASSUME NEW a, NEW src, Tables(src), NEW place, Copied(a, src, place), NEW f, NEW r,
         NEW p, NEW old, NEW new, Tables(new), NEW bad, NEW n,
         Pumping(a, f, r, p, place, src, old, new, bad, n), NEW g, Gives(a, f, r, g, n),
         NEW k, k = g.rec.id, NEW refuse,
         NEW w, w = ParseRecord(new, p, a.entries[k].db, a.entries[k], refuse),
         w.ret = "ReturnCodeError", NEW z, Leaves(a, f, g.obj, z, n)
  PROVE  Looks(a, f, z, p, src, old, new, bad \cup {w.parser.db}, w.dev, w.parser)
<1>1. PICK S, e, o : S = Written(a, f, r, place, n) /\ e = a.entries[k] /\ o = g.obj
  OBVIOUS
<1>2. Backed(a) /\ Inside(a, f, r, n)
  BY CopiedIsBacked DEF Pumping
<1>3. n # NoName
  BY <1>2, InsideFacts
<1>4. /\ Inside(a, f, o, n) /\ k \in Of(a, n) /\ Past(a, f, o) = Past(a, f, r) \cup {k}
  BY <1>1 DEF Gives
<1>5. w = ParseRecord(new, p, n, e, refuse)
  BY <1>1, <1>4 DEF Of
<1>6. /\ DOMAIN p = ParserFields /\ DOMAIN old = DOMAIN new /\ Tables(old)
      /\ f = [All EXCEPT !.list = DOMAIN new] /\ Begun(a, f, r, p, new)
      /\ Level(a, f, r, src, old, new, bad, p.mode, {n})
  BY DEF Pumping, Reading
<1>7. n \in DOMAIN new
  <2> SUFFICES ASSUME n \notin DOMAIN new PROVE FALSE
    OBVIOUS
  <2>1. p.db # n
    BY <1>3, <1>6 DEF Begun
  <2>2. w.ret = "ok"
    BY <1>3, <1>5, <1>6, <2>1, ParseUnknown
  <2> QED BY <2>2
<1>8. PICK q, t : Chooses(new, p, n, q, t)
  <2>1. PICK q, t : /\ q = IF p.db # n THEN StartDB(new, p, n) ELSE p
                    /\ t = IF p.db # n THEN Starts(new, p, n) ELSE new[n]
    OBVIOUS
  <2> QED BY <2>1 DEF Chooses
<1>9. DOMAIN q = ParserFields /\ q.mode = p.mode /\ q.db = n /\ Table(t)
  <2>1. Ready(p, q, t, old[n], src[n], S, n)
    BY <1>1, <1>3, <1>7, <1>8, PumpReady
  <2> QED BY <2>1 DEF Ready
<1>10. PICK now, c : now = w.dev /\ c = w.parser
  OBVIOUS
<1>11. now \in {new, [new EXCEPT ![n] = t]} /\ c \in {q, Counted(q)}
  <2>1. Parsed(new, n, e, refuse, q, t, w)
    BY <1>5, <1>8, <1>9, ParseKnown
  <2> QED BY <1>10, <2>1, Zenon DEF Parsed
<1>12. DOMAIN c = ParserFields /\ c.mode = p.mode /\ c.db = n
  BY <1>9, <1>11, CountedFields
<1>13. /\ DOMAIN now = DOMAIN new /\ \A x \in DOMAIN new : x # n => now[x] = new[x]
       /\ Table(now[n])
  BY <1>7, <1>9, <1>11 DEF Tables, Table
<1>14. Tables(now)
  <2> SUFFICES ASSUME NEW x \in DOMAIN now
               PROVE  IsFiniteSet(DOMAIN now[x]) /\ DOMAIN now[x] \subseteq Nat \ {0}
    BY DEF Tables
  <2> QED BY <1>13 DEF Tables, Table
<1>15. /\ GoodReader(a, f, z) /\ z.state \in {"NEXT", "EOF"} /\ Of(a, n) \subseteq Past(a, f, z)
       /\ \A m : m # n => Of(a, m) \cap Past(a, f, z) = Of(a, m) \cap Past(a, f, o)
  BY <1>1 DEF Leaves
<1>16. \A m : m # n => Of(a, m) \cap Past(a, f, z) = Of(a, m) \cap Past(a, f, r)
  BY <1>4, <1>15 DEF Of
<1>17. PICK more : more = bad \cup {n}
  OBVIOUS
<1>18. Level(a, f, z, src, old, now, more, p.mode, {n})
  <2>1. bad \subseteq more
    BY <1>17
  <2> QED BY <1>6, <1>13, <1>16, <2>1, LevelMoves
<1>19. Level(a, f, z, src, old, now, more, p.mode, {})
  <2>1. n \in more /\ Of(a, n) \cap Past(a, f, z) # {}
    BY <1>4, <1>15, <1>17
  <2> QED BY <1>15, <1>18, <2>1 DEF Level
<1>20. Reading(a, f, z, c, src, old, now)
  <2>1. Begun(a, f, z, c, now)
    BY <1>4, <1>7, <1>12, <1>13, <1>15 DEF Begun
  <2> QED BY <1>6, <1>12, <1>13, <1>15, <2>1 DEF Reading
<1>21. Looking(a, f, z, c, src, old, now, more)
  BY <1>12, <1>15, <1>19, <1>20 DEF Looking
<1> QED BY <1>10, <1>12, <1>13, <1>14, <1>17, <1>21, Zenon DEF Looks

(* The database is over. *)
LEMMA PumpEnds ==
  ASSUME NEW a, NEW src, NEW place, Copied(a, src, place), NEW f, NEW r,
         NEW p, p.mode \in WriteModes, NEW old, NEW new, NEW bad, NEW n,
         Pumping(a, f, r, p, place, src, old, new, bad, n),
         NEW o, Leaves(a, f, r, o, n), Of(a, n) \subseteq Past(a, f, r)
  PROVE  Looking(a, f, o, p, src, old, new, bad)
<1>1. Backed(a) /\ Inside(a, f, r, n)
  BY CopiedIsBacked DEF Pumping
<1>2. r.pos \in Of(a, n)
  BY <1>1, InsideFacts
<1>3. /\ DOMAIN p = ParserFields /\ DOMAIN old = DOMAIN new /\ Tables(old)
      /\ f = [All EXCEPT !.list = DOMAIN new] /\ Begun(a, f, r, p, new)
      /\ Level(a, f, r, src, old, new, bad, p.mode, {n})
  BY DEF Pumping, Reading
<1>4. /\ GoodReader(a, f, o) /\ o.state \in {"NEXT", "EOF"} /\ Of(a, n) \subseteq Past(a, f, o)
      /\ \A m : m # n => Of(a, m) \cap Past(a, f, o) = Of(a, m) \cap Past(a, f, r)
  BY DEF Leaves
<1>5. Level(a, f, o, src, old, new, bad, p.mode, {n})
  <2>1. bad \subseteq bad /\ DOMAIN new = DOMAIN new /\ \A x \in DOMAIN new : x # n => new[x] = new[x]
    OBVIOUS
  <2> QED BY <1>3, <1>4, <2>1, LevelMoves
<1>6. ASSUME n \in DOMAIN new PROVE Migrated(p.mode, old[n], new[n], src[n])
  <2>1. Of(a, n) \cap Past(a, f, r) # {} /\ Of(a, n) \cap Past(a, f, r) = Of(a, n)
    BY <1>2
  <2>2. Partly(p, old[n], new[n], src[n], Written(a, f, r, place, n))
    BY <1>6, <2>1 DEF Pumping
  <2>3. Written(a, f, r, place, n) = {place[k] : k \in Of(a, n)}
    BY <2>1 DEF Written
  <2>4. \A k \in Of(a, n) : n \in DOMAIN src /\ place[k] \in DOMAIN src[n]
    BY DEF Copied, Of, EntryOf
  <2>5. n \in DOMAIN src /\ \A i \in DOMAIN src[n] : \E k \in Of(a, n) : place[k] = i
    BY <1>2, <2>4 DEF Copied, Of
  <2>6. {place[k] : k \in Of(a, n)} = DOMAIN src[n]
    BY <2>4, <2>5
  <2>7. PICK x, y, s : x = old[n] /\ y = new[n] /\ s = src[n]
    OBVIOUS
  <2>8. Partly(p, x, y, s, DOMAIN s)
    BY <2>2, <2>3, <2>6, <2>7
  <2>9. Migrated(p.mode, x, y, s)
    BY <2>8, PartDone
  <2> QED BY <2>7, <2>9
<1>7. Level(a, f, o, src, old, new, bad, p.mode, {})
  <2>1. Of(a, n) \cap Past(a, f, o) # {}
    BY <1>2, <1>4
  <2> QED BY <1>4, <1>5, <1>6, <2>1 DEF Level
<1>8. Begun(a, f, o, p, new)
  <2>1. CASE p.db = n
    BY <1>2, <1>3, <1>4, <2>1 DEF Begun
  <2>2. CASE p.db # n
    BY <1>3, <1>4, <2>2 DEF Begun
  <2> QED BY <2>1, <2>2
<1> QED BY <1>3, <1>4, <1>7, <1>8 DEF Looking, Reading

-----------------------------------------------------------------------------
(* Between two databases. *)

LEMMA NewReader ==
  /\ DOMAIN New = ReaderFields /\ New.pos = 0 /\ New.state = "EMPTY" /\ New.db = NoName
  /\ \A a, f : Backed(a) => Past(a, f, New) = {} /\ GoodReader(a, f, New)
<1>1. DOMAIN New = ReaderFields /\ New.pos = 0 /\ New.state = "EMPTY" /\ New.db = NoName
  BY DEF New, ReaderFields
<1>2. ASSUME NEW a, NEW f, Backed(a) PROVE Past(a, f, New) = {} /\ GoodReader(a, f, New)
  <2>1. Selected(a, f) \subseteq 1..Len(a.entries) /\ Len(a.entries) \in Nat
    BY <1>2, SelectedFacts
  <2>2. Past(a, f, New) = {k \in Selected(a, f) : k <= 0}
    BY <1>1, <1>2, PastIs
  <2>3. Past(a, f, New) = {}
    BY <2>1, <2>2
  <2> QED BY <1>1, <2>1, <2>3 DEF GoodReader
<1> QED BY <1>1, <1>2

LEMMA LookStarts ==
  ASSUME NEW a, Backed(a), NEW src, NEW new, Tables(new), NEW f, f = [All EXCEPT !.list = DOMAIN new],
         NEW m, NEW p, p = NewParser(m), NEW bad
  PROVE  Looking(a, f, New, p, src, new, new, bad)
<1>1. /\ New.state = "EMPTY" /\ Past(a, f, New) = {} /\ GoodReader(a, f, New)
  BY NewReader
<1>2. DOMAIN p = ParserFields /\ p.db = NoName
  BY DEF NewParser, ParserFields
<1>3. Level(a, f, New, src, new, new, bad, p.mode, {})
  BY <1>1 DEF Level
<1> QED BY <1>1, <1>2, <1>3 DEF Looking, Reading, Begun

(* GetNextMeta finds the first record of the next database, or the end. *)
LEMMA LookGoesOn ==
  ASSUME NEW a, Backed(a), NEW src, NEW place, NEW old, NEW new, NEW f, NEW r, NEW p, NEW bad,
         Looking(a, f, r, p, src, old, new, bad), ~EndOfFile(r), NEW q, q = GetNextMeta(a, f, r)
  PROVE  IF HasMeta(q) THEN Pumping(a, f, q, p, place, src, old, new, bad, q.db)
         ELSE Looking(a, f, q, p, src, old, new, bad)
<1>1. /\ GoodReader(a, f, r) /\ DOMAIN p = ParserFields /\ DOMAIN old = DOMAIN new /\ Tables(old)
      /\ f = [All EXCEPT !.list = DOMAIN new] /\ Begun(a, f, r, p, new)
      /\ Level(a, f, r, src, old, new, bad, p.mode, {})
      /\ (r.state = "EMPTY" => r = New)
  BY DEF Looking, Reading
<1>2. q = Retrieve(a, f, r, TRUE)
  BY DEF GetNextMeta
<1>3. Selected(a, f) \in SUBSET Nat /\ Selected(a, f) \subseteq 1..Len(a.entries) /\ Len(a.entries) \in Nat
  BY SelectedFacts
<1>4. ASSUME q.state = "NEXT", GoodReader(a, f, q), Past(a, f, q) = Past(a, f, r)
      PROVE  Pumping(a, f, q, p, place, src, old, new, bad, q.db)
  <2>1. q.pos \in Selected(a, f) /\ q.db = a.entries[q.pos].db
    BY <1>4 DEF GoodReader, Loaded
  <2>2. q.pos \in Of(a, q.db)
    BY <2>1, SelectedFacts
  <2>3. q.pos \notin Past(a, f, q)
    BY <1>3, <1>4, <2>1 DEF Past
  <2>4. Inside(a, f, q, q.db)
    BY <1>4, NewReader DEF Inside
  <2>5. Reading(a, f, q, p, src, old, new)
    BY <1>1, <1>4 DEF Reading, Begun
  <2>6. Level(a, f, q, src, old, new, bad, p.mode, {})
    BY <1>1, <1>4 DEF Level
  <2>7. Level(a, f, q, src, old, new, bad, p.mode, {q.db})
    BY <2>6 DEF Level
  <2>8. q.db \in DOMAIN new => Of(a, q.db) \cap Past(a, f, q) = {} /\ new[q.db] = old[q.db]
    BY <2>2, <2>3, <2>6 DEF Level
  <2> QED BY <2>4, <2>5, <2>7, <2>8 DEF Pumping
<1>5. CASE r.state = "NEXT"
  <2>1. q = r
    BY <1>2, <1>5 DEF Retrieve
  <2>2. HasMeta(q) /\ q.state = "NEXT"
    BY <1>5, <2>1 DEF HasMeta
  <2> QED BY <1>1, <1>4, <2>1, <2>2
<1>6. CASE r.state = "EMPTY"
  <2>1. r.pos = 0 /\ r.db = NoName /\ Past(a, f, r) = {}
    BY <1>1, <1>6, NewReader
  <2>2. Finds(a, f, r, q)
    <3>1. TRUE \in BOOLEAN
      OBVIOUS
    <3> QED BY <1>1, <1>2, <1>6, <3>1, RetrieveFinds
  <2>3. Ahead(a, f, r) = Selected(a, f)
    BY <1>3, <2>1 DEF Ahead
  <2>4. CASE Selected(a, f) # {}
    <3>1. /\ q.pos \in Selected(a, f) /\ \A k \in Selected(a, f) : q.pos <= k
          /\ q.db = a.entries[q.pos].db /\ q.meta = q.pos /\ q.state = "NEXT"
          /\ DOMAIN q = ReaderFields
      BY <2>1, <2>2, <2>3, <2>4 DEF Finds
    <3>2. q.pos \in 0..Len(a.entries) /\ q.pos \in Nat
      BY <1>3, <3>1
    <3>3. GoodReader(a, f, q)
      BY <3>1, <3>2 DEF GoodReader, Loaded
    <3>4. Past(a, f, q) = {k \in Selected(a, f) : k < q.pos}
      BY <3>1, <3>2, PastIs
    <3>5. Past(a, f, q) = {}
      BY <1>3, <3>1, <3>2, <3>4
    <3> QED BY <1>4, <2>1, <3>1, <3>3, <3>5 DEF HasMeta
  <2>5. CASE Selected(a, f) = {}
    <3>1. q.state = "EOF" /\ q.pos = Len(a.entries) /\ DOMAIN q = ReaderFields
      BY <2>2, <2>3, <2>5 DEF Finds
    <3>2. GoodReader(a, f, q)
      BY <1>3, <3>1 DEF GoodReader
    <3>3. Past(a, f, q) = Past(a, f, r)
      BY <2>5 DEF Past
    <3>4. Reading(a, f, q, p, src, old, new)
      BY <1>1, <3>2, <3>3 DEF Reading, Begun
    <3>5. Level(a, f, q, src, old, new, bad, p.mode, {})
      BY <1>1, <3>3 DEF Level
    <3> QED BY <3>1, <3>4, <3>5 DEF HasMeta, Looking
  <2> QED BY <2>4, <2>5
<1> QED BY <1>1, <1>5, <1>6 DEF GoodReader, EndOfFile

(* At the end of the archive every database has had its turn. *)
LEMMA LookEnds ==
  ASSUME NEW a, NEW src, NEW place, Copied(a, src, place), NEW old, NEW new, NEW f, NEW r, NEW p, NEW bad,
         Looking(a, f, r, p, src, old, new, bad), EndOfFile(r), NEW d \in DOMAIN new \ bad
  PROVE  IF d \notin DOMAIN src \/ Ids(src[d]) = {} THEN new[d] = old[d]
         ELSE Migrated(p.mode, old[d], new[d], src[d])
<1>1. /\ GoodReader(a, f, r) /\ f = [All EXCEPT !.list = DOMAIN new]
      /\ Level(a, f, r, src, old, new, bad, p.mode, {})
  BY DEF Looking, Reading
<1>2. Backed(a)
  BY CopiedIsBacked
<1>3. Selected(a, f) \subseteq 1..Len(a.entries) /\ Len(a.entries) \in Nat
  BY <1>2, SelectedFacts
<1>4. Past(a, f, r) = Selected(a, f)
  <2>1. r.state = "EOF" /\ r.pos = Len(a.entries)
    BY <1>1 DEF EndOfFile, GoodReader
  <2>2. r.pos \in Nat
    BY <1>3, <2>1
  <2>3. Past(a, f, r) = {k \in Selected(a, f) : k <= r.pos}
    BY <1>2, <2>1, <2>2, PastIs
  <2>4. \A k \in Selected(a, f) : k <= r.pos
    BY <1>3, <2>1
  <2> QED BY <2>3, <2>4
<1>5. f.list = DOMAIN new /\ f.skip = {}
  BY <1>1 DEF All
<1>6. IsSelected(f, d)
  BY <1>5 DEF IsSelected
<1>7. Of(a, d) \cap Past(a, f, r) = Of(a, d)
  BY <1>4, <1>6 DEF Of, Selected
<1>8. \A k \in Of(a, d) : d \in DOMAIN src /\ place[k] \in DOMAIN src[d]
  BY DEF Copied, Of, EntryOf
<1>9. CASE d \notin DOMAIN src \/ Ids(src[d]) = {}
  <2>1. d \in DOMAIN src => DOMAIN src[d] = {}
    BY <1>9 DEF Ids
  <2>2. Of(a, d) = {}
    BY <1>8, <1>9, <2>1
  <2> QED BY <1>1, <1>7, <1>9, <2>2 DEF Level
<1>10. CASE ~(d \notin DOMAIN src \/ Ids(src[d]) = {})
  <2>1. PICK i : i \in DOMAIN src[d]
    BY <1>10 DEF Ids
  <2>2. Of(a, d) # {}
    BY <1>10, <2>1 DEF Copied, Of
  <2> QED BY <1>1, <1>7, <1>10, <2>2 DEF Level
<1> QED BY <1>9, <1>10

-----------------------------------------------------------------------------
(* The steps. *)

LEMMA SourceFacts ==
  ASSUME Stores
  PROVE  /\ Tables(source) /\ DOMAIN source = {DbList[k] : k \in DOMAIN DbList}
         /\ \A k \in 1..Len(DbList) : DbList[k] \in DOMAIN source
<1>1. DOMAIN DbList = 1..Len(DbList)
  BY DevicesAssumption
<1>2. Tables(source) /\ DOMAIN source = {DbList[k] : k \in DOMAIN DbList}
  BY DevicesAssumption, MigrateAssumption DEF Stores, Tables
<1> QED BY <1>1, <1>2

(* A step that leaves the thread and its objects as they are. *)
Goods == <<archive, source, builder, rd, parser, before, target, refused, mode, stage, result>>

LEMMA CopiesKept ==
  ASSUME Copies, UNCHANGED thread, UNCHANGED Goods
  PROVE  Copies'
<1>1. /\ archive' = archive /\ source' = source /\ builder' = builder /\ rd' = rd /\ parser' = parser
      /\ before' = before /\ target' = target /\ refused' = refused /\ mode' = mode /\ stage' = stage
      /\ result' = result /\ thread' = thread
  BY DEF Goods
<1>2. DestFilter' = DestFilter
  BY <1>1 DEF DestFilter
<1>3. CopiesBackup' /\ CopiesHeld' /\ CopiesLook' /\ CopiesPump' /\ CopiesEnd'
  BY <1>1, <1>2 DEF Copies, CopiesBackup, Holds, CopiesHeld, CopiesLook, CopiesPump, CopiesEnd, Finished
<1> QED BY <1>3 DEF Copies

(* A step to a place where nothing is known but the result. *)
LEMMA CopiesLeft ==
  ASSUME ~Holds', thread' # "backup", result' # "ok"
  PROVE  Copies'
<1>1. thread' \notin {"askPin", "look", "pump"}
  BY DEF Holds
<1> QED BY <1>1 DEF Copies, CopiesBackup, CopiesHeld, CopiesLook, CopiesPump, CopiesEnd

(* A step that keeps the archive and does not yet look into it. *)
LEMMA CopiesCarried ==
  ASSUME Copies, Holds, thread' \notin {"backup", "look", "pump"}, result' # "ok",
         archive' = archive, source' = source
  PROVE  Copies'
<1>1. CopiesHeld'
  BY DEF Copies, CopiesHeld
<1> QED BY <1>1 DEF Copies, CopiesBackup, CopiesLook, CopiesPump, CopiesEnd

LEMMA GuiCopies ==
  ASSUME Copies, UserStep \/ GuiStep
  PROVE  Copies'
<1>1. ASSUME NEW m, NEW d, OnMigrateNow(m, d) PROVE Copies'
  <2>1. thread' = "start" /\ result' = "none"
    BY <1>1 DEF OnMigrateNow
  <2> QED BY <2>1, CopiesLeft DEF Holds
<1>2. ASSUME \A m, d : ~OnMigrateNow(m, d) PROVE UNCHANGED thread /\ UNCHANGED Goods
  BY <1>2 DEF UserStep, GuiStep, DoSafeClose, JoinReturns, Takes, OnThreadFinished, OnCheckDestPin,
        ScanForDevices, ChooseDevice, OnPromptPassword, OnErrorMsg, Signal, devices, pipeline, history,
        Goods
<1> QED BY <1>1, <1>2, CopiesKept

(* The backup. *)
LEMMA BackupCopies ==
  ASSUME Copies, Stores, BackupRecord
  PROVE  Copies'
<1>1. PICK b : /\ b = FetchFromDevice(source, builder) /\ builder' = b
               /\ archive' = IF b.at # 0 THEN Backup_ParseRecord(archive, b) ELSE archive
  BY DEF BackupRecord
<1>2. /\ thread = "backup" /\ ~BuilderEOF(builder) /\ source' = source /\ stage' = stage
      /\ \/ thread' = "ending" /\ result' = "aborted"
         \/ thread' = thread /\ result' = result
  BY DEF BackupRecord, At, Keeps
<1>3. result # "ok" /\ stage = "backup" /\ GoodBuilder(builder) /\ GoodArchive(archive)
  BY <1>2 DEF Copies, CopiesBackup, CopiesEnd
<1>4. PICK which, place : Copying(archive, source, builder, which, place)
  BY <1>2 DEF Copies, CopiesBackup
<1>5. Fetches(source, builder, b)
  BY <1>1, <1>2, <1>3, SourceFacts, FetchDoes
<1>6. CASE thread' = "ending" /\ result' = "aborted"
  BY <1>6, CopiesLeft DEF Holds
<1>7. CASE thread' = thread /\ result' = result
  <2>1. GoodBuilder(b)
    BY <1>5 DEF Fetches
  <2>2. GoodArchive(archive') /\ \E f, g : Copying(archive', source, b, f, g)
    <3>1. CASE b.at = 0
      <4>1. Copying(archive, source, b, which, place)
        BY <1>3, <1>4, <1>5, <3>1, CopyGoesOn
      <4> QED BY <1>1, <1>3, <3>1, <4>1
    <3>2. CASE b.at # 0
      <4>1. PICK d, x : d = DbList[b.cur] /\ x = archive'
        OBVIOUS
      <4>2. d = b.dbs[b.cur]
        BY <2>1, <4>1 DEF GoodBuilder
      <4>3. x = [archive EXCEPT !.entries = Append(@, [db |-> d, whole |-> TRUE,
                    id |-> source[d][b.at].id, val |-> source[d][b.at].val])]
        BY <1>1, <3>2, <4>1, <4>2 DEF Backup_ParseRecord
      <4>4. GoodArchive(x) /\ \E f, g : Copying(x, source, b, f, g)
        BY <1>3, <1>4, <1>5, <3>2, <4>1, <4>3, SourceFacts, CopyAdds
      <4> QED BY <4>1, <4>4
    <3> QED BY <3>1, <3>2
  <2>3. CopiesBackup'
    BY <1>1, <1>2, <1>3, <2>1, <2>2 DEF CopiesBackup
  <2>4. ~Holds' /\ thread' = "backup" /\ result' # "ok"
    BY <1>2, <1>3, <1>7 DEF Holds
  <2> QED BY <2>3, <2>4 DEF Copies, CopiesHeld, CopiesLook, CopiesPump, CopiesEnd
<1> QED BY <1>2, <1>6, <1>7

LEMMA BackupDoneCopies ==
  ASSUME Copies, Stores, BackupDone
  PROVE  Copies'
<1>1. /\ thread = "backup" /\ BuilderEOF(builder) /\ source' = source /\ archive' = archive
      /\ \/ thread' = "ending" /\ result' = "aborted"
         \/ thread' = "askPin" /\ result' = result
  BY DEF BackupDone, At, Keeps, Ask, pipeline
<1>2. result # "ok" /\ GoodBuilder(builder) /\ GoodArchive(archive)
  BY <1>1 DEF Copies, CopiesBackup, CopiesEnd
<1>3. PICK which, place : Copying(archive, source, builder, which, place)
  BY <1>1 DEF Copies, CopiesBackup
<1>4. Copied(archive, source, place)
  BY <1>1, <1>2, <1>3, SourceFacts, CopyDone
<1>5. CASE thread' = "ending" /\ result' = "aborted"
  BY <1>5, CopiesLeft DEF Holds
<1>6. CASE thread' = "askPin" /\ result' = result
  <2>1. CopiesHeld'
    BY <1>1, <1>4 DEF CopiesHeld
  <2> QED BY <1>2, <1>6, <2>1 DEF Copies, CopiesBackup, CopiesLook, CopiesPump, CopiesEnd
<1> QED BY <1>1, <1>5, <1>6

(* A connection to the source or to the target. *)
LEMMA ConnectCopies ==
  ASSUME Copies, Stores, stage \in {"backup", "restore"}, ConnectTurn
  PROVE  Copies'
<1>1. /\ thread = "connect" /\ source' = source /\ target' = target /\ stage' = stage
      /\ refused' = refused /\ mode' = mode
  BY DEF ConnectTurn, At, Keeps
<1>2. result # "ok"
  BY <1>1 DEF Copies, CopiesEnd
<1>3. \/ /\ stage = "backup" /\ thread' = "backup" /\ builder' = NewBuilder(DbList) /\ archive' = Empty
         /\ result' = result
      \/ /\ stage # "backup" /\ thread' = "look" /\ rd' = New /\ parser' = NewParser(mode)
         /\ before' = target /\ archive' = archive /\ result' = result
      \/ thread' = "askPassword" /\ archive' = archive /\ result' = result
      \/ thread' = thread /\ archive' = archive /\ result' = result
      \/ thread' = "askError" /\ result' = "error"
  BY DEF ConnectTurn, Ask, Fails
<1>4. CASE /\ stage = "backup" /\ thread' = "backup" /\ builder' = NewBuilder(DbList)
           /\ archive' = Empty /\ result' = result
  <2>1. PICK b : b = NewBuilder(DbList)
    OBVIOUS
  <2>2. GoodBuilder(b) /\ GoodArchive(Empty) /\ \E which, place : Copying(Empty, source, b, which, place)
    BY <2>1, CopyStarts
  <2>3. CopiesBackup'
    BY <1>1, <1>4, <2>1, <2>2 DEF CopiesBackup
  <2>4. ~Holds' /\ result' # "ok"
    BY <1>2, <1>4 DEF Holds
  <2> QED BY <1>4, <2>3, <2>4 DEF Copies, CopiesHeld, CopiesLook, CopiesPump, CopiesEnd
<1>5. CASE /\ stage # "backup" /\ thread' = "look" /\ rd' = New /\ parser' = NewParser(mode)
           /\ before' = target /\ archive' = archive /\ result' = result /\ stage = "restore"
  <2>1. PICK place : Copied(archive, source, place)
    BY <1>1, <1>5 DEF Copies, CopiesHeld, Holds
  <2>2. PICK f, p : f = DestFilter /\ p = NewParser(mode)
    OBVIOUS
  <2>3. Looking(archive, f, New, p, source, target, target, refused)
    <3>1. f = [All EXCEPT !.list = DOMAIN target] /\ Tables(target)
      BY <2>2 DEF DestFilter, Stores
    <3>2. Backed(archive)
      BY <2>1, CopiedIsBacked
    <3> QED BY <2>2, <3>1, <3>2, LookStarts
  <2>4. DestFilter' = f
    BY <1>1, <2>2 DEF DestFilter
  <2>5. CopiesLook'
    BY <1>1, <1>5, <2>2, <2>3, <2>4 DEF CopiesLook
  <2>6. CopiesHeld'
    BY <1>1, <1>5, <2>1 DEF CopiesHeld
  <2> QED BY <1>2, <1>5, <2>5, <2>6 DEF Copies, CopiesBackup, CopiesPump, CopiesEnd
<1>6. CASE thread' \in {"askPassword", "connect"} /\ archive' = archive /\ result' = result
  <2>1. CASE stage = "restore"
    BY <1>1, <1>2, <1>6, <2>1, CopiesCarried DEF Holds
  <2>2. CASE stage # "restore"
    BY <1>1, <1>2, <1>6, <2>2, CopiesLeft DEF Holds
  <2> QED BY <2>1, <2>2
<1>7. CASE thread' = "askError" /\ result' = "error"
  BY <1>7, CopiesLeft DEF Holds
<1> QED BY <1>1, <1>3, <1>4, <1>5, <1>6, <1>7

(* The head of the loop in RestoreToDest. *)
LEMMA LookCopies ==
  ASSUME Copies, Writing, LookAtNext
  PROVE  Copies'
<1>1. /\ thread = "look" /\ archive' = archive /\ source' = source /\ target' = target
      /\ before' = before /\ parser' = parser /\ refused' = refused /\ mode' = mode
  BY DEF LookAtNext, At, Keeps
<1>2. /\ Looking(archive, DestFilter, rd, parser, source, before, target, refused)
      /\ result # "ok" /\ parser.mode = mode
  BY <1>1 DEF Copies, CopiesLook, CopiesEnd, Writing
<1>3. PICK place : Copied(archive, source, place)
  BY <1>1 DEF Copies, CopiesHeld, Holds
<1>4. DestFilter' = DestFilter
  BY <1>1 DEF DestFilter
<1>5. CASE EndOfFile(rd)
  <2>1. thread' = "ending"
    BY <1>5 DEF LookAtNext
  <2>2. Finished
    <3> SUFFICES ASSUME NEW d \in DOMAIN target \ refused
                 PROVE  IF d \notin DOMAIN source \/ Ids(source[d]) = {} THEN target[d] = before[d]
                        ELSE Migrated(mode, before[d], target[d], source[d])
      BY DEF Finished
    <3> QED BY <1>2, <1>3, <1>5, LookEnds
  <2>3. Finished'
    BY <1>1, <2>2 DEF Finished
  <2>4. ~Holds'
    BY <2>1 DEF Holds
  <2> QED BY <2>1, <2>3, <2>4 DEF Copies, CopiesBackup, CopiesHeld, CopiesLook, CopiesPump, CopiesEnd
<1>6. CASE ~EndOfFile(rd)
  <2>1. PICK q : q = GetNextMeta(archive, DestFilter, rd)
    OBVIOUS
  <2>2. rd' = q /\ thread' = (IF HasMeta(q) THEN "pump" ELSE "look") /\ result' = result
    BY <1>6, <2>1 DEF LookAtNext
  <2>3. PICK f : f = DestFilter
    OBVIOUS
  <2>4. Backed(archive)
    BY <1>3, CopiedIsBacked
  <2>5. IF HasMeta(q) THEN Pumping(archive, f, q, parser, place, source, before, target, refused, q.db)
        ELSE Looking(archive, f, q, parser, source, before, target, refused)
    <3>1. Looking(archive, f, rd, parser, source, before, target, refused)
      BY <1>2, <2>3
    <3>2. q = GetNextMeta(archive, f, rd)
      BY <2>1, <2>3
    <3> QED BY <1>6, <2>4, <3>1, <3>2, LookGoesOn
  <2>6. CopiesHeld'
    BY <1>1, <1>3 DEF CopiesHeld
  <2>7. CopiesLook' /\ CopiesPump'
    BY <1>1, <1>3, <1>4, <2>2, <2>3, <2>5 DEF CopiesLook, CopiesPump
  <2> QED BY <1>2, <2>2, <2>6, <2>7 DEF Copies, CopiesBackup, CopiesEnd
<1> QED BY <1>5, <1>6

(* One record of the restore. *)
LEMMA RestoreCopies ==
  ASSUME Copies, Stores, Writing, mode \in WriteModes, NEW refuse, RestoreRecord(refuse)
  PROVE  Copies' /\ Stores'
<1>1. /\ thread = "pump" /\ archive' = archive /\ source' = source /\ before' = before /\ mode' = mode
  BY DEF RestoreRecord, At, Keeps
<1>2. result # "ok" /\ parser.mode \in WriteModes /\ parser.mode = mode
  BY <1>1 DEF Copies, CopiesEnd, Writing
<1>3. PICK a, s, f, p, r, old, new, bad :
         /\ a = archive /\ s = source /\ f = DestFilter /\ p = parser /\ r = rd
         /\ old = before /\ new = target /\ bad = refused
  OBVIOUS
<1>4. PICK place : Copied(archive, source, place) /\
                   Pumping(archive, DestFilter, rd, parser, place, source, before, target, refused, rd.db)
  BY <1>1 DEF Copies, CopiesPump
<1>5. PICK n : n = r.db
  OBVIOUS
<1>6. /\ Copied(a, s, place) /\ Pumping(a, f, r, p, place, s, old, new, bad, n)
      /\ Tables(s) /\ Tables(new) /\ p.mode \in WriteModes /\ s \in Sources
  BY <1>2, <1>3, <1>4, <1>5, SourceFacts DEF Stores
<1>7. Backed(a) /\ Inside(a, f, r, n)
  BY <1>6, CopiedIsBacked DEF Pumping
<1>8. PICK g : g = FetchRecord(a, f, r)
  OBVIOUS
<1>9. Fetched(a, f, r, g, n)
  BY <1>7, <1>8, FetchRecordDoes
<1>10. PICK k, w : k = g.rec.id /\ w = ParseRecord(new, p, a.entries[k].db, a.entries[k], refuse)
  OBVIOUS
<1>11. \/ /\ g.ret = "false" /\ rd' = g.obj /\ thread' = "look"
          /\ UNCHANGED <<target, parser, refused, result>>
       \/ /\ g.ret = "true" /\ w.ret = "ok" /\ refuse = "no" /\ rd' = g.obj
          /\ target' = w.dev /\ parser' = w.parser
          /\ \/ thread' = "ending" /\ result' = "aborted"
             \/ UNCHANGED <<thread, result>>
          /\ UNCHANGED refused
       \/ /\ g.ret = "true" /\ w.ret = "ReturnCodeError" /\ target' = w.dev /\ parser' = w.parser
          /\ rd' = SkipCurrentDB(a, f, g.obj) /\ thread' = "look"
          /\ refused' = bad \cup {w.parser.db} /\ UNCHANGED result
  <2>1. g = FetchRecord(archive, DestFilter, rd)
    BY <1>3, <1>8
  <2>2. g.ret = "true" => w = IF g.ret = "true" THEN Pumped(g.rec.id, refuse) ELSE Idle
    BY <1>3, <1>10 DEF Pumped
  <2> QED BY <1>3, <2>1, <2>2 DEF RestoreRecord
<1>12. CASE /\ g.ret = "false" /\ rd' = g.obj /\ thread' = "look"
            /\ UNCHANGED <<target, parser, refused, result>>
  <2>1. Leaves(a, f, r, g.obj, n) /\ Of(a, n) \subseteq Past(a, f, r)
    BY <1>9, <1>12 DEF Fetched
  <2>2. PICK o : o = g.obj
    OBVIOUS
  <2>3. Looking(a, f, o, p, s, old, new, bad)
    BY <1>6, <2>1, <2>2, PumpEnds
  <2>4. DestFilter' = f
    BY <1>3, <1>12 DEF DestFilter
  <2>5. CopiesLook'
    BY <1>1, <1>3, <1>12, <2>2, <2>3, <2>4 DEF CopiesLook
  <2>6. CopiesHeld'
    BY <1>1, <1>4 DEF CopiesHeld
  <2>7. Stores'
    BY <1>1, <1>12 DEF Stores, Tables
  <2> QED BY <1>2, <1>12, <2>5, <2>6, <2>7 DEF Copies, CopiesBackup, CopiesPump, CopiesEnd
<1>13. CASE /\ g.ret = "true" /\ w.ret = "ok" /\ refuse = "no" /\ rd' = g.obj
            /\ target' = w.dev /\ parser' = w.parser
            /\ \/ thread' = "ending" /\ result' = "aborted"
               \/ UNCHANGED <<thread, result>>
            /\ UNCHANGED refused
  <2>1. Gives(a, f, r, g, n)
    BY <1>9, <1>13 DEF Fetched
  <2>2. w = ParseRecord(new, p, a.entries[k].db, a.entries[k], "no")
    BY <1>10, <1>13
  <2>3. PICK o, now, c : o = g.obj /\ now = w.dev /\ c = w.parser
    OBVIOUS
  <2>4. Pumps(a, f, o, p, place, s, old, new, bad, n, now, c)
    <3>1. Pumps(a, f, g.obj, p, place, s, old, new, bad, n, w.dev, w.parser)
      BY <1>6, <1>10, <1>13, <2>1, <2>2, PumpWrites, Zenon
    <3> QED BY <2>3, <3>1
  <2>5. Pumping(a, f, o, c, place, s, old, now, bad, n) /\ Tables(now) /\ DOMAIN now = DOMAIN new
    BY <2>4 DEF Pumps
  <2>6. DestFilter' = f
    BY <1>3, <1>13, <2>3, <2>5 DEF DestFilter
  <2>7. o.db = n
    BY <2>5 DEF Pumping, Inside
  <2>8. Stores'
    BY <1>1, <1>3, <1>6, <1>13, <2>3, <2>5 DEF Stores
  <2>9. CASE thread' = "ending" /\ result' = "aborted"
    BY <2>8, <2>9, CopiesLeft DEF Holds
  <2>10. CASE UNCHANGED <<thread, result>>
    <3>1. Pumping(archive', DestFilter', rd', parser', place, source', before', target', refused', rd'.db)
      BY <1>1, <1>3, <1>13, <2>3, <2>5, <2>6, <2>7
    <3>2. Copied(archive', source', place)
      BY <1>1, <1>4
    <3>3. CopiesPump' /\ CopiesHeld'
      BY <3>1, <3>2 DEF CopiesPump, CopiesHeld
    <3> QED BY <1>1, <1>2, <2>8, <2>10, <3>3 DEF Copies, CopiesBackup, CopiesLook, CopiesEnd
  <2> QED BY <1>13, <2>9, <2>10
<1>14. CASE /\ g.ret = "true" /\ w.ret = "ReturnCodeError" /\ target' = w.dev /\ parser' = w.parser
            /\ rd' = SkipCurrentDB(a, f, g.obj) /\ thread' = "look"
            /\ refused' = bad \cup {w.parser.db} /\ UNCHANGED result
  <2>1. Gives(a, f, r, g, n)
    BY <1>9, <1>14 DEF Fetched
  <2>2. PICK o, z, now, c, more : /\ o = g.obj /\ z = SkipCurrentDB(a, f, o) /\ now = w.dev
                                  /\ c = w.parser /\ more = bad \cup {c.db}
    OBVIOUS
  <2>3. Inside(a, f, o, n)
    BY <2>1, <2>2 DEF Gives
  <2>4. Leaves(a, f, o, z, n)
    BY <1>7, <2>2, <2>3, SkipDoes
  <2>5. Looks(a, f, z, p, s, old, new, more, now, c)
    <3>1. Leaves(a, f, g.obj, z, n)
      BY <2>2, <2>4
    <3>2. Looks(a, f, z, p, s, old, new, bad \cup {w.parser.db}, w.dev, w.parser)
      BY <1>6, <1>10, <1>14, <2>1, <3>1, PumpRefused, Zenon
    <3> QED BY <2>2, <3>2
  <2>6. Looking(a, f, z, c, s, old, now, more) /\ Tables(now) /\ DOMAIN now = DOMAIN new
    BY <2>5 DEF Looks
  <2>7. DestFilter' = f
    BY <1>3, <1>14, <2>2, <2>6 DEF DestFilter
  <2>8. CopiesLook'
    BY <1>1, <1>3, <1>14, <2>2, <2>6, <2>7 DEF CopiesLook
  <2>9. CopiesHeld'
    BY <1>1, <1>4 DEF CopiesHeld
  <2>10. Stores'
    BY <1>1, <1>3, <1>6, <1>14, <2>2, <2>6 DEF Stores
  <2> QED BY <1>2, <1>14, <2>8, <2>9, <2>10 DEF Copies, CopiesBackup, CopiesPump, CopiesEnd
<1> QED BY <1>11, <1>12, <1>13, <1>14

(* The other steps of the thread. *)
LEMMA OtherCopies ==
  ASSUME Copies, \/ MigrateThread \/ BeginWait \/ PasswordAnswered \/ PinAnswered \/ UsbError
                 \/ ErrorAnswered \/ ThreadEnding \/ SendFinished
  PROVE  Copies'
<1>0. thread \notin {"ending", "finish", "done"} => result # "ok"
  BY DEF Copies, CopiesEnd
<1>1. CASE MigrateThread
  <2>1. thread = "start" /\ thread' = "connect" /\ stage' = "backup" /\ result' = result
    BY <1>1 DEF MigrateThread, At, history
  <2> QED BY <1>0, <2>1, CopiesLeft DEF Holds
<1>2. CASE BeginWait
  <2>1. UNCHANGED thread /\ UNCHANGED Goods
    BY <1>2 DEF BeginWait, dialog, devices, pipeline, history, Goods
  <2> QED BY <2>1, CopiesKept
<1>3. CASE PasswordAnswered
  <2>1. /\ thread = "askPassword" /\ archive' = archive /\ source' = source /\ stage' = stage
        /\ \/ thread' = "ending" /\ result' = "aborted"
           \/ thread' = "connect" /\ result' = result
    BY <1>3 DEF PasswordAnswered, At, Keeps, pipeline
  <2>2. CASE thread' = "ending" /\ result' = "aborted"
    BY <2>2, CopiesLeft DEF Holds
  <2>3. CASE thread' = "connect" /\ result' = result /\ stage = "restore"
    BY <1>0, <2>1, <2>3, CopiesCarried DEF Holds
  <2>4. CASE thread' = "connect" /\ result' = result /\ stage # "restore"
    BY <1>0, <2>1, <2>4, CopiesLeft DEF Holds
  <2> QED BY <2>1, <2>2, <2>3, <2>4
<1>4. CASE PinAnswered
  <2>1. /\ thread = "askPin" /\ archive' = archive /\ source' = source
        /\ \/ thread' = "ending" /\ result' = "aborted"
           \/ thread' = "connect" /\ result' = result
    BY <1>4 DEF PinAnswered, At, Keeps
  <2>2. CASE thread' = "ending" /\ result' = "aborted"
    BY <2>2, CopiesLeft DEF Holds
  <2>3. CASE thread' = "connect" /\ result' = result
    BY <1>0, <2>1, <2>3, CopiesCarried DEF Holds
  <2> QED BY <2>1, <2>2, <2>3
<1>5. CASE UsbError
  <2>1. thread' = "askError" /\ result' = "error"
    BY <1>5 DEF UsbError, Fails, Ask
  <2> QED BY <2>1, CopiesLeft DEF Holds
<1>6. CASE ErrorAnswered
  <2>1. thread = "askError" /\ thread' = "ending" /\ result' = result
    BY <1>6 DEF ErrorAnswered, At, history
  <2> QED BY <1>0, <2>1, CopiesLeft DEF Holds
<1>7. CASE ThreadEnding \/ SendFinished
  <2>1. /\ thread' \in {"finish", "done"} /\ result' = result /\ target' = target /\ source' = source
        /\ before' = before /\ refused' = refused /\ mode' = mode
    BY <1>7 DEF ThreadEnding, SendFinished, Keeps, history
  <2>2. CopiesEnd'
    BY <2>1 DEF Copies, CopiesEnd, Finished
  <2>3. ~Holds' /\ thread' \notin {"backup", "look", "pump"}
    BY <2>1 DEF Holds
  <2> QED BY <2>2, <2>3 DEF Copies, CopiesBackup, CopiesHeld, CopiesLook, CopiesPump
<1> QED BY <1>1, <1>2, <1>3, <1>4, <1>5, <1>6, <1>7

LEMMA InitCopies == Init => Stores /\ Copies
<1> SUFFICES ASSUME Init PROVE Stores /\ Copies
  OBVIOUS
<1>1. source \in Sources /\ target \in Targets /\ thread = "none" /\ result = "none"
  BY DEF Init
<1>2. Stores
  BY <1>1, DevicesAssumption DEF Stores, Tables
<1>3. ~Holds
  BY <1>1 DEF Holds
<1> QED BY <1>1, <1>2, <1>3 DEF Copies, CopiesBackup, CopiesHeld, CopiesLook, CopiesPump, CopiesEnd

LEMMA StepCopies == IInv /\ Stores /\ Copies /\ [Next]_vars => Stores' /\ Copies'
<1> SUFFICES ASSUME IInv, Stores, Copies, [Next]_vars PROVE Stores' /\ Copies'
  OBVIOUS
<1>1. mode \in WriteModes /\ stage \in {"backup", "restore"} /\ Writing
  BY DEF IInv, TypeOK
<1>2. ASSUME NEW refuse, RestoreRecord(refuse) PROVE Stores' /\ Copies'
  BY <1>1, <1>2, RestoreCopies
<1>3. CASE \A refuse : ~RestoreRecord(refuse)
  <2>1. target' = target
    BY <1>3, StepTarget
  <2>2. source' = source
    BY <1>3 DEF Next, UserStep, GuiStep, ThreadStep, OnMigrateNow, DoSafeClose, JoinReturns, Takes,
          OnThreadFinished, OnCheckDestPin, ScanForDevices, ChooseDevice, OnPromptPassword,
          OnErrorMsg, Signal, MigrateThread, ConnectTurn, BeginWait, PasswordAnswered,
          BackupRecord, BackupDone, PinAnswered, LookAtNext, UsbError, ErrorAnswered,
          ThreadEnding, SendFinished, Keeps, vars, dialog, devices, pipeline, history
  <2>3. Stores'
    BY <2>1, <2>2 DEF Stores, Tables
  <2>4. CASE UserStep \/ GuiStep
    BY <2>4, GuiCopies, <2>3
  <2>5. CASE UNCHANGED vars
    <3>1. UNCHANGED thread /\ UNCHANGED Goods
      BY <2>5 DEF vars, dialog, devices, pipeline, history, Goods
    <3> QED BY <2>3, <3>1, CopiesKept
  <2>6. CASE ConnectTurn
    BY <1>1, <2>3, <2>6, ConnectCopies
  <2>7. CASE BackupRecord
    BY <2>3, <2>7, BackupCopies
  <2>8. CASE BackupDone
    BY <2>3, <2>8, BackupDoneCopies
  <2>9. CASE LookAtNext
    BY <1>1, <2>3, <2>9, LookCopies
  <2>10. CASE \/ MigrateThread \/ BeginWait \/ PasswordAnswered \/ PinAnswered \/ UsbError
              \/ ErrorAnswered \/ ThreadEnding \/ SendFinished
    BY <2>3, <2>10, OtherCopies
  <2> QED BY <1>3, <2>4, <2>5, <2>6, <2>7, <2>8, <2>9, <2>10, Zenon DEF Next, ThreadStep
<1> QED BY <1>2, <1>3

LEMMA CopiesAlways == Spec => [](IInv /\ Stores /\ Copies)
BY InitInv, StepInv, InitCopies, StepCopies, PTL DEF Spec

(* For any contents of the two devices, any databases and any number of
   migrations: a thread that came to its end without an error has moved every
   record of every database that the target has and did not refuse, as the
   write mode says, although the archive in between is written database by
   database and read through a filter, the reader runs one record ahead, a
   refusal skips the rest of a database, and the new ids are made from a table
   that is not read again (MigrateDlg.cc, BackupSource and RestoreToDest;
   m_desktop.cc:663 and 738; r_recordstate.cc:105). *)
THEOREM MigrationsComplete == Spec => []MigrationComplete
<1>1. Copies => MigrationComplete
  BY DEF Copies, CopiesEnd, Finished, MigrationComplete
<1> QED
  BY <1>1, CopiesAlways, PTL
=============================================================================
