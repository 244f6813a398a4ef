------------------------------ MODULE Migrate ------------------------------
(***************************************************************************)
(* The migration dialog (desktop/src/MigrateDlg.cc): the GUI thread, which *)
(* runs the handlers of MigrateDlg, and the thread it creates, which backs *)
(* up the source device into an archive and restores that to the target.   *)
(* The threads share m_abort_flag, m_thread_running, the events the thread *)
(* posts, and m_waiter, an EasyCondition whose mutex is locked from the    *)
(* start, so that Signal blocks until the thread is inside Wait.           *)
(*                                                                         *)
(* The thread composes the library's parts: Connector, DeviceBuilder,      *)
(* Backup, Restore and DeviceParser.  Status events are left out.          *)
(***************************************************************************)
EXTENDS Desktop, Restore, Connector

CONSTANTS Sources,    \* the source devices to migrate from
          Targets,    \* the target devices to migrate to
          DbList,     \* the databases of the source, in the order of its DBDB
          Passwords,  \* what a user may type, NoPassword to give up
          MaxRounds,  \* bound: migrations started
          MaxFaults   \* bound: USB errors, timeouts and refused commands

ASSUME MigrateAssumption ==
    /\ MaxRounds \in Nat /\ MaxFaults \in Nat
    /\ NoPassword \in Passwords /\ Right \in Passwords /\ NoPassword # Right
    /\ MinTries \in Nat \ {0} /\ MaxTries \in Nat /\ MinTries <= MaxTries
    /\ \A s \in Sources : DOMAIN s = {DbList[k] : k \in DOMAIN DbList}

(* A DBDB names a database once, and a record has a place in the state table of
   its database. *)
ASSUME DevicesAssumption ==
    /\ DbList = [k \in 1..Len(DbList) |-> DbList[k]] /\ Len(DbList) \in Nat
    /\ \A k \in 1..Len(DbList) : DbList[k] # NoName
    /\ \A j, k \in 1..Len(DbList) : DbList[j] = DbList[k] => j = k
    /\ \A s \in Sources \cup Targets : \A n \in DOMAIN s :
          IsFiniteSet(DOMAIN s[n]) /\ DOMAIN s[n] \subseteq Nat \ {0}

VARIABLES
  (* the dialog *)
  dlg,      \* "open", or "ended" after EndModal
  enabled,  \* EnableControls
  gui,      \* what the GUI thread is doing
  events,   \* events posted to the dialog and not handled yet
  abort, running, created,    \* m_abort_flag, m_thread_running, m_migrate_thread_created
  mode, dest, typed,          \* m_write_mode, m_dest_device, m_password
  (* the thread *)
  thread,   \* where it is
  wait,     \* "no", "sent" an event, "waiting" in Wait, "woken"
  stage,    \* "backup" or "restore"
  conn, lock,                 \* the Connector; tries and locks of the two devices
  builder, archive, rd, parser,
  source, target,             \* the contents of the two devices
  (* history *)
  before,   \* the target when the thread started to write
  refused,  \* the databases the target refused to clear or write
  result,   \* how the thread got to its end: "none", "ok", "aborted", "error"
  rounds, faults

dialog == <<dlg, enabled, gui, events, abort, running, created, mode, dest, typed>>
devices == <<conn, lock, source, target>>
pipeline == <<stage, builder, archive, rd, parser>>
history == <<before, refused, result, rounds, faults>>
vars == <<dialog, thread, wait, devices, pipeline, history>>

Handlers == {"joinClose", "joinFinish", "yield", "choose", "signal"}
Asks == {"askPassword", "askPin", "askError"}
EventOf == [askPassword |-> "PROMPT_PASSWORD", askPin |-> "CHECK_DEST_PIN",
            askError |-> "ERROR_MSG"]

Empty == [entries |-> <<>>, torn |-> FALSE]
All == [list |-> {}, skip |-> {}, all |-> TRUE]

TypeOK ==
    /\ dlg \in {"open", "ended"} /\ gui \in {"loop"} \cup Handlers
    /\ {enabled, abort, running, created} \subseteq BOOLEAN
    /\ mode \in WriteModes /\ dest \in {"none", "source", "target"} /\ typed \in Passwords
    /\ thread \in {"none", "start", "connect", "backup", "look", "pump", "ending",
                   "finish", "done"} \cup Asks
    /\ wait \in {"no", "sent", "waiting", "woken"} /\ (wait # "no" => thread \in Asks)
    /\ stage \in {"backup", "restore"}
    /\ \A s \in DOMAIN lock : lock[s].left \in 0..MaxTries
    /\ result \in {"none", "ok", "aborted", "error"}
    /\ Len(events) <= 2 /\ faults \in 0..MaxFaults /\ rounds \in 0..MaxRounds

Init ==
    /\ dlg = "open" /\ enabled = TRUE /\ gui = "loop" /\ events = <<>>
    /\ abort = FALSE /\ running = FALSE /\ created = FALSE
    /\ mode = "ERASE_ALL_WRITE_ALL" /\ dest = "none" /\ typed = NoPassword
    /\ thread = "none" /\ wait = "no" /\ stage = "backup"
    /\ conn = NewConnector(NoPassword)
    /\ lock \in [{"source", "target"} -> [locked : BOOLEAN, left : {MaxTries}]]
    /\ builder = NewBuilder(<<>>) /\ archive = Empty /\ rd = New
    /\ parser = NewParser(mode)
    /\ source \in Sources /\ target \in Targets
    /\ before = target /\ refused = {} /\ result = "none"
    /\ rounds = 0 /\ faults = 0

-----------------------------------------------------------------------------
(* The GUI thread. *)

(* OnMigrateNow, with both choices made and valid; pthread_create succeeds. *)
OnMigrateNow(m, d) ==
    /\ dlg = "open" /\ gui = "loop" /\ enabled /\ rounds < MaxRounds
    /\ mode' = m /\ dest' = d
    /\ enabled' = FALSE /\ abort' = FALSE /\ running' = FALSE
    /\ thread' = "start" /\ created' = TRUE
    /\ result' = "none" /\ refused' = {} /\ rounds' = rounds + 1
    /\ UNCHANGED <<dlg, gui, events, typed, wait, devices, pipeline, before, faults>>

(* OnCancel and OnCloseWindow: DoSafeClose.  Yield in OnCheckDestPin is the
   other place where a click is handled. *)
DoSafeClose ==
    /\ dlg = "open" /\ gui \in {"loop", "yield"}
    /\ IF running
       THEN /\ abort' = TRUE
            /\ IF created THEN gui' = "joinClose" /\ UNCHANGED dlg
               ELSE dlg' = "ended" /\ UNCHANGED gui
       ELSE dlg' = "ended" /\ UNCHANGED <<abort, gui>>
    /\ UNCHANGED <<enabled, events, running, created, mode, dest, typed, thread, wait,
                   devices, pipeline, history>>

(* The rest of OnThreadFinished once the thread is joined. *)
AfterFinish ==
    IF abort THEN enabled' = TRUE /\ UNCHANGED dlg ELSE dlg' = "ended" /\ UNCHANGED enabled

(* Mutant: the thread is detached and not waited for. *)
JoinReturns_detached ==
    /\ gui \in {"joinClose", "joinFinish"}
    /\ created' = FALSE /\ gui' = "loop"
    /\ IF gui = "joinClose" THEN dlg' = "ended" /\ UNCHANGED enabled ELSE AfterFinish
    /\ UNCHANGED <<events, abort, running, mode, dest, typed, thread, wait, devices,
                   pipeline, history>>

(* pthread_join returns, in DoSafeClose or in OnThreadFinished. *)
JoinReturns ==
    /\ gui \in {"joinClose", "joinFinish"} /\ thread = "done"
    /\ created' = FALSE /\ gui' = "loop"
    /\ IF gui = "joinClose" THEN dlg' = "ended" /\ UNCHANGED enabled ELSE AfterFinish
    /\ UNCHANGED <<events, abort, running, mode, dest, typed, thread, wait, devices,
                   pipeline, history>>

(* The event loop takes the next event. *)
Takes(e) ==
    /\ dlg = "open" /\ gui = "loop" /\ events # <<>> /\ Head(events) = e
    /\ events' = Tail(events)
    /\ UNCHANGED <<running, created, mode, thread, wait, devices, pipeline, history>>

OnThreadFinished ==
    /\ Takes("THREAD_FINISHED")
    /\ IF created THEN gui' = "joinFinish" /\ UNCHANGED <<dlg, enabled>>
       ELSE AfterFinish /\ UNCHANGED gui
    /\ UNCHANGED <<abort, dest, typed>>

(* A handler that asks the user ends in the destructor of ScopeSignaler. *)
OnCheckDestPin ==
    /\ Takes("CHECK_DEST_PIN")
    /\ \/ dest # "none" /\ gui' = "signal" /\ UNCHANGED abort
       \/ dest = "none" /\ gui' = "yield" /\ UNCHANGED abort
       \/ dest = "none" /\ gui' = "signal" /\ abort' = TRUE
    /\ UNCHANGED <<dlg, enabled, dest, typed>>

(* The rest of OnCheckDestPin: Yield returns, the USB is scanned, and the user
   picks a device until it is not the source, or cancels. *)
ScanForDevices ==
    /\ dlg = "open" /\ gui = "yield" /\ gui' = "choose"
    /\ UNCHANGED <<dlg, enabled, events, abort, running, created, mode, dest, typed,
                   thread, wait, devices, pipeline, history>>
ChooseDevice(d) ==
    /\ gui = "choose"
    /\ IF d = "none" THEN abort' = TRUE /\ gui' = "signal" /\ UNCHANGED dest
       ELSE /\ dest' = d /\ UNCHANGED abort
            /\ gui' = IF d = "source" THEN "choose" ELSE "signal"
    /\ UNCHANGED <<dlg, enabled, events, running, created, mode, typed, thread, wait,
                   devices, pipeline, history>>

OnPromptPassword(pw) ==
    /\ Takes("PROMPT_PASSWORD") /\ typed' = pw /\ gui' = "signal"
    /\ UNCHANGED <<dlg, enabled, abort, dest>>

OnErrorMsg ==
    /\ Takes("ERROR_MSG") /\ gui' = "signal"
    /\ UNCHANGED <<dlg, enabled, abort, dest, typed>>

(* Mutant: Signal does not need the mutex, and wakes whoever waits by now. *)
Signal_lost ==
    /\ gui = "signal"
    /\ gui' = "loop" /\ wait' = IF wait = "waiting" THEN "woken" ELSE wait
    /\ UNCHANGED <<dlg, enabled, events, abort, running, created, mode, dest, typed, thread,
                   devices, pipeline, history>>

(* EasyCondition::Signal gets the mutex when the thread waits. *)
Signal ==
    /\ gui = "signal" /\ wait = "waiting"
    /\ gui' = "loop" /\ wait' = "woken"
    /\ UNCHANGED <<dlg, enabled, events, abort, running, created, mode, dest, typed, thread,
                   devices, pipeline, history>>

-----------------------------------------------------------------------------
(* The thread.  Once the dialog has ended its object is gone, and what the
   thread does with it is not defined. *)
At(pc) == dlg = "open" /\ thread = pc

Keeps == UNCHANGED <<dlg, enabled, gui, created, mode, typed, source>>

(* SendEvent or SendErrorMsgEvent or PasswordPrompt, before the Wait. *)
Ask(kind) ==
    /\ thread' = kind /\ wait' = "sent" /\ events' = Append(events, EventOf[kind])

(* An exception other than ReturnCodeError reaches MigrateThread. *)
Fails == /\ Ask("askError") /\ result' = "error"

MigrateThread ==
    /\ At("start") /\ running' = TRUE
    /\ thread' = "connect" /\ stage' = "backup"
    /\ conn' = Reconnect(NewConnector(NoPassword), 2)
    /\ Keeps /\ UNCHANGED <<events, abort, dest, wait, lock, target, builder, archive, rd,
                            parser, history>>

(* The device a connection is made to. *)
Peer == IF stage = "backup" THEN "source" ELSE dest

(* connect.Reconnect(2) in BackupSource and RestoreToDest, one attempt at a
   time.  On success the objects of the function are set up. *)
ConnectTurn ==
    /\ At("connect")
    /\ \E timeout \in {0, 1} : \E r \in IF timeout = 0 THEN {Attempt(conn, lock[Peer])}
                                      ELSE TimedOut(conn, lock[Peer]) :
        /\ faults + timeout <= MaxFaults /\ faults' = faults + timeout
        /\ conn' = r.obj /\ lock' = [lock EXCEPT ![Peer] = r.dev]
        /\ \/ /\ r.ret = "true"
              /\ thread' = IF stage = "backup" THEN "backup" ELSE "look"
              /\ IF stage = "backup"
                 THEN /\ builder' = NewBuilder(DbList) /\ archive' = Empty
                      /\ UNCHANGED <<rd, parser, before>>
                 ELSE /\ rd' = New /\ parser' = NewParser(mode) /\ before' = target
                      /\ UNCHANGED <<builder, archive>>
              /\ UNCHANGED <<events, wait, result>>
           \/ /\ r.ret = "prompt" /\ Ask("askPassword")
              /\ UNCHANGED <<builder, archive, rd, parser, before, result>>
           \/ /\ r.ret = "again"
              /\ UNCHANGED <<thread, events, wait, builder, archive, rd, parser, before, result>>
           \/ /\ r.ret = "throw" /\ Fails
              /\ UNCHANGED <<builder, archive, rd, parser, before>>
    /\ Keeps /\ UNCHANGED <<abort, running, dest, stage, target, refused, rounds>>

(* Wait begins: the mutex is free for Signal. *)
BeginWait ==
    /\ dlg = "open" /\ wait = "sent" /\ wait' = "waiting"
    /\ UNCHANGED <<dialog, thread, devices, pipeline, history>>

(* PasswordPrompt returns to the loop in Connect, or gives up. *)
PasswordAnswered ==
    /\ At("askPassword") /\ wait = "woken" /\ wait' = "no"
    /\ IF typed = NoPassword
       THEN abort' = TRUE /\ thread' = "ending" /\ result' = "aborted" /\ UNCHANGED conn
       ELSE conn' = Typed(conn, typed) /\ thread' = "connect" /\ UNCHANGED <<abort, result>>
    /\ Keeps /\ UNCHANGED <<events, running, dest, lock, target, pipeline, before, refused,
                            rounds, faults>>

(* The record that the builder delivered, as Backup::ParseRecord appends it. *)
Backup_ParseRecord(a, b) ==
    LET d == b.dbs[b.cur] IN
    [a EXCEPT !.entries = Append(@, [db |-> d, whole |-> TRUE,
                                     id |-> source[d][b.at].id, val |-> source[d][b.at].val])]

(* One PumpEntry of BackupSource.  The flag is tested after each record but
   the first of a database. *)
BackupRecord ==
    /\ At("backup") /\ ~BuilderEOF(builder)
    /\ \E b \in {FetchFromDevice(source, builder)} :
        /\ builder' = b
        /\ archive' = IF b.at # 0 THEN Backup_ParseRecord(archive, b) ELSE archive
        /\ IF b.at # 0 /\ builder.busy /\ abort
           THEN thread' = "ending" /\ result' = "aborted"
           ELSE UNCHANGED <<thread, result>>
    /\ Keeps /\ UNCHANGED <<events, abort, running, dest, wait, conn, lock, target, stage, rd,
                            parser, before, refused, rounds, faults>>

(* The end of BackupSource, and CheckDestPin unless aborted. *)
BackupDone ==
    /\ At("backup") /\ BuilderEOF(builder)
    /\ IF abort THEN thread' = "ending" /\ result' = "aborted" /\ UNCHANGED <<wait, events>>
       ELSE Ask("askPin") /\ UNCHANGED result
    /\ Keeps /\ UNCHANGED <<abort, running, dest, devices, pipeline, before, refused,
                            rounds, faults>>

PinAnswered ==
    /\ At("askPin") /\ wait = "woken" /\ wait' = "no"
    /\ IF abort THEN thread' = "ending" /\ result' = "aborted" /\ UNCHANGED <<conn, stage>>
       ELSE /\ thread' = "connect" /\ stage' = "restore" /\ UNCHANGED result
            /\ conn' = Reconnect(NewConnector(NoPassword), 2)
    /\ Keeps /\ UNCHANGED <<events, abort, running, dest, lock, target, builder, archive, rd,
                            parser, before, refused, rounds, faults>>

(* The filter of RestoreToDest: the names in the target's DBDB. *)
DestFilter == [All EXCEPT !.list = DOMAIN target]

(* The head of the loop in RestoreToDest. *)
LookAtNext ==
    /\ At("look")
    /\ IF EndOfFile(rd)
       THEN thread' = "ending" /\ result' = "ok" /\ UNCHANGED rd
       ELSE \E q \in {GetNextMeta(archive, DestFilter, rd)} :
            rd' = q /\ thread' = (IF HasMeta(q) THEN "pump" ELSE "look") /\ UNCHANGED result
    /\ Keeps /\ UNCHANGED <<events, abort, running, dest, wait, conn, lock, target, stage,
                            builder, archive, parser, before, refused, rounds, faults>>

(* The DeviceParser gets the record. *)
Pumped(k, refuse) ==
    ParseRecord(target, parser, archive.entries[k].db, archive.entries[k], refuse)
Idle == [dev |-> target, parser |-> parser, ret |-> "no record"]

(* One PumpEntry of RestoreToDest.  A refusal is caught inside the loop, and
   the rest of the database is skipped. *)
RestoreRecord(refuse) ==
    /\ At("pump")
    /\ faults + (IF refuse = "no" THEN 0 ELSE 1) <= MaxFaults
    /\ \E f \in {FetchRecord(archive, DestFilter, rd)} :
       \E w \in {IF f.ret = "true" THEN Pumped(f.rec.id, refuse) ELSE Idle} :
       \/ /\ f.ret = "false" /\ refuse = "no"
          /\ rd' = f.obj /\ thread' = "look"
          /\ UNCHANGED <<target, parser, refused, result, faults>>
       \/ /\ f.ret = "true" /\ w.ret = "ok" /\ refuse = "no"
          /\ rd' = f.obj /\ target' = w.dev /\ parser' = w.parser
          /\ IF abort THEN thread' = "ending" /\ result' = "aborted"
             ELSE UNCHANGED <<thread, result>>
          /\ UNCHANGED <<refused, faults>>
       \/ /\ f.ret = "true" /\ w.ret = "ReturnCodeError"
          /\ target' = w.dev /\ parser' = w.parser
          /\ rd' = SkipCurrentDB(archive, DestFilter, f.obj) /\ thread' = "look"
          /\ refused' = refused \cup {w.parser.db} /\ faults' = faults + 1
          /\ UNCHANGED result
    /\ Keeps /\ UNCHANGED <<events, abort, running, dest, wait, conn, lock, stage, builder,
                            archive, before, rounds>>

(* A USB error while one of the devices is read or written. *)
UsbError ==
    /\ dlg = "open" /\ thread \in {"backup", "pump"} /\ faults < MaxFaults
    /\ faults' = faults + 1 /\ Fails
    /\ Keeps /\ UNCHANGED <<abort, running, dest, devices, pipeline, before, refused,
                            rounds>>

ErrorAnswered ==
    /\ At("askError") /\ wait = "woken" /\ wait' = "no" /\ thread' = "ending"
    /\ UNCHANGED <<dialog, devices, pipeline, history>>

(* The end of MigrateThread: the flag first, then the event. *)
ThreadEnding ==
    /\ At("ending") /\ dest' = "none" /\ running' = FALSE /\ thread' = "finish"
    /\ Keeps /\ UNCHANGED <<events, abort, wait, conn, lock, target, pipeline, history>>
SendFinished ==
    /\ At("finish") /\ events' = Append(events, "THREAD_FINISHED") /\ thread' = "done"
    /\ Keeps /\ UNCHANGED <<abort, running, dest, wait, conn, lock, target, pipeline, history>>

-----------------------------------------------------------------------------
UserStep == DoSafeClose \/ \E m \in WriteModes, d \in {"none", "target"} : OnMigrateNow(m, d)

GuiStep ==
    \/ JoinReturns \/ OnThreadFinished \/ OnCheckDestPin \/ ScanForDevices
    \/ \E d \in {"none", "source", "target"} : ChooseDevice(d)
    \/ \E pw \in Passwords : OnPromptPassword(pw)
    \/ OnErrorMsg \/ Signal

ThreadStep ==
    \/ MigrateThread \/ ConnectTurn \/ BeginWait \/ PasswordAnswered \/ BackupRecord
    \/ BackupDone \/ PinAnswered \/ LookAtNext
    \/ \E refuse \in {"no", "clear", "write"} : RestoreRecord(refuse)
    \/ UsbError \/ ErrorAnswered \/ ThreadEnding \/ SendFinished

Next == UserStep \/ GuiStep \/ ThreadStep

(* The scheduler runs both threads, and a user answers the boxes that the
   handlers show, in the end with a choice that ends the loop. *)
Fairness ==
    /\ WF_vars(GuiStep) /\ WF_vars(ThreadStep)
    /\ SF_vars(ChooseDevice("target")) /\ SF_vars(ChooseDevice("none"))

Spec == Init /\ [][Next]_vars /\ Fairness

-----------------------------------------------------------------------------
Pairs(t) == {<<t[i].id, t[i].val>> : i \in DOMAIN t}
(* The how manieth record of its database the one at i is. *)
Rank(t, i) == Cardinality({j \in DOMAIN t : j <= i})

(* What a completed migration of one database comes to in each write mode.
   Adding with new ids gives no id twice, though the state table that
   MakeNewRecordId searches is not read again after the writes
   (r_recordstate.cc:105). *)
Migrated(m, old, new, src) ==
    CASE m = "ERASE_ALL_WRITE_ALL" ->
            /\ DOMAIN new = 1..Cardinality(DOMAIN src)
            /\ \A i \in DOMAIN src : /\ new[Rank(src, i)].id = src[i].id
                                     /\ new[Rank(src, i)].val = src[i].val
      [] m = "INDIVIDUAL_OVERWRITE" ->
            /\ \A i \in DOMAIN old : old[i].id \notin Ids(src) => new[i] = old[i]
            /\ Ids(new) = Ids(old) \cup Ids(src)
            /\ \A id \in Ids(src) : \E p \in Pairs(src) : p[1] = id /\ p \in Pairs(new)
      [] m = "ADD_BUT_NO_OVERWRITE" ->
            Pairs(new) = Pairs(old) \cup {p \in Pairs(src) : p[1] \notin Ids(old)}
      [] m = "ADD_WITH_NEW_ID" ->
            /\ Vals(new) = Vals(old) \cup Vals(src)
            /\ Cardinality(DOMAIN new) = Cardinality(DOMAIN old) + Cardinality(DOMAIN src)
            /\ \A i, j \in DOMAIN new :
                  i # j /\ new[i].id = new[j].id => {i, j} \subseteq DOMAIN old

(* A thread that ran to its end has moved every record of each database that
   the target has and did not refuse, as the write mode says, whatever was
   refused before and however often a migration was started and stopped
   earlier; a database with no records at the source is left alone, also when
   the mode is to erase (m_desktop.cc:663). *)
MigrationComplete ==
    result = "ok" /\ thread # "none" =>
        \A d \in DOMAIN target \ refused :
            IF d \notin DOMAIN source \/ Ids(source[d]) = {} THEN target[d] = before[d]
            ELSE Migrated(mode, before[d], target[d], source[d])

(* The two modes that add never change or remove a record of the target, at
   no step, refused or aborted or not (m_desktop.cc:738). *)
KeepsExisting ==
    [][(mode \in {"ADD_BUT_NO_OVERWRITE", "ADD_WITH_NEW_ID"}) =>
         \A d \in DOMAIN target : \A i \in DOMAIN target[d] :
             i \in DOMAIN target'[d] /\ target'[d][i] = target[d][i]]_vars

(* No mixture of prompts, timeouts and repeated connections sends a hash to a
   device that grants fewer than MinTries tries (socket.cc:512), so that at
   least MinTries - 1 are left for another program. *)
TriesLeft == \A s \in DOMAIN lock : lock[s].left >= MinTries - 1

(* "Do not exit the dialog until the thread is properly stopped"
   (MigrateDlg.cc:270): however the closes, the joins and the events of one
   migration after the other fall, the dialog never goes while the thread has
   a device in its hands, or a question open.  The comment is not true of the
   two gaps in which m_thread_running is not set though the thread is there:
   before its first statement (MigrateDlg.cc:542), and between the end of its
   work and its last event (MigrateDlg.cc:565). *)
WorkStopsFirst ==
    dlg = "ended" /\ thread \notin {"none", "done"} => thread \in {"start", "finish"}

(* The thread is waiting for the GUI thread, which waits for it. *)
Embraced == gui = "joinClose" /\ wait \in {"sent", "waiting"}

(* No answer is missed and no question is left: a thread that was created
   ends, though the handler that answers it may be done before the thread
   waits (EasyCondition::Signal blocks until it does), and the GUI thread's
   wait for it in pthread_join ends.  Excepted are the dialog that goes in one
   of the two gaps, and the user who closes it while a question is open: then
   each waits for the other, for good (MigrateDlg.cc:279). *)
ThreadEnds ==
    /\ (thread = "start") ~> \/ thread = "done" \/ Embraced
                             \/ dlg = "ended" /\ thread \in {"start", "finish"}
    /\ (gui \in {"joinClose", "joinFinish"}) ~> (gui = "loop" \/ Embraced)
=============================================================================
