----------------------------- MODULE BackupGui -----------------------------
(***************************************************************************)
(* The backup program (gui/src): BackupWindow and its Thread objects on    *)
(* the GUI thread, and the worker that a DeviceInterface starts for each   *)
(* backup or restore.  A worker talks to the GUI thread by dispatchers,    *)
(* whose signals go through one pipe and are handled later, in order; the  *)
(* GUI thread works on the device objects that the worker uses.            *)
(*                                                                         *)
(* A handler that shows a box is one step: the boxes are modal, and the    *)
(* signals handled meanwhile touch nothing the handler has read.  Signals  *)
(* that only log (erase_db, restored_db) are left out.                     *)
(***************************************************************************)
EXTENDS Desktop, Restore

CONSTANTS Devices,    \* the devices that the probe finds
          None,       \* no device
          First,      \* the one that is selected after a scan
          DbList,     \* the databases selected in the configuration, in order
          Contents,   \* what a device may hold: a function from names to databases
          Claims,     \* how many records more than it has its DBDB may claim
          Archives,   \* the files a user may restore
          MaxOps,     \* bound: backups and restores started
          MaxScans,   \* bound: scans for devices
          MaxFaults   \* bound: USB errors and refused commands

ASSUME BackupGuiAssumption ==
    /\ First \in Devices /\ None \notin Devices
    /\ MaxOps \in Nat /\ MaxScans \in Nat /\ MaxFaults \in Nat /\ Claims \subseteq Nat

(* The configuration names a database once, and a record has a place in its
   database's state table. *)
ASSUME DatabasesAssumption ==
    /\ DbList = [k \in 1..Len(DbList) |-> DbList[k]] /\ Len(DbList) \in Nat
    /\ \A j, k \in 1..Len(DbList) : DbList[j] = DbList[k] => j = k
    /\ \A c \in Contents : \A n \in DOMAIN c : DOMAIN c[n] \subseteq Nat \ {0}

(* Backup writes one database after the other: what is between two records of
   a database, and is a record, is one of that database too. *)
ASSUME ArchivesAssumption ==
    \A a \in Archives :
        /\ Len(a.entries) \in Nat /\ a.torn \in BOOLEAN
        /\ \A i, j, k \in 1..Len(a.entries) :
            /\ i < j /\ j < k
            /\ \A x \in {i, j, k} : SplitTarPath(a.entries[x])
            /\ a.entries[i].db = a.entries[k].db
            => a.entries[j].db = a.entries[i].db

VARIABLES
  active,     \* BackupWindow::m_pActive
  th,         \* the Thread objects
  ifc,        \* the DeviceInterface objects
  worker,     \* the thread that works for a device: where it is
  tail,       \* the last instructions of a worker that has signalled its end
  pipe,       \* signals emitted and not handled
  data,       \* the databases of the devices
  out,        \* the archive a backup writes
  crashed,    \* the program is gone: it used a null or deleted object, or an
              \* exception ended it
  (* history *)
  confirmed,  \* the devices whose objects the user gave up though they were in use
  errors,     \* databases that a worker reported an error for; None for a whole run
  file,       \* the archive that a restore reads
  ops, scans, faults

vars == <<active, th, ifc, worker, tail, pipe, data, out, crashed,
          confirmed, errors, file, ops, scans, faults>>
history == <<confirmed, errors, file, ops, scans, faults>>
devices == <<data, out>>

Idle == [pc |-> "none", builder |-> NewBuilder(<<>>), rd |-> New, db |-> NoName]

(* Thread: m_active and m_finished_marker are not initialized. *)
NewThread(a, m) ==
    [connected |-> FALSE, active |-> a, marker |-> m, op |-> "none", working |-> FALSE,
     finished |-> 0, total |-> 0]
NewInterface == [desktop |-> FALSE, comm |-> "invalid"]

TypeOK ==
    /\ active \in Devices \cup {None}
    /\ \A d \in Devices :
        /\ {th[d].connected, th[d].active, th[d].marker, th[d].working} \subseteq BOOLEAN
        /\ th[d].op \in {"none", "BACKUP", "RESTORE"}
        /\ th[d].finished \in Nat /\ th[d].total \in Nat
        /\ ifc[d].desktop \in BOOLEAN /\ ifc[d].comm \in {"valid", "partly", "invalid"}
        /\ worker[d].pc \in {"none", "backup", "look", "clear", "save"}
        /\ tail[d] \in {"none", "invalidate", "partly"}
    /\ confirmed \subseteq Devices
    /\ crashed \in BOOLEAN

Init ==
    /\ active = None
    /\ th = [d \in Devices |-> NewThread(FALSE, FALSE)]
    /\ ifc = [d \in Devices |-> NewInterface]
    /\ worker = [d \in Devices |-> Idle] /\ tail = [d \in Devices |-> "none"]
    /\ pipe = <<>> /\ crashed = FALSE
    /\ data \in [Devices -> Contents]
    /\ out = [d \in Devices |-> <<>>]
    /\ confirmed = {} /\ errors = [d \in Devices |-> {}]
    /\ file = [d \in Devices |-> <<>>]
    /\ ops = 0 /\ scans = 0 /\ faults = 0

(* m_update->emit(); two updates in a row do what one does. *)
Update == <<None, "update">>
Shown(p) == IF p # <<>> /\ p[Len(p)] = Update THEN p ELSE Append(p, Update)

-----------------------------------------------------------------------------
(* The GUI thread.  A device operation that can block is over before the next
   signal or click is handled. *)

(* Thread::Disconnect. *)
Disconnected(t) == [t EXCEPT !.connected = FALSE]
Closed(i) == [i EXCEPT !.desktop = FALSE]

(* Mutant: a device that is no longer selected is always disconnected. *)
UnsetActive_always(t) == Disconnected([t EXCEPT !.active = FALSE])

(* Thread::UnsetActive. *)
UnsetActive(t) ==
    IF t.working THEN [t EXCEPT !.active = FALSE]
    ELSE Disconnected([t EXCEPT !.active = FALSE])

(* BackupWindow::Connect on a thread that is not connected, with its prompts
   and its tries after BadSize.  A rejected password ends the call like a low
   level error and leaves the half-open Desktop object, as cancelling does. *)
ConnectResults ==
    {[ok |-> TRUE, desktop |-> TRUE], [ok |-> FALSE, desktop |-> TRUE],
     [ok |-> FALSE, desktop |-> FALSE]}

(* Connect(thread) within a handler. *)
Connects(t) ==
    IF t.connected THEN {[ok |-> TRUE, desktop |-> TRUE]}
    ELSE ConnectResults

(* on_device_change, when the user selects s, or nothing. *)
OnDeviceChange(s) ==
    /\ ~crashed /\ scans > 0 /\ s # active
    /\ active' = s
    /\ LET left == IF active = None THEN th ELSE [th EXCEPT ![active] = UnsetActive(@)]
           closed == [d \in Devices |->
                         IF th[d].connected /\ ~left[d].connected THEN Closed(ifc[d]) ELSE ifc[d]]
       IN IF s = None
          THEN th' = left /\ ifc' = closed
          ELSE \E r \in Connects(left[s]) :
                /\ th' = [left EXCEPT ![s].connected = r.ok,
                                      ![s].active = IF r.ok THEN TRUE ELSE @]
                /\ ifc' = [closed EXCEPT ![s].desktop = r.desktop]
    /\ pipe' = IF \E d \in Devices : th'[d].connected # th[d].connected
               THEN Shown(pipe) ELSE pipe
    /\ UNCHANGED <<worker, tail, devices, crashed, history>>

(* Mutant: the count goes on from the last operation. *)
Begun_counting(t, op, total) == [t EXCEPT !.total = total, !.op = op, !.working = TRUE]

(* Thread::Backup or Thread::Restore, when the thread has started. *)
Begun(t, op, total) ==
    [t EXCEPT !.total = total, !.finished = 0, !.op = op, !.working = TRUE]

(* What on_backup and on_restore have in common: the selected device is
   connected and not working, and StartBackup or StartRestore finds that no
   thread is running.  The totals are set before that is known. *)
Starts(d, op, total, a) ==
    /\ ~crashed /\ d = active /\ ops < MaxOps /\ ops' = ops + 1
    /\ \E r \in Connects(th[d]) :
        LET t == [th[d] EXCEPT !.connected = r.ok]
            free == r.ok /\ ~t.working
            started == free /\ ifc[d].comm # "valid"
        IN /\ th' = [th EXCEPT ![d] =
                        IF started THEN Begun(t, op, total)
                        ELSE IF free THEN [t EXCEPT !.total = total, !.finished = 0] ELSE t]
           /\ ifc' = [ifc EXCEPT ![d].desktop = r.desktop,
                                 ![d].comm = IF started THEN "valid" ELSE @]
           /\ pipe' = IF started \/ r.ok # th[d].connected THEN Shown(pipe) ELSE pipe
           /\ IF started
              THEN /\ worker' = [worker EXCEPT ![d] =
                        IF op = "BACKUP"
                        THEN [Idle EXCEPT !.pc = "backup", !.builder = NewBuilder(DbList)]
                        ELSE [Idle EXCEPT !.pc = "look"]]
                   /\ out' = [out EXCEPT ![d] = <<>>]
                   /\ errors' = [errors EXCEPT ![d] = {}] /\ file' = [file EXCEPT ![d] = a]
              ELSE UNCHANGED <<worker, out, errors, file>>
    /\ UNCHANGED <<active, tail, data, crashed, confirmed, scans, faults>>

(* The records of the selected databases: the name of the database and the
   index in its table. *)
Listed == {DbList[k] : k \in DOMAIN DbList}
HeldRecords(d) == UNION {{n} \X DOMAIN data[d][n] : n \in Listed \cap DOMAIN data[d]}
Held(d) == Cardinality(HeldRecords(d))

OnBackup(d, claim) == Starts(d, "BACKUP", Held(d) + claim, <<>>)

RestoreFilter == [list |-> Listed, skip |-> {}, all |-> FALSE]
(* GetRecordTotal reads the file to its end. *)
CountThrows(a) == a.torn
(* The file is read for the count, and opened again for the worker: b is what
   is in it then. *)
OnRestore(d, a, b) ==
    ~CountThrows(a) /\ Starts(d, "RESTORE", GetRecordTotal(a, RestoreFilter), b)

(* The RestoreError that GetRecordTotal throws is caught neither in
   Thread::Restore nor in on_restore: signal_exception_handler hides the
   window, and the program ends. *)
RestoreThrows(d, a) ==
    /\ ~crashed /\ d = active /\ ops < MaxOps /\ ops' = ops + 1
    /\ ~th[d].working /\ CountThrows(a)
    /\ \E r \in Connects(th[d]) : r.ok
    /\ crashed' = TRUE
    /\ UNCHANGED <<active, th, ifc, worker, tail, pipe, devices, confirmed, errors,
                   file, scans, faults>>

(* on_disconnect and on_disconnect_all: BackupWindow::Disconnect.  A device
   that works is only disconnected when the user insists. *)
OnDisconnect(d) ==
    /\ ~crashed /\ th[d].connected
    /\ th' = [th EXCEPT ![d] = Disconnected(@)] /\ ifc' = [ifc EXCEPT ![d] = Closed(@)]
    /\ confirmed' = IF th[d].working THEN confirmed \cup {d} ELSE confirmed
    /\ pipe' = Shown(pipe)
    /\ UNCHANGED <<active, worker, tail, devices, crashed, errors, file, ops,
                   scans, faults>>

(* on_config connects, and saves what the user changes. *)
OnConfig(d) ==
    /\ ~crashed /\ d = active
    /\ \E r \in Connects(th[d]) :
        /\ th' = [th EXCEPT ![d].connected = r.ok]
        /\ ifc' = [ifc EXCEPT ![d].desktop = r.desktop]
        /\ pipe' = IF r.ok # th[d].connected THEN Shown(pipe) ELSE pipe
    /\ UNCHANGED <<active, worker, tail, devices, crashed, history>>

Alive(d) == worker[d].pc # "none" \/ tail[d] # "none"

(* on_startup, and on_reload with CheckWorking: Scan destroys the Thread
   objects with their DeviceInterface and their signals, and selects the first
   device.  A worker that is alive uses a deleted object. *)
Scan ==
    /\ ~crashed /\ scans < MaxScans /\ scans' = scans + 1
    /\ confirmed' = confirmed \cup {d \in Devices : th[d].working}
    /\ crashed' = \E d \in Devices : Alive(d)
    /\ \E a, m \in BOOLEAN, r \in ConnectResults :
        /\ th' = [d \in Devices |->
                    IF d = First THEN [NewThread(a \/ r.ok, m) EXCEPT !.connected = r.ok]
                    ELSE NewThread(a, m)]
        /\ ifc' = [d \in Devices |-> IF d = First THEN [NewInterface EXCEPT !.desktop = r.desktop]
                                     ELSE NewInterface]
    /\ active' = First /\ pipe' = <<Update>>
    /\ UNCHANGED <<worker, tail, devices, errors, file, ops, faults>>

-----------------------------------------------------------------------------
(* The signal handlers. *)

Takes(s) == ~crashed /\ pipe # <<>> /\ Head(pipe)[2] = s
Sender == Head(pipe)[1]

OnThreadProgress ==
    /\ Takes("progress")
    /\ th' = [th EXCEPT ![Sender].finished = @ + 1]
    /\ pipe' = Shown(Tail(pipe))
    /\ UNCHANGED <<active, ifc, worker, tail, devices, crashed, history>>

OnThreadError ==
    /\ Takes("error") /\ pipe' = Tail(pipe)
    /\ UNCHANGED <<active, th, ifc, worker, tail, devices, crashed, history>>

(* Mutant: the status that the list shows is not set. *)
OnThreadDone_silent ==
    /\ Takes("done")
    /\ th' = [th EXCEPT ![Sender].working = FALSE, ![Sender].marker = TRUE]
    /\ pipe' = Tail(pipe)
    /\ UNCHANGED <<active, ifc, worker, tail, devices, crashed, history>>

(* on_thread_done: a device that is no longer selected is disconnected. *)
OnThreadDone ==
    /\ Takes("done")
    /\ LET t == [th[Sender] EXCEPT !.working = FALSE, !.marker = TRUE]
           leaves == ~t.active /\ t.connected
       IN /\ th' = [th EXCEPT ![Sender] = IF leaves THEN Disconnected(t) ELSE t]
          /\ ifc' = [ifc EXCEPT ![Sender] = IF leaves THEN Closed(@) ELSE @]
          /\ pipe' = IF t.active \/ leaves THEN Shown(Tail(pipe)) ELSE Tail(pipe)
    /\ UNCHANGED <<active, worker, tail, devices, crashed, history>>

(* A backup whose numbers differ is reported with a comparison, for which the
   Desktop object's DBDB is read. *)
Compares(t) == t.marker /\ t.op = "BACKUP" /\ t.finished # t.total

(* treeview_update goes through all devices. *)
TreeviewUpdate ==
    /\ Takes("update") /\ pipe' = Tail(pipe)
    /\ crashed' = \E d \in Devices : Compares(th[d]) /\ ~ifc[d].desktop
    /\ th' = [d \in Devices |-> [th[d] EXCEPT !.marker = FALSE]]
    /\ UNCHANGED <<active, ifc, worker, tail, devices, history>>

-----------------------------------------------------------------------------
(* The worker of device d. *)

At(d, pc) == ~crashed /\ worker[d].pc = pc

(* Every signal goes through m_AppComm. *)
Signals(d, ss) ==
    IF ifc[d].comm = "valid"
    THEN pipe' = pipe \o [k \in DOMAIN ss |-> <<d, ss[k]>>] /\ UNCHANGED crashed
    ELSE crashed' = TRUE /\ UNCHANGED pipe

(* The end of BackupThread and RestoreThread. *)
Ends(d, failed) ==
    /\ worker' = [worker EXCEPT ![d] = Idle] /\ tail' = [tail EXCEPT ![d] = "invalidate"]
    /\ errors' = IF failed THEN [errors EXCEPT ![d] = @ \cup {None}] ELSE errors
    /\ Signals(d, IF failed THEN <<"error", "done">> ELSE <<"done">>)

WorkerKeeps == UNCHANGED <<active, th, ifc, confirmed, file, ops, scans>>

(* The name of the database the builder is at, or comes to. *)
Upcoming(b) == IF ~b.busy /\ b.started THEN b.cur + 1 ELSE b.cur

(* DeviceInterface::ParseRecord: the record goes into the archive. *)
ParseRead(d, rec) ==
    /\ out' = [out EXCEPT ![d] = Append(@, rec)]
    /\ Signals(d, <<"progress">>)

(* BackupThread: the next record of LoadDatabase, the next database, or the
   end.  GetDBID throws for a database that the device does not have. *)
BackupThread(d) ==
    LET b == worker[d].builder IN
    /\ At(d, "backup")
    /\ IF ~ifc[d].desktop
       THEN crashed' = TRUE /\ UNCHANGED <<worker, tail, pipe, out, errors>>
       ELSE IF Upcoming(b) > Len(DbList)
       THEN Ends(d, FALSE) /\ UNCHANGED out
       ELSE IF DbList[Upcoming(b)] \notin DOMAIN data[d]
       THEN Ends(d, TRUE) /\ UNCHANGED out
       ELSE \E n \in {FetchFromDevice(data[d], b)} :
            /\ worker' = [worker EXCEPT ![d].builder = n]
            /\ IF n.at = 0 THEN UNCHANGED <<out, pipe, crashed>>
               ELSE ParseRead(d, <<DbList[n.cur], n.at>>)
            /\ UNCHANGED <<tail, errors>>
    /\ WorkerKeeps /\ UNCHANGED <<data, faults>>

(* An exception in BackupThread ends it. *)
BackupFails(d) ==
    /\ At(d, "backup") /\ faults < MaxFaults /\ faults' = faults + 1
    /\ Ends(d, TRUE)
    /\ WorkerKeeps /\ UNCHANGED <<data, out>>

(* Barry::Error in RestoreThread: the rest of the database is skipped. *)
SkipsDB(d, rd) ==
    /\ errors' = [errors EXCEPT ![d] = @ \cup {worker[d].db}]
    /\ worker' = [worker EXCEPT ![d].pc = "look",
                                ![d].rd = SkipCurrentDB(file[d], RestoreFilter, rd)]
    /\ Signals(d, <<"error">>)

(* The head of the loop in RestoreThread. *)
RestoreLook(d) ==
    /\ At(d, "look")
    /\ IF EndOfFile(worker[d].rd)
       THEN Ends(d, FALSE)
       ELSE \E q \in {GetNextMeta(file[d], RestoreFilter, worker[d].rd)} :
            IF Throws(worker[d].rd, q) THEN Ends(d, TRUE)
            ELSE /\ worker' = [worker EXCEPT ![d].rd = q, ![d].db = q.db,
                                             ![d].pc = IF HasMeta(q) THEN "clear" ELSE "look"]
                 /\ UNCHANGED <<tail, pipe, errors, crashed>>
    /\ WorkerKeeps /\ UNCHANGED <<data, out, faults>>

(* GetDBID, and SaveDatabase up to its ClearDatabase. *)
RestoreClear(d, refuse) ==
    LET n == worker[d].db IN
    /\ At(d, "clear")
    /\ faults + (IF refuse THEN 1 ELSE 0) <= MaxFaults
    /\ faults' = faults + IF refuse THEN 1 ELSE 0
    /\ IF ~ifc[d].desktop
       THEN crashed' = TRUE /\ UNCHANGED <<worker, pipe, data, errors>>
       ELSE IF refuse \/ n \notin DOMAIN data[d]
       THEN SkipsDB(d, worker[d].rd) /\ UNCHANGED data
       ELSE /\ data' = [data EXCEPT ![d][n] = ClearDatabase(@)]
            /\ worker' = [worker EXCEPT ![d].pc = "save"]
            /\ UNCHANGED <<pipe, errors, crashed>>
    /\ WorkerKeeps /\ UNCHANGED <<tail, out>>

(* The loop of SaveDatabase, with DeviceInterface::BuildRecord as its builder:
   the record is counted when it is read, before the device has taken it. *)
RestoreSave(d, refuse) ==
    LET n == worker[d].db IN
    /\ At(d, "save")
    /\ faults + (IF refuse THEN 1 ELSE 0) <= MaxFaults
    /\ faults' = faults + IF refuse THEN 1 ELSE 0
    /\ \E f \in {BuildRecord(file[d], RestoreFilter, worker[d].rd)} :
        IF ~ifc[d].desktop
        THEN crashed' = TRUE /\ UNCHANGED <<worker, tail, pipe, data, errors>>
        ELSE \/ /\ f.ret = "true" /\ ~refuse
                /\ data' = [data EXCEPT ![d][n] = AddRecord(@, f.rec.id, f.rec.data)]
                /\ worker' = [worker EXCEPT ![d].rd = f.obj]
                /\ Signals(d, <<"progress">>) /\ UNCHANGED <<errors, tail>>
             \/ /\ f.ret = "true" /\ refuse
                /\ errors' = [errors EXCEPT ![d] = @ \cup {n}]
                /\ worker' = [worker EXCEPT ![d].pc = "look",
                                  ![d].rd = SkipCurrentDB(file[d], RestoreFilter, f.obj)]
                /\ Signals(d, <<"progress", "error">>) /\ UNCHANGED <<data, tail>>
             \/ /\ f.ret = "false" /\ ~refuse
                /\ worker' = [worker EXCEPT ![d].pc = "look", ![d].rd = f.obj]
                /\ UNCHANGED <<tail, pipe, data, errors, crashed>>
             \/ f.ret = "TarError" /\ ~refuse /\ Ends(d, TRUE) /\ UNCHANGED data
    /\ WorkerKeeps /\ UNCHANGED out

(* AppComm::Invalidate after the last signal: m_done first, the others after
   it.  In between IsValid is false already. *)
Invalidate(d) ==
    /\ ~crashed /\ tail[d] # "none"
    /\ tail' = [tail EXCEPT ![d] = IF @ = "invalidate" THEN "partly" ELSE "none"]
    /\ ifc' = [ifc EXCEPT ![d].comm =
                  IF tail[d] = "partly" /\ @ = "partly" THEN "invalid" ELSE "partly"]
    /\ UNCHANGED <<active, th, worker, pipe, devices, crashed, history>>

-----------------------------------------------------------------------------
UserStep ==
    \/ \E s \in Devices \cup {None} : OnDeviceChange(s)
    \/ \E d \in Devices : \/ OnDisconnect(d) \/ OnConfig(d)
                          \/ \E c \in Claims : OnBackup(d, c)
                          \/ \E a, b \in Archives : OnRestore(d, a, b)
                          \/ \E a \in Archives : RestoreThrows(d, a)
    \/ Scan

SignalStep == OnThreadProgress \/ OnThreadError \/ OnThreadDone \/ TreeviewUpdate

WorkerStep(d) ==
    \/ BackupThread(d) \/ BackupFails(d) \/ RestoreLook(d) \/ Invalidate(d)
    \/ \E refuse \in BOOLEAN : RestoreClear(d, refuse) \/ RestoreSave(d, refuse)

Next == UserStep \/ SignalStep \/ \E d \in Devices : WorkerStep(d)

(* The main loop handles signals, and the scheduler runs the workers. *)
Fairness == WF_vars(SignalStep) /\ \A d \in Devices : WF_vars(WorkerStep(d))

Spec == Init /\ [][Next]_vars /\ Fairness

-----------------------------------------------------------------------------
Pending(d, s) == Cardinality({k \in DOMAIN pipe : pipe[k] = <<d, s>>})
Running(d) == worker[d].pc # "none" /\ d \notin confirmed /\ ~crashed

(* The Desktop object that a worker uses exists as long as it works, unless
   the user insisted on disconnecting: selecting another device, the end of
   another operation or a failed connection does not take it away
   (Thread.cc:147, DeviceIface.cc:250). *)
DesktopWhileWorking == \A d \in Devices : Running(d) => ifc[d].desktop

(* The progress shown and the progress still in the pipe are together the
   records of the archive that is being written: no count of an earlier run,
   which may have ended with an error, is in it (Thread.cc:210). *)
ProgressExact ==
    \A d \in Devices :
        Running(d) /\ worker[d].pc = "backup" =>
            th[d].finished + Pending(d, "progress") = Len(out[d])

(* A backup that ends without an error has each record of the selected
   databases, and has it once: one whose count is right has lost nothing
   (BackupWindow.cc:398). *)
Complete(d) ==
    /\ Len(out[d]) = Held(d) /\ {out[d][k] : k \in DOMAIN out[d]} = HeldRecords(d)
    /\ \A j, k \in DOMAIN out[d] : j # k => out[d][j] # out[d][k]
BackupWhole ==
    \A d \in Devices :
        th[d].op = "BACKUP" /\ ~th[d].working /\ d \notin confirmed /\ errors[d] = {}
        => Complete(d)

(* After a restore each database of the file that was selected is on the
   device as the file has it, or was reported (DeviceIface.cc:122). *)
InFile(d, n) == {k \in 1..Len(file[d].entries) : SplitTarPath(file[d].entries[k])
                                                /\ file[d].entries[k].db = n}
RestoredOrReported ==
    \A d \in Devices :
        th[d].op = "RESTORE" /\ worker[d].pc = "none" /\ ~crashed /\ None \notin errors[d]
        /\ d \notin confirmed =>
            \A n \in Listed \ errors[d] :
                InFile(d, n) # {} =>
                    n \in DOMAIN data[d] /\ Vals(data[d][n]) = InFile(d, n)

(* An operation that was started comes to its end for the GUI, and its end is
   reported, unless the program is gone or the device was given up. *)
EndReported ==
    \A d \in Devices :
        /\ th[d].working ~> (~th[d].working \/ crashed)
        /\ th[d].marker ~> (~th[d].marker \/ crashed \/ d \in confirmed)
=============================================================================
