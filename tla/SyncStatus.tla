----------------------------- MODULE SyncStatus -----------------------------
(***************************************************************************)
(* The sync dialog of Barry Desktop (SyncStatusDlg.cc, ConflictDlg.cc) and *)
(* the jails it starts, one device of its roster after the other.  The GUI *)
(* thread handles one event at a time: a poke or request of a connection,  *)
(* the end of a child, a click.  A box or dialog that is shown runs the    *)
(* event loop again inside the handler that shows it, so events of all     *)
(* kinds are handled while the handler waits; only clicks go to the box on *)
(* top.  A connection outlives its jail: what a jail wrote before its end  *)
(* is still read after it.                                                 *)
(*                                                                         *)
(* Run App, the details and the texts that are printed are left out.       *)
(***************************************************************************)
EXTENDS SyncJail, Integers

CONSTANTS Configured,   \* the devices that are configured
          Favour,       \* per device: DeviceExtras::m_favour_plugin_name, "" for none
          Rosters,      \* what may be selected for a sync: sequences of devices
          MaxDialogs,   \* bound: dialogs opened
          MaxClicks     \* bound: clicks on the buttons of the dialog

ASSUME SyncAssumption ==
    /\ OldEngine \subseteq Configured /\ Configured \subseteq Devices
    /\ Rosters \subseteq Seq(Devices) \ {<<>>}
    /\ MaxDialogs \in Nat /\ MaxClicks \in Nat

VARIABLES
    shown,      \* the dialog exists
    roster,     \* m_subset
    next,       \* m_next_device, an index of roster or Len(roster) + 1
    cur,        \* m_current_device
    killing,    \* m_killingjail
    buttons,    \* "running" or "close": SetRunning, SetClose
    boxes,      \* what is shown on top of the dialog, innermost last
    kill,       \* the KillApp under way: who called it
    conn,       \* per child: its ConflictConnection
    stamp,      \* per device: the child whose end set m_last_sync_time, or 0
    (* history *)
    stopped,    \* the user or a slow sync stopped the roster
    dialogs, clicks

dlgVars == <<shown, roster, next, cur, killing, buttons, boxes, kill, conn, stamp,
             stopped, dialogs, clicks>>
vars == <<execVars, jailVars, dlgVars>>

End == Len(roster) + 1
NotKilling == [by |-> "no", jail |-> 0, running |-> FALSE]
NoChange == [id |-> 0, plugin |-> ""]
Dialog == <<"dialog">>
KillBox == <<"kill">>
ConflictBox(p) == <<"conflict", p>>

(* AlwaysMemoryBlock, and ConflictConnection. *)
NewAlways(f) == [always |-> FALSE, plugin |-> "", last |-> "", favour |-> f]
NewConn(f) ==
    [asking |-> FALSE, seq |-> -1, offset |-> -1, expected |-> 0, supported |-> {},
     changes |-> <<>>, always |-> NewAlways(f)]

TypeOK ==
    /\ ExecTypeOK /\ JailTypeOK
    /\ shown \in BOOLEAN /\ killing \in BOOLEAN /\ stopped \in BOOLEAN
    /\ next \in 1..End /\ cur \in 1..End
    /\ buttons \in {"running", "close"}
    /\ \A i \in DOMAIN boxes : boxes[i] = KillBox \/ boxes[i] \in {ConflictBox(p) : p \in Pids}
    /\ DOMAIN conn = Pids
    /\ \A d \in Devices : stamp[d] \in Pids \cup {0}
    /\ ~shown => boxes = <<>> /\ kill = NotKilling

Init ==
    /\ ExecInit /\ JailInit
    /\ shown = FALSE /\ roster = <<>> /\ next = 1 /\ cur = 1
    /\ killing = FALSE /\ buttons = "close" /\ boxes = <<>> /\ kill = NotKilling
    /\ conn = <<>> /\ stamp = [d \in Devices |-> 0]
    /\ stopped = FALSE /\ dialogs = 0 /\ clicks = 0

Loop == shown /\ ~broken /\ kill = NotKilling      \* the event loop runs, at some depth
Top == IF boxes = <<>> THEN Dialog ELSE Last(boxes)

-----------------------------------------------------------------------------
(* The roster. *)

GetCurrentDevice == IF cur = End THEN {} ELSE {roster[cur]}

Skipped == <<proc, waiter, attached, callback, appPid, stray, broken, jailVars, conn>>

(* StartNextSync, at entry i of the roster r: unconfigured devices are      *)
(* skipped, and a jail is started for the next one if Run succeeds.         *)
StartNextSync(r, i) ==
    LET ready == {k \in i..Len(r) : r[k] \in Configured}
        k == IF ready = {} THEN Len(r) + 1 ELSE Min(ready)
    IN  /\ roster' = r /\ killing' = FALSE /\ cur' = k
        /\ \/ /\ next' = k /\ buttons' = "close"
              /\ UNCHANGED Skipped
           \/ /\ ready # {} /\ next' = k + 1 /\ buttons' = "running"
              /\ Run /\ JailStarted(r[k])
              /\ conn' = Append(conn, NewConn(""))

(* OnSyncNow of Mode_Sync.cc: a dialog for what is selected. *)
OnSyncNow ==
    /\ ~shown /\ ~broken /\ dialogs < MaxDialogs
    /\ shown' = TRUE /\ dialogs' = dialogs + 1 /\ stopped' = FALSE
    /\ \E r \in Rosters : StartNextSync(r, 1)
    /\ UNCHANGED <<pending, boxes, kill, stamp, clicks>>

OnSyncAgain ==
    /\ Loop /\ Top = Dialog /\ buttons = "close" /\ clicks < MaxClicks
    /\ clicks' = clicks + 1 /\ stopped' = FALSE
    /\ StartNextSync(roster, 1)
    /\ UNCHANGED <<pending, shown, boxes, kill, stamp, dialogs>>

(* UpdateLastSyncTime, for the child p that ended. *)
UpdateLastSyncTime(p) ==
    stamp' = [d \in Devices |-> IF d \in GetCurrentDevice \cap Configured THEN p ELSE stamp[d]]

OnExecTerminated ==
    /\ Loop /\ pending # <<>>
    /\ UpdateLastSyncTime(Head(pending))
    /\ pending' = Tail(pending)
    /\ StartNextSync(roster, next)
    /\ UNCHANGED <<shown, boxes, kill, stopped, dialogs, clicks>>

-----------------------------------------------------------------------------
(* The end of a sync, and of the dialog. *)

(* KillSync begins: KillApp asks whether the app is running. *)
KillSync(who) ==
    kill' = [by |-> who[1], jail |-> who[2], running |-> IsAppRunning]

(* What is left in the windows and connections of a dialog that is gone. *)
Disconnected ==
    /\ linked' = [p \in Pids |-> FALSE] /\ conn' = [p \in Pids |-> NewConn("")]
    /\ toStatus' = [p \in Pids |-> <<>>] /\ toConflict' = [p \in Pids |-> <<>>]
    /\ jail' = [p \in Pids |-> IF jail[p].pc = "wait" /\ jail[p].reply = NoReply
                               THEN [jail[p] EXCEPT !.reply = Null] ELSE jail[p]]

(* The answer of a request, if somebody is there to read it. *)
Replied(p, r, choice) ==
    jail' = IF linked[p] /\ Alive(p) THEN [jail EXCEPT ![p].reply = r, ![p].told = choice] ELSE jail

KillSyncJumps_keepsNext == cur' = End /\ UNCHANGED next
KillSyncJumps_keepsCurrent == next' = End /\ UNCHANGED cur

(* To the end of the roster. *)
KillSyncJumps == cur' = End /\ next' = End

(* The rest of KillSync, and of the OnRequest that called it. *)
KillSyncSignals ==
    /\ shown /\ kill # NotKilling /\ kill.by # "destroy"
    /\ IF kill.running THEN KillApp(killing) ELSE UNCHANGED <<proc, stray>>
    /\ killing' = TRUE /\ KillSyncJumps
    /\ kill' = NotKilling /\ stopped' = TRUE
    /\ IF kill.by = "conflict"
       THEN Replied(kill.jail, Null, Unanswered) ELSE UNCHANGED jail
    /\ UNCHANGED <<waiter, attached, callback, appPid, pending, broken, toStatus, toConflict, linked,
                   found, crashes, shown, roster, buttons, boxes, conn, stamp, dialogs, clicks>>

(* OnKillClose: a question if the app is running, else the dialog closes. *)
OnKillClose ==
    /\ Loop /\ Top = Dialog /\ clicks < MaxClicks
    /\ clicks' = clicks + 1
    /\ IF IsAppRunning
       THEN boxes' = Append(boxes, KillBox) /\ UNCHANGED kill
       ELSE KillSync(<<"destroy", 0>>) /\ UNCHANGED boxes
    /\ UNCHANGED <<execVars, jailVars, shown, roster, next, cur, killing, buttons, conn, stamp,
                   stopped, dialogs>>

(* The question of OnKillClose is answered. *)
KillAnswered ==
    /\ Loop /\ Top = KillBox
    /\ boxes' = Front(boxes)
    /\ KillSync(<<"user", 0>>) \/ UNCHANGED kill
    /\ UNCHANGED <<execVars, jailVars, shown, roster, next, cur, killing, buttons, conn, stamp,
                   stopped, dialogs, clicks>>

(* The dialog is closed by the window manager, whatever its buttons say.    *)
WindowClosed ==
    /\ Loop /\ Top = Dialog /\ clicks < MaxClicks
    /\ clicks' = clicks + 1
    /\ KillSync(<<"destroy", 0>>)
    /\ UNCHANGED <<execVars, jailVars, shown, roster, next, cur, killing, buttons, boxes, conn, stamp,
                   stopped, dialogs>>

(* KillApp in the destructor. *)
DestroyKills == IF kill.running THEN KillApp(FALSE) ELSE UNCHANGED <<proc, stray>>

(* The destructor of the dialog and those of its members. *)
Destroyed ==
    /\ shown /\ kill # NotKilling /\ kill.by = "destroy"
    /\ DestroyKills /\ ExecDestroyed /\ Disconnected
    /\ shown' = FALSE /\ kill' = NotKilling
    /\ UNCHANGED <<waiter, broken, found, crashes, roster, next, cur, killing, buttons, boxes, stamp,
                   stopped, dialogs, clicks>>

-----------------------------------------------------------------------------
(* The connections. *)

(* OnInit and OnAcceptConnection.  The address is the same for every        *)
(* dialog: a jail of one that was closed connects to the next one.          *)
Connect(p) ==
    /\ Alive(p) /\ jail[p].pc = "connect"
    /\ \/ /\ Loop
          /\ jail' = [jail EXCEPT ![p].pc = "sync"] /\ linked' = [linked EXCEPT ![p] = TRUE]
          /\ conn' = [conn EXCEPT ![p] = NewConn(IF GetCurrentDevice = {} THEN "" ELSE Favour[roster[cur]])]
       \/ /\ ~shown
          /\ jail' = [jail EXCEPT ![p].pc = "exit"]
          /\ UNCHANGED <<linked, conn>>
    /\ UNCHANGED <<execVars, toStatus, toConflict, found, crashes, shown, roster, next, cur, killing, buttons,
                   boxes, kill, stamp, stopped, dialogs, clicks>>

(* OnPoke of the StatusConnection, and OnSlowSync. *)
StatusOnPoke(p) ==
    /\ Loop /\ toStatus[p] # <<>>
    /\ toStatus' = [toStatus EXCEPT ![p] = Tail(@)]
    /\ KillSync(<<"slow", p>>)
    /\ UNCHANGED <<execVars, jail, toConflict, linked, found, crashes, shown, roster, next, cur, killing,
                   buttons, boxes, conn, stamp, stopped, dialogs, clicks>>

(* The state machine of the ConflictConnection. *)
PokeStart(c, m) ==
    IF m[3] < 2
    THEN [c EXCEPT !.changes = <<>>, !.seq = -1, !.offset = -1, !.expected = 0]
    ELSE [c EXCEPT !.changes = <<>>, !.seq = m[2], !.offset = 0, !.expected = m[3],
                   !.supported = m[4]]

PokeChange(c, m) ==
    IF m[2] = c.seq /\ m[3] = c.offset + 1
    THEN [c EXCEPT !.offset = m[3], !.changes = Append(@, m[4])]
    ELSE c

Poke(c, m) ==
    IF c.asking THEN c ELSE IF m[1] = "Start" THEN PokeStart(c, m) ELSE PokeChange(c, m)

(* OnPoke of the ConflictConnection. *)
ConflictOnPoke(p) ==
    /\ Loop /\ Len(toConflict[p]) > 1
    /\ conn' = [conn EXCEPT ![p] = Poke(@, Head(toConflict[p]))]
    /\ toConflict' = [toConflict EXCEPT ![p] = Tail(@)]
    /\ UNCHANGED <<execVars, jail, toStatus, linked, found, crashes, shown, roster, next, cur, killing, buttons,
                   boxes, kill, stamp, stopped, dialogs, clicks>>

-----------------------------------------------------------------------------
(* A conflict is answered. *)

(* The sequence is valid, and so is the set of changes. *)
ValidRequest(c) ==
    /\ c.seq # -1 /\ c.offset # -1 /\ c.expected >= 2
    /\ c.offset = c.expected /\ c.expected = Len(c.changes)

(* ConflictDlg::ShowModal: the command it finds without a question, as a    *)
(* set of at most one.                                                      *)
Remembered(c) ==
    LET a == c.always
        of(name) == {i \in DOMAIN c.changes : c.changes[i].plugin = name}
    IN  IF a.favour # "" /\ of(a.favour) # {}
        THEN {[by |-> "favour", cmd |-> "S", change |-> c.changes[Min(of(a.favour))]]}
        ELSE IF a.always /\ a.last = "S" /\ of(a.plugin) # {}
        THEN {[by |-> "always", cmd |-> "S", change |-> c.changes[Min(of(a.plugin))]]}
        ELSE IF a.always /\ a.last # "S"
        THEN {[by |-> "always", cmd |-> a.last, change |-> NoChange]}
        ELSE {}

Reply(c, f) == <<"reply", c.seq, f.cmd, f.change.id>>
Choice(f) == [by |-> f.by, what |-> IF f.cmd = "S" THEN <<"S", f.change.plugin>> ELSE <<f.cmd>>]

NullReply_none(p) == UNCHANGED jail

(* The early returns of OnRequest. *)
NullReply(p) == Replied(p, Null, Unanswered)

OnRequest(p) ==
    /\ Loop /\ Len(toConflict[p]) = 1
    /\ toConflict' = [toConflict EXCEPT ![p] = <<>>]
    /\ LET c == conn[p]
           known == Remembered(c)
       IN  \/ /\ ~ValidRequest(c)
              /\ NullReply(p)
              /\ UNCHANGED <<conn, boxes>>
           \/ /\ ValidRequest(c) /\ GetCurrentDevice = {}
              /\ conn' = [conn EXCEPT ![p].asking = TRUE]
              /\ NullReply(p)
              /\ UNCHANGED boxes
           \/ /\ ValidRequest(c) /\ GetCurrentDevice # {} /\ known # {}
              /\ \E f \in known : Replied(p, Reply(c, f), Choice(f))
              /\ conn' = [conn EXCEPT ![p].asking = FALSE]
              /\ UNCHANGED boxes
           \/ /\ ValidRequest(c) /\ GetCurrentDevice # {} /\ known = {}
              /\ conn' = [conn EXCEPT ![p].asking = TRUE]
              /\ boxes' = Append(boxes, ConflictBox(p))
              /\ UNCHANGED jail
    /\ UNCHANGED <<execVars, toStatus, linked, found, crashes, shown, roster, next, cur, killing, buttons,
                   kill, stamp, stopped, dialogs, clicks>>

(* What the buttons of a ConflictDlg offer. *)
Buttons(c) ==
    {[by |-> "user", cmd |-> "S", change |-> c.changes[i]] : i \in DOMAIN c.changes}
        \cup {[by |-> "user", cmd |-> x, change |-> NoChange] : x \in c.supported \ {"S"}}

(* The connection after a button: what is remembered, and that nobody is    *)
(* asked any more.                                                          *)
Asked(c, f, always) ==
    [c EXCEPT !.asking = FALSE, !.always.always = always, !.always.last = f.cmd,
              !.always.plugin = IF f.cmd = "S" THEN f.change.plugin ELSE @]

(* A button of the ConflictDlg on top, and the rest of OnRequest. *)
ConflictAnswered(p) ==
    /\ Loop /\ Top = ConflictBox(p)
    /\ boxes' = Front(boxes)
    /\ \E f \in Buttons(conn[p]), always \in BOOLEAN :
        /\ conn' = [conn EXCEPT ![p] = Asked(@, f, always)]
        /\ Replied(p, Reply(conn[p], f), Choice(f))
    /\ UNCHANGED <<execVars, toStatus, toConflict, linked, found, crashes, shown, roster, next, cur, killing,
                   buttons, kill, stamp, stopped, dialogs, clicks>>

KillButton == [by |-> "user", cmd |-> "", change |-> NoChange]

(* OnKillSyncButton, which is there when an abort is not supported. *)
ConflictKilled(p) ==
    /\ Loop /\ Top = ConflictBox(p) /\ "A" \notin conn[p].supported
    /\ boxes' = Front(boxes)
    /\ \E always \in BOOLEAN :
        conn' = [conn EXCEPT ![p] = Asked(@, KillButton, always)]
    /\ KillSync(<<"conflict", p>>)
    /\ UNCHANGED <<execVars, jailVars, shown, roster, next, cur, killing, buttons, stamp, stopped,
                   dialogs, clicks>>

-----------------------------------------------------------------------------
(* The specification. *)

AnswersBox == KillAnswered \/ \E p \in Pids : ConflictAnswered(p) \/ ConflictKilled(p)

ReadsConflict(p) == ConflictOnPoke(p) \/ OnRequest(p)

DialogStep ==
    \/ OnSyncNow \/ OnSyncAgain \/ OnExecTerminated
    \/ OnKillClose \/ WindowClosed \/ KillSyncSignals \/ Destroyed
    \/ AnswersBox
    \/ \E p \in Pids : Connect(p) \/ StatusOnPoke(p) \/ ReadsConflict(p)

JailStep(p) ==
    /\ EngineStatus(p) \/ HandleConflict(p) \/ Answered(p)
         \/ JailExits(p) \/ JailKilled(p) \/ JailCrashes(p)
    /\ UNCHANGED dlgVars

WaitThread(p) ==
    /\ ~broken
    /\ OnTerminate(p) \/ OnTerminateSignal(p)
    /\ UNCHANGED <<jailVars, dlgVars>>

Next == DialogStep \/ \E p \in Pids : JailStep(p) \/ WaitThread(p)

Spec == Init /\ [][Next]_vars

(* What happens without a new request: the wait threads and the event loop  *)
(* run, a jail that was signalled ends, one that has its answer goes on,    *)
(* and the user answers a modal box.                                        *)
Progress ==
    \/ OnExecTerminated \/ KillSyncSignals \/ Destroyed \/ AnswersBox
    \/ \E p \in Pids : \/ WaitThread(p) \/ ReadsConflict(p)
                       \/ JailKilled(p) /\ UNCHANGED dlgVars
                       \/ Answered(p) /\ UNCHANGED dlgVars

(* No step of Progress can be repeated for ever: each uses up a message, a  *)
(* box, an answer, or the life of a process.  So what Progress leads to is  *)
(* what holds where it comes to rest.                                       *)
AtRest == ~broken /\ ~ENABLED Progress

-----------------------------------------------------------------------------
(* Properties. *)

(* Once the roster was stopped, by the user, by a conflict or by a slow     *)
(* sync, no jail is started until the user asks for a sync again            *)
(* (SyncStatusDlg::KillSync, SyncStatusDlg.cc:469), whatever ends or        *)
(* arrives late in between.                                                 *)
RosterStopped == [][stopped /\ stopped' => Len(proc') = Len(proc)]_vars

(* The last sync time of a device is set by the end of that device's own    *)
(* jail, and not by that of a jail that was told to die (UpdateLastSyncTime, *)
(* SyncStatusDlg.cc:451).                                                   *)
StampedOwnRun ==
    \A d \in Devices : stamp[d] # 0 =>
        LET p == stamp[d] IN jail[p].dev = d /\ ~Alive(p) /\ proc[p].sig = "none"

HasReply(p) == Alive(p) /\ jail[p].pc = "wait" /\ jail[p].reply # NoReply

(* What is done to a conflict is what the user, or the favoured plugin,     *)
(* chose: the change of that plugin, or that command (OnRequest,            *)
(* HandleConflict of bsyncjail.cc:177).  A conflict is left unresolved only *)
(* if it has fewer than two changes that are known, if the jail was told to *)
(* die or lost its dialog, or if a remembered command is not one that this  *)
(* conflict supports.  This is said of a jail whose dialog is still there:  *)
(* one that outlived it and connects to the next dialog may be answered     *)
(* with the number of an earlier conflict, which it refuses.                *)
MayStayUnresolved(p) ==
    \/ Len(AppendChanges(jail[p].conflict)) < 2
    \/ proc[p].sig # "none" \/ ~linked[p]
    \/ jail[p].told.by = "always"
       /\ jail[p].told.what[1] \notin Supported(jail[p].dev, jail[p].conflict)
ResolvedAsAnswered ==
    \A p \in Pids : HasReply(p) /\ attached[p] =>
        /\ jail[p].told.by \in {"user", "favour"} => Resolve(p) = jail[p].told.what
        /\ Resolve(p)[1] \in {"lost", "refused"} => MayStayUnresolved(p)

(* Nothing hangs.  A sync that was stopped comes to its end in the dialog,  *)
(* which offers to close: the stop does not come to rest with the dialog    *)
(* waiting for the end of a jail (OnKillClose, SyncStatusDlg.cc:598;        *)
(* OnExecTerminated).  And a jail that waits for an answer gets one, or     *)
(* loses its dialog, or ends (OnRequest, SyncStatusDlg.cc:180).             *)
NothingHangs ==
    AtRest => /\ ~(shown /\ killing /\ buttons = "running")
              /\ ~\E p \in Pids : Alive(p) /\ jail[p].pc = "wait"
=============================================================================
