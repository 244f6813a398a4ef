------------------------------ MODULE SyncJail ------------------------------
(***************************************************************************)
(* bsyncjail, the process in which OpenSync runs, with the callbacks of    *)
(* the two engines that lead to it (os22.cc, os40.cc).  It talks to the    *)
(* dialog over two connections, Status and Conflict; a Poke is written and *)
(* not waited for, a Request blocks until it is answered or the connection *)
(* is lost.  The engine itself is external: it finds conflicts, reports a  *)
(* slow sync and ends when it wants to.                                    *)
(*                                                                         *)
(* Of the status messages only the slow sync changes a state; the others   *)
(* are printed and left out.  The pokes of one conflict and its request    *)
(* are written in one step: nobody but the dialog sees them, in order.     *)
(***************************************************************************)
EXTENDS ExecHelper, SequencesExt

CONSTANTS Devices,
          OldEngine,    \* the devices that are configured for OpenSync 0.22
          Conflicts,    \* conflicts the engine may find: [map, ignore, newer]
          MaxConflicts, \* bound: conflicts found, of all syncs
          MaxCrashes    \* bound: jails that end where they should not

ASSUME JailAssumption ==
    /\ OldEngine \subseteq Devices
    /\ MaxConflicts \in Nat /\ MaxCrashes \in Nat
    /\ \A c \in Conflicts : /\ c.ignore \in BOOLEAN /\ c.newer \in BOOLEAN
                            /\ c.map \in Seq([known : BOOLEAN, plugin : STRING])

VARIABLES
    jail,       \* per child: what bsyncjail knows, and who chose its last answer (history)
    toStatus,   \* per child: pokes on the Status connection that were not read
    toConflict, \* per child: pokes and requests on the Conflict connection
    linked,     \* per child: its connections are up
    found,      \* counts the conflicts
    crashes     \* counts the jails that crashed

jailVars == <<jail, toStatus, toConflict, linked, found, crashes>>

NoConflict == [map |-> <<>>, ignore |-> FALSE, newer |-> FALSE]
NoReply == <<"none">>
Null == <<"null">>
Unanswered == [by |-> "nobody", what |-> NoReply]

NewJail(d) ==
    [dev |-> d, pc |-> "connect", seq |-> 0, conflict |-> NoConflict, reply |-> NoReply,
     told |-> Unanswered, slow |-> FALSE]

JailTypeOK ==
    /\ DOMAIN jail = Pids /\ DOMAIN toStatus = Pids
    /\ DOMAIN toConflict = Pids /\ DOMAIN linked = Pids
    /\ \A p \in Pids : /\ jail[p].dev \in Devices
                       /\ jail[p].pc \in {"connect", "sync", "wait", "exit"}
                       /\ jail[p].seq \in 0..MaxConflicts
                       /\ jail[p].conflict \in Conflicts \cup {NoConflict}
                       /\ linked[p] \in BOOLEAN
    /\ found \in 0..MaxConflicts /\ crashes \in 0..MaxCrashes

JailInit ==
    /\ jail = <<>> /\ toStatus = <<>> /\ toConflict = <<>> /\ linked = <<>>
    /\ found = 0 /\ crashes = 0

JailStarted(d) ==
    /\ jail' = Append(jail, NewJail(d))
    /\ toStatus' = Append(toStatus, <<>>) /\ toConflict' = Append(toConflict, <<>>)
    /\ linked' = Append(linked, FALSE)
    /\ UNCHANGED <<found, crashes>>

-----------------------------------------------------------------------------
(* What the engines support. *)

IsSlowSyncSupported(d) == d \notin OldEngine
IsAbortSupported(d) == d \notin OldEngine

Supported(d, c) ==
    {"S", "D"} \cup (IF IsAbortSupported(d) THEN {"A"} ELSE {})
               \cup (IF c.ignore THEN {"I"} ELSE {}) \cup (IF c.newer THEN {"N"} ELSE {})

AppendChanges_counted(c) ==
    LET known == SelectSeq(c.map, LAMBDA m : m.known)
    IN  [i \in DOMAIN known |-> [id |-> i - 1, plugin |-> known[i].plugin]]

(* The changes of a conflict that are known, with their place in the        *)
(* engine's own list, which is what Select takes.                           *)
Known(c) == {i \in DOMAIN c.map : c.map[i].known}
Place(c, k) == CHOOSE i \in Known(c) : Cardinality({j \in Known(c) : j <= i}) = k
AppendChanges(c) ==
    [k \in 1..Cardinality(Known(c)) |-> [id |-> Place(c, k) - 1, plugin |-> c.map[Place(c, k)].plugin]]

-----------------------------------------------------------------------------
(* A jail at work. *)

(* EngineStatus, for the event that says that the previous sync was unclean, *)
(* with an engine for which that matters.                                    *)
EngineStatus(p) ==
    /\ Alive(p) /\ jail[p].pc = "sync" /\ ~jail[p].slow /\ linked[p]
    /\ ~IsSlowSyncSupported(jail[p].dev)
    /\ jail' = [jail EXCEPT ![p].slow = TRUE]
    /\ toStatus' = [toStatus EXCEPT ![p] = Append(@, "SlowSync")]
    /\ UNCHANGED <<execVars, toConflict, linked, found, crashes>>

(* HandleConflict, up to the request. *)
HandleConflict(p) ==
    /\ Alive(p) /\ jail[p].pc = "sync" /\ found < MaxConflicts
    /\ found' = found + 1
    /\ \E c \in Conflicts :
        LET s == jail[p].seq + 1
            changes == AppendChanges(c)
            start == <<"Start", s, Len(changes), Supported(jail[p].dev, c)>>
            change == [i \in DOMAIN changes |-> <<"Change", s, i, changes[i]>>]
        IN  /\ jail' = [jail EXCEPT ![p].seq = s, ![p].conflict = c, ![p].pc = "wait",
                                    ![p].reply = IF linked[p] THEN NoReply ELSE Null]
            /\ toConflict' = IF linked[p]
                             THEN [toConflict EXCEPT ![p] = @ \o <<start>> \o change \o <<<<"Answer">>>>]
                             ELSE toConflict
    /\ UNCHANGED <<execVars, toStatus, linked, crashes>>

(* Select: the nth change of the engine's own list, here its plugin. *)
Selected(c, id) == c.map[id + 1].plugin

(* What the answer does to the conflict, or that it is left unresolved: the *)
(* exception is caught by conflict_handler and reported.                    *)
Resolve(p) ==
    LET j == jail[p]
        cmd == j.reply[3]
    IN  IF j.reply = Null
        THEN IF IsAbortSupported(j.dev) THEN <<"A">> ELSE <<"lost">>
        ELSE IF j.reply[2] # j.seq \/ cmd = "" \/ cmd \notin Supported(j.dev, j.conflict)
        THEN <<"refused", cmd>>
        ELSE IF cmd = "S"
        THEN <<"S", Selected(j.conflict, j.reply[4])>>
        ELSE <<cmd>>

(* HandleConflict, when Request returns: the conflict is resolved. *)
Answered(p) ==
    /\ Alive(p) /\ jail[p].pc = "wait" /\ jail[p].reply # NoReply
    /\ jail' = [jail EXCEPT ![p].pc = "sync", ![p].reply = NoReply, ![p].told = Unanswered,
                            ![p].conflict = NoConflict]
    /\ UNCHANGED <<execVars, toStatus, toConflict, linked, found, crashes>>

(* A process that ended has no state left but what it wrote before. *)
JailEnds(p) ==
    /\ Ends(p)
    /\ jail' = [jail EXCEPT ![p] = [NewJail(@.dev) EXCEPT !.pc = "exit"]]
    /\ UNCHANGED <<toStatus, toConflict, linked, found>>

(* Sync returns or throws; OnExit and the end of main. *)
JailExits(p) == jail[p].pc \in {"sync", "exit"} /\ JailEnds(p) /\ UNCHANGED crashes

JailKilled(p) == proc[p].sig # "none" /\ JailEnds(p) /\ UNCHANGED crashes

JailCrashes(p) == crashes < MaxCrashes /\ JailEnds(p) /\ crashes' = crashes + 1
=============================================================================
