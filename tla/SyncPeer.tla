------------------------------ MODULE SyncPeer ------------------------------
(***************************************************************************)
(* What the two OpenSync plugins have around them: the device and its      *)
(* user, and the sync engine with the other member's data.  The engine is  *)
(* not part of the repository.  It calls initialize, connect, get_changes, *)
(* commit_change, sync_done ("only ... if the sync was successfull"),      *)
(* disconnect and finalize; a plugin may serve several syncs between       *)
(* initialize and finalize.  After a sync that failed or a program that    *)
(* died the engine asks for a slow sync, in which it forgets what it knew. *)
(*                                                                         *)
(* The device shows the dirty flag of a record that was written over USB   *)
(* only after a reconnect (opensync-plugin/src/barry_sync.cc:493).         *)
(***************************************************************************)
EXTENDS IdMap

CONSTANTS Dbs,         \* the databases to sync, in the order of sync_done
          Contents,    \* what the device may hold at first: for each database a table
          UserIds,     \* ids that the device gives to its user's new records
          Values,      \* contents of a record
          PeerUids,    \* uids of records that come from the other member
          MaxSyncs, MaxEdits, MaxCommits, MaxFaults  \* bounds

DbSet == Range(Dbs)

ASSUME SyncAssumption ==
    /\ \A k \in DOMAIN Dbs, j \in DOMAIN Dbs : Dbs[k] = Dbs[j] => k = j
    /\ UserIds \subseteq Nat \ {0}
    /\ \A u \in PeerUids : u[1] \in {"num", "text"} /\ u[2] \in Nat \ {0}
    /\ {MaxSyncs, MaxEdits, MaxCommits, MaxFaults} \subseteq Nat

VARIABLES
  dev,      \* the databases on the device
  late,     \* the records whose dirty flags are not shown yet
  table,    \* DatabaseSyncState::m_Table
  last,     \* and its m_LastNewRecordId
  view,     \* what the engine thinks the device holds: for each database, uids to values
  phase,    \* "none", "idle", "open", "commit", "finish" or "over"
  at,       \* how many databases get_changes or sync_done have dealt with
  failed,   \* the last sync failed
  slow,     \* the engine asked for a slow sync
  sent,     \* the uids of which the engine has sent a change in this sync, once each
  (* history *)
  lost,     \* changes of the user while a sync ran that may go unnoticed
  quiet,    \* the databases the user has not changed since they were read
  fresh,    \* ids that no record of the user had
  astray,   \* records that the plugin added under another id than it has mapped
  syncs, edits, commits, faults

peer == <<dev, late, table, last, view, phase, at, failed, slow, sent, lost, quiet,
          fresh, astray, syncs, edits, commits, faults>>
counts == <<syncs, edits, commits, faults>>
history == <<lost, quiet, fresh, astray>>

NothingSent == [d \in DbSet |-> {}]

PeerTypeOK ==
    /\ \A d \in DbSet :
        /\ \A i \in DOMAIN dev[d] : dev[d][i].id \in Nat \ {0} /\ dev[d][i].val \in Values
        /\ last[d] \in Nat \ {0}
        /\ \A u \in DOMAIN view[d] : view[d][u] \in Values
    /\ phase \in {"none", "idle", "open", "commit", "finish", "over"}
    /\ at \in 0..Len(Dbs) /\ failed \in BOOLEAN /\ slow \in BOOLEAN

PeerInit ==
    /\ dev \in Contents /\ late = [d \in DbSet |-> {}]
    /\ table = [d \in DbSet |-> <<>>] /\ last = [d \in DbSet |-> 1]
    /\ view = [d \in DbSet |-> EmptyMap]
    /\ phase = "none" /\ at = 0 /\ failed = TRUE /\ slow = FALSE
    /\ sent = NothingSent
    /\ lost = [d \in DbSet |-> {}] /\ quiet = {} /\ fresh = [d \in DbSet |-> UserIds]
    /\ astray = [d \in DbSet |-> {}]
    /\ syncs = 0 /\ edits = 0 /\ commits = 0 /\ faults = 0

(* What GetRecordStateTable reads. *)
Table(d) == [i \in DOMAIN dev[d] |-> [dev[d][i] EXCEPT !.dirty = @ /\ i \notin late[d]]]

(* A new record gets an index that no record had since the table was read. *)
NewIndex(d) == Max({0} \cup DOMAIN dev[d] \cup DOMAIN table[d]) + 1
Inserted(d, id, v) ==
    [i \in DOMAIN dev[d] \cup {NewIndex(d)} |-> IF i \in DOMAIN dev[d] THEN dev[d][i] ELSE Stored(id, v)]

(* The engine's view, with entries set and removed. *)
Changed(v, put, del) ==
    [u \in (DOMAIN v \ del) \cup DOMAIN put |-> IF u \in DOMAIN put THEN put[u] ELSE v[u]]

-----------------------------------------------------------------------------
(* The user of the device. *)

Position(d) == CHOOSE k \in DOMAIN Dbs : Dbs[k] = d

(* A change of database d now comes between its reading and its end. *)
BeingSynced(d) ==
    \/ phase = "open" /\ Position(d) <= at
    \/ phase = "commit"
    \/ phase = "finish" /\ Position(d) > at

Edits(d) ==
    /\ edits < MaxEdits /\ edits' = edits + 1
    /\ quiet' = quiet \ {d}
    /\ UNCHANGED <<table, last, view, phase, at, failed, slow, sent, astray, syncs, commits,
                   faults>>

MayBeLost(d, id, what) ==
    lost' = IF BeingSynced(d) THEN [lost EXCEPT ![d] = @ \cup {<<id, what>>}] ELSE lost

UserAdds(d, id, v) ==
    /\ id \in fresh[d] \ Ids(dev[d])
    /\ dev' = [dev EXCEPT ![d] = Inserted(d, id, v)]
    /\ fresh' = [fresh EXCEPT ![d] = @ \ {id}]
    /\ Edits(d) /\ UNCHANGED <<late, lost>>

UserModifies(d, i, v) ==
    /\ i \in DOMAIN dev[d] /\ dev[d][i].val # v
    /\ dev' = [dev EXCEPT ![d] = SetRecord(@, i, dev[d][i].id, v)]
    /\ late' = [late EXCEPT ![d] = @ \ {i}]
    /\ MayBeLost(d, dev[d][i].id, "modified")
    /\ Edits(d) /\ UNCHANGED fresh

UserDeletes(d, i) ==
    /\ i \in DOMAIN dev[d]
    /\ dev' = [dev EXCEPT ![d] = DeleteRecord(@, i)]
    /\ late' = [late EXCEPT ![d] = @ \ {i}]
    /\ MayBeLost(d, dev[d][i].id, "deleted")
    /\ Edits(d) /\ UNCHANGED fresh

UserStep ==
    \E d \in DbSet :
        \/ \E id \in UserIds, v \in Values : UserAdds(d, id, v)
        \/ \E i \in DOMAIN dev[d] : UserDeletes(d, i) \/ \E v \in Values : UserModifies(d, i, v)

-----------------------------------------------------------------------------
(* Steps of the engine that are the same for both plugins. *)

Faulty(bad) == faults + (IF bad THEN 1 ELSE 0) <= MaxFaults /\ faults' = faults + IF bad THEN 1 ELSE 0
Fails == failed' = TRUE /\ phase' = "over" /\ UNCHANGED at

Begins(bad) ==
    /\ phase = "idle" /\ syncs < MaxSyncs /\ syncs' = syncs + 1
    /\ Faulty(bad)
    /\ slow' = failed
    /\ failed' = bad /\ phase' = IF bad THEN "over" ELSE "open"
    /\ at' = 0
    /\ UNCHANGED <<dev, table, last, view, sent, history, edits, commits>>

(* The database that get_changes or sync_done comes to. *)
Current == Dbs[at + 1]

(* A database was read, with what is new in it and what is gone. *)
Reads(d, put, del, ids) ==
    /\ view' = [view EXCEPT ![d] = Changed(IF slow THEN EmptyMap ELSE @, put, del)]
    /\ table' = [table EXCEPT ![d] = Table(d)] /\ last' = [last EXCEPT ![d] = 1]
    /\ lost' = [lost EXCEPT ![d] = IF slow THEN {} ELSE @ \ (ids \X {"modified"})] /\ quiet' = quiet \cup {d}
    /\ astray' = IF slow THEN [astray EXCEPT ![d] = {}] ELSE astray
    /\ at' = IF at + 1 = Len(Dbs) THEN 0 ELSE at + 1
    /\ phase' = IF at + 1 = Len(Dbs) THEN "commit" ELSE "open"
    /\ slow' = (slow /\ phase' = "open")
    /\ UNCHANGED <<dev, late, failed, sent, fresh, counts>>

Outcomes == {"ok", "parse", "before", "after"}

(* CommitRecordData, or DeleteRecord, on the device: the change may be one the
   converter cannot read, and the USB may fail before the device has it or
   after.  t is the database with the change, new the index it touches. *)
Commits(d, how, t, new, put, del) ==
    /\ (DOMAIN put \cup del) \cap sent[d] = {}
    /\ sent' = [sent EXCEPT ![d] = @ \cup DOMAIN put \cup del]
    /\ commits < MaxCommits /\ commits' = commits + 1 /\ Faulty(how # "ok")
    /\ dev' = IF how \in {"ok", "after"} THEN [dev EXCEPT ![d] = t] ELSE dev
    /\ late' = IF how \in {"ok", "after"}
               THEN [late EXCEPT ![d] = (@ \cup {new}) \cap DOMAIN t] ELSE late
    /\ view' = IF how = "ok" THEN [view EXCEPT ![d] = Changed(@, put, del)] ELSE view
    /\ failed' = (failed \/ how # "ok")
    /\ UNCHANGED <<table, phase, at, slow, lost, quiet, fresh, syncs, edits>>

(* CommitRecordData of a record that exists: SetRecord, then ClearDirty.  As the
   flag is not shown yet, whether that clears it is the device's affair. *)
Overwritten(d, i, id, v, how) ==
    LET t == SetRecord(dev[d], i, id, v) IN IF how = "ok" THEN {t, ClearDirty(t, i)} ELSE {t}

(* A commit_change that reports an error before it comes to the device. *)
Refused(d, u) ==
    /\ u \notin sent[d] /\ sent' = [sent EXCEPT ![d] = @ \cup {u}]
    /\ commits < MaxCommits /\ commits' = commits + 1 /\ failed' = TRUE
    /\ UNCHANGED <<dev, late, table, view, phase, at, slow, history, syncs, edits, faults>>

(* A sync in which a change failed is not finished. *)
GivesUp ==
    /\ phase = "commit" /\ failed /\ phase' = "over" /\ sent' = NothingSent
    /\ UNCHANGED <<dev, late, table, last, view, at, failed, slow, history, counts>>

(* ClearDirtyFlags: of the records that were dirty in the table; the device
   does not know an index that is gone.  cleared is how far it came. *)
DirtyIn(tab) == {i \in DOMAIN tab : tab[i].dirty}
ClearDirtyFlags(t, cleared) ==
    [i \in DOMAIN t |-> IF i \in cleared THEN [t[i] EXCEPT !.dirty = FALSE] ELSE t[i]]

NextDb ==
    /\ at' = IF at + 1 = Len(Dbs) THEN 0 ELSE at + 1
    /\ phase' = IF at + 1 = Len(Dbs) THEN "over" ELSE "finish"

Finalizes ==
    /\ phase = "idle" /\ phase' = "none"
    /\ table' = [d \in DbSet |-> <<>>] /\ last' = [d \in DbSet |-> 1]
    /\ UNCHANGED <<dev, view, at, failed, slow, sent, history, counts>>

(* The program dies. *)
Dies ==
    /\ phase \notin {"none", "idle"} /\ Faulty(TRUE)
    /\ phase' = "none" /\ at' = 0 /\ failed' = TRUE /\ slow' = FALSE /\ sent' = NothingSent
    /\ late' = [d \in DbSet |-> {}]
    /\ table' = [d \in DbSet |-> <<>>] /\ last' = [d \in DbSet |-> 1]
    /\ UNCHANGED <<dev, view, history, syncs, edits, commits>>
=============================================================================
