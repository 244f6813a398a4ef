------------------------------ MODULE Plugin04 ------------------------------
(***************************************************************************)
(* The plugin for OpenSync 0.4x (opensync-plugin-0.4x/src).  Records are   *)
(* named by their ids, and the engine's hash table finds out what has      *)
(* changed: the hash of a record is a number that the plugin raises when   *)
(* the record is dirty.  The engine saves the table after a sync.          *)
(***************************************************************************)
EXTENDS SyncPeer, Integers

VARIABLES hash,      \* OSyncHashTable: for each database, uids to numbers
          saved,     \* the table as the engine has saved it
          needs,     \* Connector::m_needs_reconnect
          linked     \* the environment is connected to the device

own04 == <<hash, saved, needs, linked>>

Init04 ==
    /\ hash = [d \in DbSet |-> EmptyMap] /\ saved = hash
    /\ needs = FALSE /\ linked = FALSE

Initialize04 ==
    /\ phase = "none" /\ phase' = "idle"
    /\ hash' = saved
    /\ UNCHANGED <<dev, late, table, last, view, at, failed, slow, sent, history, counts, saved,
                   needs, linked>>

(* connect is called for each sink, and connects once. *)
Connect04(bad) ==
    /\ Begins(bad) /\ (linked => ~bad)
    /\ linked' = (linked \/ ~bad)
    /\ UNCHANGED <<late, hash, saved, needs>>

(* GenerateHash: the last number, and one more for a dirty record. *)
GenerateHash(h, u, dirty) ==
    (IF u \in DOMAIN h THEN h[u] ELSE 0) + IF dirty THEN 1 ELSE 0

(* osync_hashtable_get_changetype says that there is a change. *)
Differs(h, u, dirty) == u \notin DOMAIN h \/ h[u] # GenerateHash(h, u, dirty)

(* What GetChanges reports for hash table h and state table tab; hash is the
   table when every change was passed to osync_hashtable_update_change. *)
Report04(h, tab) ==
    LET is == {i \in DOMAIN tab : Differs(h, Own(tab[i].id), tab[i].dirty)}
        of(u) == CHOOSE i \in DOMAIN tab : Own(tab[i].id) = u
        uids == {Own(tab[i].id) : i \in DOMAIN tab}
    IN [put |-> [u \in {Own(tab[i].id) : i \in is} |-> tab[of(u)].val],
        del |-> DOMAIN h \ uids,
        ids |-> {tab[i].id : i \in is},
        hash |-> [u \in uids |-> GenerateHash(h, u, tab[of(u)].dirty)]]

(* GetChanges, for the sink of the next database. *)
GetChanges04(bad) ==
    LET d == Current IN
    /\ phase = "open"
    /\ IF bad
       THEN /\ Faulty(TRUE) /\ Fails /\ slow' = FALSE
            /\ hash' = IF slow THEN [hash EXCEPT ![d] = EmptyMap] ELSE hash
            /\ UNCHANGED <<dev, late, table, last, view, sent, history, syncs, edits, commits,
                           saved, needs, linked>>
       ELSE \E r \in {Report04(IF slow THEN EmptyMap ELSE hash[d], Table(d))} :
            /\ Reads(d, r.put, r.del, r.ids)
            /\ hash' = [hash EXCEPT ![d] = r.hash]
            /\ UNCHANGED <<saved, needs, linked>>

(* commit_change, ADDED: the plugin tells the engine the record's uid. *)
CommitAdded04(d, v, how) ==
    /\ phase = "commit" /\ PeerUids # {}
    /\ \E id \in {MakeNewRecordId(table[d], last[d])} :
        /\ Commits(d, how, Inserted(d, id, v), NewIndex(d), [w \in {Own(id)} |-> v], {})
        /\ last' = [last EXCEPT ![d] = id]
        /\ hash' = IF how = "ok" THEN [hash EXCEPT ![d] = Changed(@, [w \in {Own(id)} |-> 0], {})]
                   ELSE hash
    /\ needs' = TRUE /\ UNCHANGED <<astray, saved, linked>>

(* commit_change, MODIFIED and DELETED. *)
CommitKnown04(d, u, kind, v, how) ==
    LET i == GetIndex(table[d], u[2]) IN
    /\ phase = "commit" /\ u \in DOMAIN view[d]
    /\ kind = "DELETED" => how # "parse"
    /\ UNCHANGED last
    /\ IF ~HasIndex(table[d], u[2])
       THEN Refused(d, u) /\ UNCHANGED <<hash, needs>>
       ELSE IF i \notin DOMAIN dev[d]
       THEN Refused(d, u) /\ needs' = TRUE /\ UNCHANGED hash
       ELSE /\ needs' = TRUE
            /\ IF kind = "MODIFIED"
               THEN /\ \E t \in Overwritten(d, i, u[2], v, how) : Commits(d, how, t, i, [w \in {u} |-> v], {})
                    /\ hash' = IF how = "ok"
                               THEN [hash EXCEPT ![d] = Changed(@, [w \in {u} |-> 0], {})] ELSE hash
               ELSE /\ Commits(d, how, DeleteRecord(dev[d], i), i, EmptyMap, {u})
                    /\ hash' = IF how = "ok"
                               THEN [hash EXCEPT ![d] = Changed(@, EmptyMap, {u})] ELSE hash
    /\ UNCHANGED <<astray, saved, linked>>

(* ReconnectForDirtyFlags, by the first sink that finishes. *)
SyncDone04(bad) ==
    /\ phase = "commit" /\ ~failed /\ Faulty(bad) /\ (bad => needs)
    /\ IF bad THEN Fails ELSE phase' = "finish" /\ at' = 0 /\ UNCHANGED failed
    /\ late' = IF needs THEN [d \in DbSet |-> {}] ELSE late
    /\ needs' = FALSE /\ linked' = (linked /\ ~bad) /\ sent' = NothingSent
    /\ UNCHANGED <<dev, table, last, view, slow, history, syncs, edits, commits, hash, saved>>

(* FinishSync for the next sink: the table again, and ClearDirtyFlags.  The
   engine saves the hash tables when all sinks are done. *)
FinishSync04(cleared) ==
    LET d == Current
        bad == cleared # DirtyIn(Table(d))
    IN /\ phase = "finish" /\ cleared \subseteq DirtyIn(Table(d)) /\ Faulty(bad)
       /\ table' = [table EXCEPT ![d] = Table(d)] /\ last' = [last EXCEPT ![d] = 1]
       /\ dev' = [dev EXCEPT ![d] = ClearDirtyFlags(@, cleared)]
       /\ IF bad THEN Fails /\ UNCHANGED saved
          ELSE /\ NextDb /\ UNCHANGED failed
               /\ saved' = IF at + 1 = Len(Dbs) THEN hash ELSE saved
       /\ UNCHANGED <<late, view, slow, sent, history, syncs, edits, commits, hash, needs, linked>>

(* disconnect leaves the connection for the next sync; finalize closes it. *)
Disconnect04 ==
    /\ phase = "over" /\ phase' = "idle"
    /\ UNCHANGED <<dev, late, table, last, view, at, failed, slow, sent, history, counts, own04>>

Forgets04 ==
    /\ hash' = [d \in DbSet |-> EmptyMap] /\ needs' = FALSE /\ linked' = FALSE /\ UNCHANGED saved

Next04 ==
    \/ Initialize04 \/ Disconnect04
    \/ Finalizes /\ Forgets04 /\ late' = [d \in DbSet |-> {}]
    \/ GivesUp /\ UNCHANGED own04
    \/ Dies /\ Forgets04
    \/ \E bad \in BOOLEAN : Connect04(bad) \/ GetChanges04(bad) \/ SyncDone04(bad)
    \/ \E d \in DbSet, how \in Outcomes, v \in Values :
        \/ CommitAdded04(d, v, how)
        \/ \E u \in DOMAIN view[d], kind \in {"MODIFIED", "DELETED"} :
               CommitKnown04(d, u, kind, v, how)
    \/ phase = "finish" /\ \E cleared \in SUBSET DirtyIn(Table(Current)) : FinishSync04(cleared)
=============================================================================
