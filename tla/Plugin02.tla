------------------------------ MODULE Plugin02 ------------------------------
(***************************************************************************)
(* The plugin for OpenSync 0.2x (opensync-plugin/src).  It finds out what  *)
(* has changed from the dirty flags and a cache of the record ids of the   *)
(* last sync, and names records by an id map; both are kept in files.      *)
(***************************************************************************)
EXTENDS SyncPeer

VARIABLES cache,   \* DatabaseSyncState::m_Cache
          idmap,   \* DatabaseSyncState::m_IdMap
          disk,    \* the files of both
          step     \* where FinishSync is: "cache", "map" or "clear"

own02 == <<cache, idmap, disk, step>>

Init02 ==
    /\ cache = [d \in DbSet |-> {}] /\ idmap = [d \in DbSet |-> EmptyMap]
    /\ disk = [d \in DbSet |-> [cache |-> {}, map |-> EmptyMap]]
    /\ step = "cache"

(* initialize: LoadCache and LoadMap. *)
Initialize02 ==
    /\ phase = "none" /\ phase' = "idle"
    /\ cache' = [d \in DbSet |-> disk[d].cache] /\ idmap' = [d \in DbSet |-> disk[d].map]
    /\ UNCHANGED <<dev, late, table, last, view, at, failed, slow, sent, history, counts, disk, step>>

Connect02(bad) == Begins(bad) /\ UNCHANGED <<late, own02>>

(* Mutant: only records that are not in the cache are reported. *)
Added_newOnly(c, tab) == {i \in DOMAIN tab : tab[i].id \notin c}

(* The first loop of GetChanges: added or modified. *)
Added(c, tab) == {i \in DOMAIN tab : tab[i].id \notin c \/ tab[i].dirty}

(* What GetChanges reports for cache c, map m and state table tab. *)
Report02(c, m, tab) ==
    LET is == Added(c, tab) IN
    [put |-> [u \in {Map2Uid(m, tab[i].id) : i \in is} |->
                 tab[CHOOSE i \in is : Map2Uid(m, tab[i].id) = u].val],
     del |-> {Map2Uid(m, id) : id \in c \ Ids(tab)},
     ids |-> {tab[i].id : i \in is},
     map |-> FoldSet(LAMBDA i, n : Map(n, Map2Uid(m, tab[i].id), tab[i].id), m, is)]

(* GetChanges for the next database.  Of an error nothing remains that counts:
   the engine's next sync is slow, and clears the map and the cache again. *)
GetChanges02(bad) ==
    LET d == Current IN
    /\ phase = "open"
    /\ IF bad
       THEN /\ Faulty(TRUE) /\ Fails /\ slow' = FALSE
            /\ cache' = IF slow THEN [cache EXCEPT ![d] = {}] ELSE cache
            /\ idmap' = IF slow THEN [idmap EXCEPT ![d] = EmptyMap] ELSE idmap
            /\ UNCHANGED <<dev, late, table, last, view, sent, history, syncs, edits, commits,
                           disk, step>>
       ELSE \E r \in {Report02(IF slow THEN {} ELSE cache[d],
                               IF slow THEN EmptyMap ELSE idmap[d], Table(d))} :
            /\ Reads(d, r.put, r.del, r.ids)
            /\ cache' = [cache EXCEPT ![d] = Ids(dev[d])]
            /\ idmap' = [idmap EXCEPT ![d] = r.map]
            /\ UNCHANGED <<disk, step>>

(* Mutant: a new record never has the id that its uid is mapped to. *)
NewId_always(tab, last0, rid) == MakeNewRecordId(tab, last0)

(* CommitRecordData: the id of an added record. *)
NewId(tab, last0, rid) == IF HasIndex(tab, rid) THEN MakeNewRecordId(tab, last0) ELSE rid

(* commit_change, ADDED: a record of the other member, or one that was deleted
   on the device and is to come back. *)
CommitAdded02(d, u, v, how) ==
    /\ phase = "commit" /\ u \notin DOMAIN view[d]
    /\ u \in PeerUids \cup DOMAIN idmap[d]
    /\ \E g \in {GetMappedRecordId(idmap[d], table[d], last[d], u)} :
        \E id \in {NewId(table[d], g.last, g.rid)} :
            /\ Commits(d, how, Inserted(d, id, v), NewIndex(d),
                       [w \in {u} |-> v], {})
            /\ last' = [last EXCEPT ![d] = IF id = g.rid THEN g.last ELSE id]
            /\ cache' = IF how = "ok" THEN [cache EXCEPT ![d] = @ \cup {g.rid}] ELSE cache
            /\ idmap' = [idmap EXCEPT ![d] = IF how = "parse" THEN UnmapUid(g.map, u) ELSE g.map]
            /\ astray' = IF how = "ok" /\ id # g.rid
                         THEN [astray EXCEPT ![d] = @ \cup {[uid |-> u, rid |-> g.rid, id |-> id]}]
                         ELSE astray
    /\ UNCHANGED <<disk, step>>

(* commit_change, MODIFIED and DELETED, of the record at index i of the table
   that get_changes has read.  The device refuses an index that is gone. *)
CommitKnown02(d, u, kind, v, how) ==
    /\ phase = "commit" /\ u \in DOMAIN view[d]
    /\ kind = "DELETED" => how # "parse"
    /\ \E g \in {GetMappedRecordId(idmap[d], table[d], last[d], u)} :
        LET i == GetIndex(table[d], g.rid) IN
        IF ~HasIndex(table[d], g.rid) \/ i \notin DOMAIN dev[d]
        THEN /\ Refused(d, u) /\ last' = [last EXCEPT ![d] = g.last]
             /\ idmap' = [idmap EXCEPT ![d] = g.map] /\ UNCHANGED cache
        ELSE /\ last' = [last EXCEPT ![d] = g.last]
             /\ IF kind = "MODIFIED"
                THEN /\ \E t \in Overwritten(d, i, g.rid, v, how) : Commits(d, how, t, i, [w \in {u} |-> v], {})
                     /\ idmap' = [idmap EXCEPT ![d] =
                                     IF how = "parse" THEN UnmapUid(g.map, u) ELSE g.map]
                     /\ UNCHANGED cache
                ELSE /\ Commits(d, how, DeleteRecord(dev[d], i), i, EmptyMap, {u})
                     /\ idmap' = [idmap EXCEPT ![d] =
                                     IF how = "ok" THEN UnmapUid(g.map, u) ELSE g.map]
                     /\ cache' = IF how = "ok" THEN [cache EXCEPT ![d] = @ \ {g.rid}] ELSE cache
    /\ UNCHANGED <<astray, disk, step>>

(* Mutant: the connection is used as it is. *)
Shown02_not(l) == l

(* Reconnect at the start of sync_done: the flags of late records show. *)
Shown02(l) == [d \in DbSet |-> {}]

SyncDone02(bad) ==
    /\ phase = "commit" /\ ~failed /\ Faulty(bad)
    /\ IF bad THEN Fails ELSE phase' = "finish" /\ at' = 0 /\ UNCHANGED failed
    /\ late' = Shown02(late) /\ step' = "cache" /\ sent' = NothingSent
    /\ UNCHANGED <<dev, table, last, view, slow, history, syncs, edits, commits,
                   cache, idmap, disk>>

Finishing(s) == phase = "finish" /\ step = s

SavedCache(c, tab) == c

(* FinishSync, first part: the table again, and SaveCache.  When it fails the
   file is as it was or empty. *)
SaveCache(bad) ==
    LET d == Current IN
    /\ Finishing("cache") /\ Faulty(bad)
    /\ table' = [table EXCEPT ![d] = Table(d)] /\ last' = [last EXCEPT ![d] = 1]
    /\ \E c \in IF bad THEN {{}, disk[d].cache} ELSE {SavedCache(cache[d], Table(d))} :
        disk' = [disk EXCEPT ![d].cache = c]
    /\ IF bad THEN Fails /\ UNCHANGED step
       ELSE step' = "map" /\ UNCHANGED <<failed, phase, at>>
    /\ UNCHANGED <<dev, late, view, slow, sent, history, syncs, edits, commits, cache, idmap>>

(* CleanupMap goes on from an iterator that it has erased: what it removes of
   the entries that are not in the table is open, apart from the first. *)
Stale(m, tab) == {u \in DOMAIN m : ~HasIndex(tab, m[u])}
CleanupMaps(m, tab) ==
    {[u \in DOMAIN m \ s |-> m[u]] :
        s \in {r \in SUBSET Stale(m, tab) : Stale(m, tab) # {} => r # {}}}

(* FinishSync, second part: CleanupMap and SaveMap. *)
SaveMap(bad) ==
    LET d == Current IN
    /\ Finishing("map") /\ Faulty(bad)
    /\ \E m \in CleanupMaps(idmap[d], table[d]) :
        /\ idmap' = [idmap EXCEPT ![d] = m]
        /\ \E f \in IF bad THEN {EmptyMap, disk[d].map} ELSE {m} : disk' = [disk EXCEPT ![d].map = f]
    /\ IF bad THEN Fails /\ UNCHANGED step
       ELSE step' = "clear" /\ UNCHANGED <<failed, phase, at>>
    /\ UNCHANGED <<dev, late, table, last, view, slow, sent, history, syncs, edits, commits, cache>>

(* FinishSync, last part. *)
ClearFlags02(cleared) ==
    LET d == Current
        bad == cleared # DirtyIn(table[d])
    IN /\ Finishing("clear") /\ cleared \subseteq DirtyIn(table[d]) \cap DOMAIN dev[d]
       /\ dev' = [dev EXCEPT ![d] = ClearDirtyFlags(@, cleared)]
       /\ IF DirtyIn(table[d]) \subseteq DOMAIN dev[d] THEN Faulty(bad) ELSE UNCHANGED faults
       /\ IF bad THEN Fails ELSE NextDb /\ UNCHANGED failed
       /\ step' = "cache"
       /\ UNCHANGED <<late, table, last, view, slow, sent, history, syncs, edits, commits,
                      cache, idmap, disk>>

Disconnect02 ==
    /\ phase = "over" /\ phase' = "idle"
    /\ late' = [d \in DbSet |-> {}]
    /\ UNCHANGED <<dev, table, last, view, at, failed, slow, sent, history, counts, own02>>

(* What was in memory is gone with the environment. *)
Forgets02 ==
    /\ cache' = [d \in DbSet |-> {}] /\ idmap' = [d \in DbSet |-> EmptyMap] /\ step' = "cache"
    /\ UNCHANGED disk

Next02 ==
    \/ Initialize02 \/ Disconnect02
    \/ Finalizes /\ Forgets02 /\ UNCHANGED late
    \/ GivesUp /\ UNCHANGED own02
    \/ Dies /\ Forgets02
    \/ \E bad \in BOOLEAN :
        Connect02(bad) \/ GetChanges02(bad) \/ SyncDone02(bad) \/ SaveCache(bad) \/ SaveMap(bad)
    \/ \E d \in DbSet, how \in Outcomes, v \in Values :
        \/ \E u \in PeerUids \cup DOMAIN idmap[d] : CommitAdded02(d, u, v, how)
        \/ \E u \in DOMAIN view[d], kind \in {"MODIFIED", "DELETED"} :
               CommitKnown02(d, u, kind, v, how)
    \/ phase = "finish" /\ \E cleared \in SUBSET DirtyIn(table[Current]) : ClearFlags02(cleared)
=============================================================================
