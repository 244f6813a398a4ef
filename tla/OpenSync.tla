------------------------------ MODULE OpenSync ------------------------------
(***************************************************************************)
(* The two OpenSync plugins at work, each with a device, a user and an     *)
(* engine, and what a sync has to achieve: the engine's picture of the     *)
(* device and the device agree, apart from what the next sync will report. *)
(***************************************************************************)
EXTENDS Plugin02, Plugin04

VARIABLE version    \* the plugin that is installed

vars == <<peer, own02, own04, version>>

Init == PeerInit /\ Init02 /\ Init04 /\ version \in {"0.2x", "0.4x"}

Next ==
    \/ UserStep /\ UNCHANGED <<own02, own04, version>>
    \/ version = "0.2x" /\ Next02 /\ UNCHANGED <<own04, version>>
    \/ version = "0.4x" /\ Next04 /\ UNCHANGED <<own02, version>>

Spec == Init /\ [][Next]_vars

OneToOne(m) == \A u, w \in DOMAIN m : m[u] = m[w] => u = w

TypeOK ==
    /\ PeerTypeOK
    /\ \A d \in DbSet : OneToOne(idmap[d]) /\ OneToOne(disk[d].map)
    /\ step \in {"cache", "map", "clear"}
    /\ \A d \in DbSet : \A u \in DOMAIN hash[d] : hash[d][u] \in Nat
    /\ {needs, linked} \subseteq BOOLEAN

-----------------------------------------------------------------------------
(* Between two syncs, the last of which was a success. *)
Settled == phase \in {"none", "idle"} /\ ~failed

(* What the next sync will report, from what is in memory or in the files. *)
NextReport(d, tab) ==
    IF version = "0.2x"
    THEN IF phase = "none" THEN Report02(disk[d].cache, disk[d].map, tab)
         ELSE Report02(cache[d], idmap[d], tab)
    ELSE Report04(IF phase = "none" THEN saved[d] ELSE hash[d], tab)

UidOf(d, id) ==
    IF version = "0.4x" THEN Own(id)
    ELSE Map2Uid(IF phase = "none" THEN disk[d].map ELSE idmap[d], id)

(* View v is what database d holds, apart from lost changes, when its records
   have the uids that uid gives, and gone is what v may have besides. *)
Agrees(d, v, uid(_), gone) ==
    /\ \A i \in DOMAIN dev[d] :
        LET u == uid(dev[d][i].id) IN
        u \in DOMAIN v /\ (v[u] = dev[d][i].val \/ <<dev[d][i].id, "modified">> \in lost[d])
    /\ Cardinality((DOMAIN v \ gone) \ {uid(dev[d][i].id) : i \in DOMAIN dev[d]})
          <= IF version = "0.2x" THEN Cardinality({x \in lost[d] : x[2] = "deleted"}) ELSE 0

(* Nothing that the user or the engine did is missed for good: with what the
   next sync will report, the engine's view is what the device holds, also
   for changes that were made while the sync ran, after failed syncs and
   crashes at any point, and whether the plugin is started again or not.  The
   exceptions are a record that the user modifies after it was read and before
   its dirty flag is cleared (barry_sync.cc:237), and one deleted in that time
   whose uid the 0.2x plugin has then taken out of its map (environment.cc:108)
   but not out of its cache.  Of a record that went astray the engine keeps
   the uid that it has given it, and hears of the record under its other one. *)
NothingMissed ==
    Settled => \A d \in DbSet :
        \E r \in {NextReport(d, Table(d))} :
            Agrees(d, Changed(view[d], r.put, r.del), LAMBDA id : UidOf(d, id),
                   {s.uid : s \in astray[d]})

(* What the engine has written to the device does not come back to it as a
   change of the device: a database that the user has left alone since it was
   read has nothing to report, after a reconnect that shows all dirty flags
   (barry_sync.cc:493).  Only a record that went astray comes back, as a new
   one, and the id that it should have had as one that was deleted. *)
NoEcho ==
    Settled => \A d \in quiet :
        \E r \in {NextReport(d, dev[d])} :
            /\ DOMAIN r.put \subseteq {Own(s.id) : s \in astray[d]}
            /\ r.del \subseteq UNION {{s.uid, Own(s.rid)} : s \in astray[d]}

(* Each change that was committed has landed, once, and has hit no other record:
   with ids that the plugin invents, takes from a uid, or has to replace as
   they are in the table that get_changes has read (vevent.cc:157).  The name
   is the one that the engine meant, except that a record of which the id
   was replaced is astray: its uid stays mapped to the id it did not get.  It
   happens to a uid that begins with the number of a record that was deleted
   in the same sync, and to no other. *)
MeantBy(d, id) ==
    IF \E s \in astray[d] : s.uid \in sent[d] /\ s.id = id
    THEN (CHOOSE s \in astray[d] : s.uid \in sent[d] /\ s.id = id).uid
    ELSE UidOf(d, id)

CommitsLand ==
    phase = "commit" /\ ~failed => \A d \in quiet :
        /\ Agrees(d, view[d], LAMBDA id : MeantBy(d, id),
                  {s.uid : s \in astray[d]} \ sent[d])
        /\ \A i, j \in DOMAIN dev[d] : dev[d][i].id = dev[d][j].id => i = j
        /\ \A s \in astray[d] :
              s.uid \in sent[d] => Own(s.rid) \in sent[d] /\ s.rid \notin Ids(dev[d])
=============================================================================
