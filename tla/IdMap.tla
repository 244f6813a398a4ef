------------------------------- MODULE IdMap -------------------------------
(***************************************************************************)
(* The plugin's map between the uids of the sync engine and the record ids *)
(* of the device (opensync-plugin/src/idmap.cc): a function from uids to   *)
(* ids.  A uid is a pair: <<"own", n>> is the name the plugin itself gives *)
(* to record n ("calendar-n"), <<"num", n>> a text that begins with the    *)
(* number n, <<"text", k>> one that does not.                              *)
(***************************************************************************)
EXTENDS Desktop, Functions

EmptyMap == [u \in {} |-> 0]

Own(id) == <<"own", id>>

UidExists(m, u) == u \in DOMAIN m
RidExists(m, id) == id \in Range(m)

(* Map refuses blanks, and ids that exist on either side. *)
CanMap(m, u, id) == id # 0 /\ ~UidExists(m, u) /\ ~RidExists(m, id)
Map(m, u, id) ==
    IF CanMap(m, u, id) THEN [w \in DOMAIN m \cup {u} |-> IF w = u THEN id ELSE m[w]] ELSE m

UnmapUid(m, u) == [w \in DOMAIN m \ {u} |-> m[w]]

(* DatabaseSyncState::Map2Uid. *)
Map2Uid(m, id) == IF RidExists(m, id) THEN CHOOSE u \in DOMAIN m : m[u] = id ELSE Own(id)

(* DatabaseSyncState::GetMappedRecordId: the id of a uid, mapped if it was
   not; last is the table's counter of new ids. *)
GetMappedRecordId(m, tab, last, u) ==
    LET free == Min({k \in (last + 1)..(last + Cardinality(DOMAIN tab) + Cardinality(DOMAIN m) + 1) :
                        k \notin Ids(tab) /\ ~RidExists(m, k)})
    IN CASE UidExists(m, u) -> [rid |-> m[u], map |-> m, last |-> last]
         [] ~UidExists(m, u) /\ u[1] = "num" /\ CanMap(m, u, u[2]) ->
                [rid |-> u[2], map |-> Map(m, u, u[2]), last |-> last]
         [] OTHER -> [rid |-> free, map |-> Map(m, u, free), last |-> free]
=============================================================================
