------------------------------ MODULE Desktop ------------------------------
(***************************************************************************)
(* The databases of a device as Mode::Desktop reads and writes them        *)
(* (src/src/m_desktop.cc), with the classes built on it: RecordStateTable, *)
(* DeviceBuilder (with its DBLoader) and DeviceParser.                     *)
(*                                                                         *)
(* A database is a function from state table indexes to records            *)
(* [id, val, dirty]; two records may have the same id.  A device is a      *)
(* function from the names in its DBDB to databases.  An object is a       *)
(* record, and a method gives the object after the call.                   *)
(***************************************************************************)
EXTENDS DbName, Naturals, Sequences, FiniteSetsExt

WriteModes == {"ERASE_ALL_WRITE_ALL", "INDIVIDUAL_OVERWRITE",
               "ADD_BUT_NO_OVERWRITE", "ADD_WITH_NEW_ID"}

(* The device numbers a new record after the ones it has. *)
NextIndex(t) == IF DOMAIN t = {} THEN 1 ELSE Max(DOMAIN t) + 1

(* The device marks what is written to it as changed. *)
Stored(id, val) == [id |-> id, val |-> val, dirty |-> TRUE]

AddRecord(t, id, val) ==
    [i \in DOMAIN t \cup {NextIndex(t)} |->
        IF i \in DOMAIN t THEN t[i] ELSE Stored(id, val)]
SetRecord(t, i, id, val) == [t EXCEPT ![i] = Stored(id, val)]
DeleteRecord(t, i) == [j \in DOMAIN t \ {i} |-> t[j]]
ClearDirty(t, i) == [t EXCEPT ![i].dirty = FALSE]
ClearDatabase(t) == [i \in {} |-> t[i]]

(* RecordStateTable: a copy of the database without the contents.  GetIndex
   finds the first index that has the id. *)
Ids(tab) == {tab[i].id : i \in DOMAIN tab}
Vals(t) == {t[i].val : i \in DOMAIN t}
HasIndex(tab, id) == id \in Ids(tab)
GetIndex(tab, id) == Min({i \in DOMAIN tab : tab[i].id = id})

(* MakeNewRecordId counts on from the last id it gave, past the ids of the
   table.  A table has 65536 entries at most, so the counter does not wrap. *)
MakeNewRecordId(tab, last) ==
    Min({n \in (last + 1)..(last + Cardinality(DOMAIN tab) + 1) : n \notin Ids(tab)})

-----------------------------------------------------------------------------
(* DeviceBuilder: the databases one after the other; at is the index of the
   record that the last FetchRecord gave, 0 when it returned false. *)
NewBuilder(dbs) == [dbs |-> dbs, cur |-> 1, started |-> FALSE, busy |-> FALSE, at |-> 0]

BuilderEOF(b) == b.cur > Len(b.dbs)

(* DBLoader: the first record after index i, or DB_DONE. *)
LoadAfter(b, t, i) ==
    LET rest == {j \in DOMAIN t : j > i} IN
    [b EXCEPT !.busy = rest # {}, !.at = IF rest = {} THEN 0 ELSE Min(rest)]

(* Mutant: a database is passed over. *)
FetchFromDevice_skips(dev, b) ==
    IF b.busy THEN LoadAfter(b, dev[b.dbs[b.cur]], b.at)
    ELSE IF ~b.started THEN LoadAfter([b EXCEPT !.started = TRUE], dev[b.dbs[b.cur]], 0)
    ELSE LET n == [b EXCEPT !.cur = @ + 2, !.at = 0] IN
         IF BuilderEOF(n) THEN n ELSE LoadAfter(n, dev[n.dbs[n.cur]], 0)

(* DeviceBuilder::FetchRecord. *)
FetchFromDevice(dev, b) ==
    IF BuilderEOF(b) THEN [b EXCEPT !.at = 0]
    ELSE IF b.busy THEN LoadAfter(b, dev[b.dbs[b.cur]], b.at)
    ELSE IF ~b.started THEN LoadAfter([b EXCEPT !.started = TRUE], dev[b.dbs[b.cur]], 0)
    ELSE LET n == [b EXCEPT !.cur = @ + 1, !.at = 0] IN
         IF BuilderEOF(n) THEN n ELSE LoadAfter(n, dev[n.dbs[n.cur]], 0)

-----------------------------------------------------------------------------
(* DeviceParser: m_current_db, m_rstate and the table's m_LastNewRecordId. *)
NewParser(mode) == [mode |-> mode, db |-> NoName, tab |-> <<>>, last |-> 1]

(* Mutant: a record that exists is written over in every mode. *)
WriteNext_overwrites(t, p, r) ==
    CASE p.mode = "ADD_WITH_NEW_ID" -> AddRecord(t, MakeNewRecordId(p.tab, p.last), r.val)
      [] p.mode # "ADD_WITH_NEW_ID" /\ HasIndex(p.tab, r.id) ->
             SetRecord(t, GetIndex(p.tab, r.id), r.id, r.val)
      [] OTHER -> AddRecord(t, r.id, r.val)

(* What WriteNext does to the database t that the parser is writing. *)
WriteNext(t, p, r) ==
    CASE p.mode = "ERASE_ALL_WRITE_ALL" -> AddRecord(t, r.id, r.val)
      [] p.mode = "INDIVIDUAL_OVERWRITE" ->
             IF HasIndex(p.tab, r.id) THEN SetRecord(t, GetIndex(p.tab, r.id), r.id, r.val)
             ELSE AddRecord(t, r.id, r.val)
      [] p.mode = "ADD_BUT_NO_OVERWRITE" ->
             IF HasIndex(p.tab, r.id) THEN t ELSE AddRecord(t, r.id, r.val)
      [] p.mode = "ADD_WITH_NEW_ID" -> AddRecord(t, MakeNewRecordId(p.tab, p.last), r.val)

(* The record state table is read when a database begins, and not again. *)
StartDB(dev, p, d) ==
    LET none == [p EXCEPT !.db = NoName, !.tab = <<>>, !.last = 1] IN
    IF d \notin DOMAIN dev THEN none
    ELSE [none EXCEPT !.db = d,
                      !.tab = IF p.mode = "ERASE_ALL_WRITE_ALL" THEN <<>> ELSE dev[d]]

(* ParseRecord of record r of database d.  The device may refuse with a
   return code: refuse is "no", or the command it refuses, "clear" or "write".
   The record is written to the device unless the device has no such
   database. *)
ParseRecord(dev, p, d, r, refuse) ==
    LET begins == d # p.db
        q == IF begins THEN StartDB(dev, p, d) ELSE p
        erases == begins /\ q.db = d /\ p.mode = "ERASE_ALL_WRITE_ALL"
        t == IF erases THEN ClearDatabase(dev[d]) ELSE dev[d]
        counted == IF p.mode = "ADD_WITH_NEW_ID"
                   THEN [q EXCEPT !.last = MakeNewRecordId(q.tab, q.last)] ELSE q
    IN CASE q.db # d -> [dev |-> dev, parser |-> q, ret |-> "ok"]
         [] q.db = d /\ erases /\ refuse = "clear" ->
                [dev |-> dev, parser |-> q, ret |-> "ReturnCodeError"]
         [] q.db = d /\ refuse = "write" ->
                [dev |-> [dev EXCEPT ![d] = t], parser |-> counted, ret |-> "ReturnCodeError"]
         [] OTHER -> [dev |-> [dev EXCEPT ![d] = WriteNext(t, q, r)],
                      parser |-> counted, ret |-> "ok"]
=============================================================================
