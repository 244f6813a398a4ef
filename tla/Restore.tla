------------------------------ MODULE Restore ------------------------------
(***************************************************************************)
(* The object that reads a Barry Backup archive: Barry::Restore            *)
(* (src/src/restore.cc).  A Restore object is a record, and a method is an *)
(* operator that takes the object and gives the object after the call.     *)
(*                                                                         *)
(* An archive is a sequence of entries [db, whole]: db is the part of the  *)
(* path before the last slash (NoName when there is none), whole says that *)
(* an id follows it.  The contents of an entry, and the ids in its name,   *)
(* are named by its position.  A torn archive ends inside an entry: reading*)
(* it throws TarError, after which libtar finds nothing more.              *)
(***************************************************************************)
EXTENDS DbName, Naturals, Sequences, FiniteSetsExt

States == {"EMPTY", "UNKNOWN", "NEXT", "DBEND", "EOF"}

(* The members of Restore that change.  held and meta are positions: the
   entry whose data is in m_record_data, and the one m_rec_type and
   m_unique_id were taken from.  threw: the last call left with TarError. *)
New == [state |-> "EMPTY", pos |-> 0, db |-> NoName, held |-> 0, meta |-> 0,
        threw |-> FALSE]

(* SplitTarPath fails for a path without database or id. *)
SplitTarPath(e) == e.db # NoName /\ e.whole

(* IsSelected: the skip list first, then the default for an empty list. *)
IsSelected(f, d) ==
    /\ d \notin f.skip
    /\ IF f.list = {} THEN f.all ELSE d \in f.list

(* What ends the search loop of Retrieve: an entry of the current database,
   or one the filter allows. *)
Found(a, f, r, i) ==
    /\ SplitTarPath(a.entries[i])
    /\ a.entries[i].db = r.db \/ IsSelected(f, a.entries[i].db)

(* The state the loop leaves behind when ReadNextFile throws: that of the
   last entry it passed over, if there was one. *)
LeftState(a, r) ==
    LET n == Len(a.entries) IN
    IF r.pos = n THEN r.state
    ELSE IF SplitTarPath(a.entries[n]) THEN "DBEND" ELSE "UNKNOWN"

(* Retrieve; own says that record_data is m_record_data. *)
Retrieve(a, f, r, own) ==
    LET hits == {i \in (r.pos + 1)..Len(a.entries) : Found(a, f, r, i)}
        i == Min(hits)
        d == a.entries[i].db
    IN IF r.state # "EMPTY" THEN r
       ELSE IF hits # {}
       THEN [r EXCEPT !.state = IF d = r.db \/ r.db = NoName THEN "NEXT" ELSE "DBEND",
                      !.pos = i, !.db = d, !.meta = i,
                      !.held = IF own THEN i ELSE @]
       ELSE IF a.torn /\ ~r.threw
       THEN [r EXCEPT !.state = LeftState(a, r), !.pos = Len(a.entries), !.threw = TRUE,
                      !.held = IF own THEN 0 ELSE @]
       ELSE [r EXCEPT !.state = "EOF", !.pos = Len(a.entries),
                      !.held = IF own THEN 0 ELSE @]

(* An exception of this call, not of an earlier one. *)
Throws(r, q) == q.threw /\ ~r.threw

(* What a call that wants a record returns: the object, and the record, a
   false, or an exception. *)
Record(q, data) ==
    [obj |-> [q EXCEPT !.state = "EMPTY"], ret |-> "true",
     rec |-> [db |-> q.db, id |-> q.meta, data |-> data]]
Nothing(q, why) == [obj |-> q, ret |-> why, rec |-> [db |-> NoName, id |-> 0, data |-> 0]]

(* Mutant: a series follows the other without an end. *)
Deliver_noEnd(r, q, data) ==
    CASE Throws(r, q) -> Nothing(q, "TarError")
      [] ~Throws(r, q) /\ q.state \in {"NEXT", "DBEND"} -> Record(q, data)
      [] OTHER -> Nothing(q, "false")

(* The switch at the end of BuildRecord and FetchRecord. *)
Deliver(r, q, data) ==
    CASE Throws(r, q) -> Nothing(q, "TarError")
      [] ~Throws(r, q) /\ q.state = "NEXT" -> Record(q, data)
      [] ~Throws(r, q) /\ q.state = "DBEND" -> Nothing([q EXCEPT !.state = "NEXT"], "false")
      [] ~Throws(r, q) /\ q.state = "EOF" -> Nothing(q, "false")
      [] OTHER -> Nothing(q, "logic_error")

(* BuildRecord copies from m_record_data. *)
BuildRecord(a, f, r) ==
    LET q == Retrieve(a, f, r, TRUE) IN Deliver(r, q, q.held)

(* Mutant: FetchRecord does not keep the record it read too far. *)
FetchRecord_forgets(a, f, r) ==
    IF r.state = "EMPTY"
    THEN LET q == Retrieve(a, f, r, FALSE) IN Deliver(r, q, q.pos)
    ELSE Deliver(r, r, r.held)

(* FetchRecord reads into the caller's buffer when nothing is loaded, and
   keeps a copy if it met the first record of the next database. *)
FetchRecord(a, f, r) ==
    IF r.state = "EMPTY"
    THEN LET q == Retrieve(a, f, r, FALSE)
             kept == IF q.state = "DBEND" /\ ~Throws(r, q) THEN [q EXCEPT !.held = q.pos] ELSE q
         IN Deliver(r, kept, q.pos)
    ELSE Deliver(r, r, r.held)

(* Mutant: the metadata is fetched into a buffer of its own. *)
GetNextMeta_elsewhere(a, f, r) == Retrieve(a, f, r, FALSE)

(* GetNextMeta loads a record if none is loaded; it returns true when the
   record belongs to the current database. *)
GetNextMeta(a, f, r) == Retrieve(a, f, r, TRUE)
HasMeta(r) == r.state = "NEXT"

(* The loop of SkipCurrentDB: over what is left of the current database (of
   the first one, when nothing was read yet), up to a record of another one
   or the end of the file.  A record that is loaded and whose database has not
   begun for the caller stops the loop at once.  TarError is taken for the end
   of the file. *)
SkipLoop(a, f, r) ==
    LET first == Retrieve(a, f, r, TRUE)
        others == {i \in (first.pos + 1)..Len(a.entries) :
                       Found(a, f, first, i) /\ a.entries[i].db # first.db}
        i == Min(others)
    IN CASE first.state = "DBEND" /\ ~Throws(r, first) -> first
         [] first.state = "NEXT" /\ ~Throws(r, first) /\ others # {} ->
              [first EXCEPT !.state = "DBEND", !.pos = i, !.held = i, !.meta = i,
                            !.db = a.entries[i].db]
         [] OTHER -> [first EXCEPT !.state = "EOF", !.pos = Len(a.entries)]

(* Mutant: the record of the next database is taken for the end of the file. *)
SkipCurrentDB_toEnd(a, f, r) == [SkipLoop(a, f, r) EXCEPT !.state = "EOF"]

(* SkipCurrentDB also processes the end of the database it skipped. *)
SkipCurrentDB(a, f, r) ==
    LET q == SkipLoop(a, f, r) IN
    IF q.state = "DBEND" THEN [q EXCEPT !.state = "NEXT"] ELSE q

EndOfFile(r) == r.state = "EOF"

(* CountFiles, without a list of what is available: the selection is decided
   where the database changes, from the list and the default alone, and a
   path needs no id to be counted. *)
CountFiles(a, list, all) ==
    Cardinality({i \in 1..Len(a.entries) :
        /\ a.entries[i].db # NoName
        /\ (all /\ list = {}) \/ a.entries[i].db \in list})

GetRecordTotal(a, f) == CountFiles(a, f.list, f.all)
=============================================================================
