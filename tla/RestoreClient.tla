--------------------------- MODULE RestoreClient ---------------------------
(***************************************************************************)
(* An application that uses a Restore object (src/src/restore.cc) in any   *)
(* way its header allows: the filter is set up first, and then the calls   *)
(* GetNextMeta, BuildRecord, FetchRecord and SkipCurrentDB come in any     *)
(* order, on any archive.  The users of the class each fix one order: the  *)
(* pipe (pipe.cc) only fetches, the migration dialog looks, pumps and skips*)
(* after errors, the backup program looks and builds.                      *)
(***************************************************************************)
EXTENDS Restore

CONSTANTS Names,      \* database names
          MaxEntries  \* bound: entries of the archive

ASSUME RestoreAssumption == NoName \notin Names /\ MaxEntries \in Nat

VARIABLES archive,  \* the file: [entries, torn]
          filter,   \* m_dbList, m_dbSkipList and m_default_all_db
          rd,       \* the Restore object
          phase,    \* "setup", "reading", or "failed" after a TarError
          series,   \* the database the caller is reading
          out,      \* the records it was given
          promised  \* what GetNextMeta said, until a record is delivered

vars == <<archive, filter, rd, phase, series, out, promised>>

Entries == [db : Names, whole : BOOLEAN] \cup [db : {NoName}, whole : {TRUE}]
Positions == 0..MaxEntries
Records == [db : Names, id : Positions, data : Positions]

TypeOK ==
    /\ archive \in [entries : UNION {[1..n -> Entries] : n \in Positions}, torn : BOOLEAN]
    /\ filter \in [list : SUBSET Names, skip : SUBSET Names, all : BOOLEAN]
    /\ rd \in [state : States, pos : Positions, db : Names \cup {NoName},
               held : Positions, meta : Positions, threw : BOOLEAN]
    /\ phase \in {"setup", "reading", "failed"}
    /\ series \in Names \cup {NoName}
    /\ out \in Seq(Records)
    /\ promised \in Positions

Init ==
    /\ archive \in [entries : UNION {[1..n -> Entries] : n \in Positions}, torn : BOOLEAN]
    /\ filter \in [list : {{}}, skip : {{}}, all : BOOLEAN]
    /\ rd = New
    /\ phase = "setup"
    /\ series = NoName /\ out = <<>> /\ promised = 0

AddDB(d) ==
    /\ phase = "setup"
    /\ filter' = [filter EXCEPT !.list = @ \cup {d}]
    /\ UNCHANGED <<archive, rd, phase, series, out, promised>>

AddSkipDB(d) ==
    /\ phase = "setup"
    /\ filter' = [filter EXCEPT !.skip = @ \cup {d}]
    /\ UNCHANGED <<archive, rd, phase, series, out, promised>>

(* The database of the series after a call that left the object at q. *)
SeriesAt(q) == IF q.state = "DBEND" THEN series ELSE q.db

(* What a caller of BuildRecord or FetchRecord has when it returns. *)
Returned(res) ==
    /\ rd' = res.obj
    /\ phase' = IF res.ret \in {"TarError", "logic_error"} THEN "failed" ELSE "reading"
    /\ out' = IF res.ret = "true" THEN Append(out, res.rec) ELSE out
    /\ series' = IF res.ret = "TarError" THEN series ELSE SeriesAt(res.obj)
    /\ promised' = IF res.ret = "true" THEN 0 ELSE promised
    /\ UNCHANGED <<archive, filter>>

CallBuildRecord == phase # "failed" /\ Returned(BuildRecord(archive, filter, rd))
CallFetchRecord == phase # "failed" /\ Returned(FetchRecord(archive, filter, rd))

CallGetNextMeta ==
    LET q == GetNextMeta(archive, filter, rd) IN
    /\ phase # "failed"
    /\ rd' = q
    /\ phase' = IF Throws(rd, q) THEN "failed" ELSE "reading"
    /\ promised' = IF ~Throws(rd, q) /\ HasMeta(q) THEN q.meta ELSE promised
    /\ UNCHANGED <<archive, filter, series, out>>

CallSkipCurrentDB ==
    LET q == SkipCurrentDB(archive, filter, rd) IN
    /\ phase # "failed"
    /\ rd' = q /\ phase' = "reading"
    /\ series' = q.db /\ promised' = 0
    /\ UNCHANGED <<archive, filter, out>>

Next ==
    \/ \E d \in Names : AddDB(d) \/ AddSkipDB(d)
    \/ CallBuildRecord \/ CallFetchRecord \/ CallGetNextMeta \/ CallSkipCurrentDB

Spec == Init /\ [][Next]_vars

-----------------------------------------------------------------------------
(* The records still to come, from the object's position on. *)
Wanted == {i \in 1..Len(archive.entries) :
               SplitTarPath(archive.entries[i]) /\ IsSelected(filter, archive.entries[i].db)}
Remaining ==
    {i \in Wanted : i > rd.pos \/ (i = rd.pos /\ rd.state \in {"NEXT", "DBEND"})}

Rest == IF phase = "failed" THEN {} ELSE Remaining
DbNames == [i \in 1..Len(archive.entries) |-> archive.entries[i].db]
Ids == [k \in 1..Len(out) |-> out[k].id]

(* The reader promises of restore.h, whatever mixture of calls is used: every
   selected record once, in order, series by series, with one end (a false)
   between two of them. *)
Series == INSTANCE SeriesReader WITH rest <- Rest, names <- DbNames, out <- Ids
ReadsSeries == Series!Spec

(* A record is delivered with the data, the ids and the database of one entry
   of the archive: the buffer that FetchRecord saves to avoid a copy never
   shows another entry's data (restore.cc:351). *)
RecordsWhole ==
    \A k \in 1..Len(out) :
        /\ out[k].data = out[k].id
        /\ archive.entries[out[k].id].db = out[k].db

(* GetNextMeta tells the metadata of the record that the next BuildRecord or
   FetchRecord delivers (restore.h:151), and that record is loaded. *)
MetaIsNext ==
    promised # 0 => /\ rd.state = "NEXT"
                    /\ rd.meta = promised /\ rd.held = promised
=============================================================================
