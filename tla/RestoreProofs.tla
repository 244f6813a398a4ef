---------------------------- MODULE RestoreProofs ----------------------------
(***************************************************************************)
(* The theorems about Restore, for any archive, filter and mixture of      *)
(* calls: RestoreClient keeps its types, delivers only whole records,      *)
(* keeps what GetNextMeta promised, and implements SeriesReader: every     *)
(* selected record once, in order, with one end between two series.        *)
(***************************************************************************)
EXTENDS RestoreClient, SequenceTheorems, WellFoundedInduction, TLAPS

-----------------------------------------------------------------------------
(* A set of naturals that is not empty has a minimum, and Min finds it. *)
LEMMA MinFacts ==
    \A S \in SUBSET Nat : S # {} => Min(S) \in S /\ \A i \in S : Min(S) <= i
<1> SUFFICES ASSUME NEW S \in SUBSET Nat, S # {}
             PROVE  Min(S) \in S /\ \A i \in S : Min(S) <= i
  OBVIOUS
<1>1. PICK x \in S : \A y \in S : ~(<<y, x>> \in OpToRel(<, Nat))
  BY NatLessThanWellFounded, WFMin
<1>2. \A y \in S : x <= y
  <2> TAKE y \in S
  <2>1. ~(y < x)
    BY <1>1 DEF OpToRel
  <2> QED
    BY <2>1
<1> QED
  BY <1>2 DEF Min

(* What Min returns is determined by being the least element. *)
LEMMA MinIs ==
    \A S \in SUBSET Nat : \A m \in S : (\A i \in S : m <= i) => Min(S) = m
<1> SUFFICES ASSUME NEW S \in SUBSET Nat, NEW m \in S, \A i \in S : m <= i
             PROVE  Min(S) = m
  OBVIOUS
<1>1. Min(S) \in S /\ \A i \in S : Min(S) <= i
  BY MinFacts
<1>2. Min(S) <= m /\ m <= Min(S) /\ m \in Nat /\ Min(S) \in Nat
  BY <1>1
<1> QED
  BY <1>2

-----------------------------------------------------------------------------
(* A Restore object between two calls, on archive a and under filter f. *)

Archives == [entries : UNION {[1..n -> Entries] : n \in Positions}, torn : BOOLEAN]
Filters == [list : SUBSET Names, skip : SUBSET Names, all : BOOLEAN]
Objects == [state : States, pos : Positions, db : Names \cup {NoName},
            held : Positions, meta : Positions, threw : BOOLEAN]

WantedIn(a, f) ==
    {i \in 1..Len(a.entries) :
        SplitTarPath(a.entries[i]) /\ IsSelected(f, a.entries[i].db)}
Left(a, f, r) ==
    {i \in WantedIn(a, f) : i > r.pos \/ (i = r.pos /\ r.state \in {"NEXT", "DBEND"})}

(* While no call has failed: a loaded record is a selected entry with its  *)
(* data and its ids, and the current database is one the filter allows.    *)
Sound(a, f, r) ==
    /\ r.state \in {"EMPTY", "NEXT", "DBEND", "EOF"}
    /\ r.pos <= Len(a.entries)
    /\ r.db # NoName => IsSelected(f, r.db)
    /\ r.state \in {"NEXT", "DBEND"} =>
          /\ r.pos \in WantedIn(a, f)
          /\ r.db = a.entries[r.pos].db
          /\ r.held = r.pos /\ r.meta = r.pos
    /\ r.state = "EOF" => r.pos = Len(a.entries)

IInv ==
    /\ TypeOK
    /\ phase = "setup" => rd = New /\ series = NoName /\ out = <<>> /\ promised = 0
    /\ phase # "failed" =>
          /\ Sound(archive, filter, rd)
          /\ rd.state \in {"EMPTY", "EOF"} => series = rd.db
          /\ rd.state = "NEXT" => series \in {rd.db, NoName}
          /\ rd.state = "DBEND" => series \notin {rd.db, NoName}
    /\ \A k \in 1..Len(out) : out[k].id \in 1..Len(archive.entries)
    /\ RecordsWhole
    /\ MetaIsNext

-----------------------------------------------------------------------------
(* Facts about archives and objects. *)

LEMMA ArchiveFacts ==
    ASSUME NEW a \in Archives
    PROVE  /\ a.torn \in BOOLEAN
           /\ Len(a.entries) \in Positions
           /\ Len(a.entries) \in Nat
           /\ a.entries \in [1..Len(a.entries) -> Entries]
<1>1. PICK n \in Positions : a.entries \in [1..n -> Entries]
  BY DEF Archives
<1>2. n \in Nat
  BY RestoreAssumption DEF Positions
<1>3. Len(a.entries) = n
  BY <1>1, <1>2
<1> QED
  BY <1>1, <1>2, <1>3 DEF Archives

LEMMA LeftFacts ==
    ASSUME NEW a \in Archives, NEW f, NEW r
    PROVE  /\ Left(a, f, r) \in SUBSET (1..Len(a.entries))
           /\ Left(a, f, r) \in SUBSET Nat
           /\ WantedIn(a, f) \in SUBSET (1..Len(a.entries))
           /\ \A i \in WantedIn(a, f) :
                 /\ i \in Positions /\ i # 0
                 /\ a.entries[i].db \in Names /\ a.entries[i].db # NoName
                 /\ IsSelected(f, a.entries[i].db)
<1>1. /\ Left(a, f, r) \in SUBSET (1..Len(a.entries))
      /\ WantedIn(a, f) \in SUBSET (1..Len(a.entries))
  BY DEF Left, WantedIn
<1>2. Len(a.entries) \in Positions /\ Len(a.entries) \in Nat
      /\ a.entries \in [1..Len(a.entries) -> Entries]
  BY ArchiveFacts
<1>3. ASSUME NEW i \in WantedIn(a, f)
      PROVE  /\ i \in Positions /\ i # 0
             /\ a.entries[i].db \in Names /\ a.entries[i].db # NoName
             /\ IsSelected(f, a.entries[i].db)
  <2>1. i \in 1..Len(a.entries) /\ a.entries[i] \in Entries
    BY <1>1, <1>2
  <2>2. i \in Positions /\ i # 0
    BY <1>2, <2>1, RestoreAssumption DEF Positions
  <2>3. SplitTarPath(a.entries[i]) /\ IsSelected(f, a.entries[i].db)
    BY DEF WantedIn
  <2> QED
    BY <2>1, <2>2, <2>3 DEF SplitTarPath, Entries
<1> QED
  BY <1>1, <1>2, <1>3

(* The search loop of Retrieve stops at the first record that is left. *)
LEMMA HitsAreLeft ==
    ASSUME NEW a \in Archives, NEW f \in Filters, NEW r \in Objects,
           Sound(a, f, r), r.state = "EMPTY"
    PROVE  {i \in (r.pos + 1)..Len(a.entries) : Found(a, f, r, i)} = Left(a, f, r)
<1>1. r.pos \in Nat /\ Len(a.entries) \in Nat
  BY ArchiveFacts, RestoreAssumption DEF Objects, Positions
<1>2. \A i \in 1..Len(a.entries) :
         Found(a, f, r, i) <=> SplitTarPath(a.entries[i]) /\ IsSelected(f, a.entries[i].db)
  BY DEF Found, Sound, SplitTarPath
<1>3. \A i : i \in (r.pos + 1)..Len(a.entries) <=> i \in 1..Len(a.entries) /\ i > r.pos
  BY <1>1
<1> QED
  BY <1>2, <1>3 DEF Left, WantedIn

(* While a record is loaded it is the first one left. *)
LEMMA LoadedIsFirst ==
    ASSUME NEW a \in Archives, NEW f \in Filters, NEW r \in Objects,
           Sound(a, f, r), r.state \in {"NEXT", "DBEND"}
    PROVE  Left(a, f, r) # {} /\ Min(Left(a, f, r)) = r.pos
<1>1. r.pos \in Left(a, f, r)
  BY DEF Left, Sound
<1>2. \A i \in Left(a, f, r) : r.pos <= i
  <2>1. \A i \in Left(a, f, r) : (i > r.pos \/ i = r.pos) /\ i \in Nat
    BY LeftFacts DEF Left
  <2>2. r.pos \in Nat
    BY RestoreAssumption DEF Objects, Positions
  <2> QED
    BY <2>1, <2>2
<1> QED
  BY <1>1, <1>2, MinIs, LeftFacts

(* At the end of the file nothing is left. *)
LEMMA NothingLeftAtEnd ==
    ASSUME NEW a \in Archives, NEW f, NEW r,
           r.pos = Len(a.entries), r.state \notin {"NEXT", "DBEND"}
    PROVE  Left(a, f, r) = {}
<1>1. \A i \in 1..Len(a.entries) : ~(i > r.pos)
  BY ArchiveFacts
<1> QED
  BY <1>1 DEF Left, WantedIn

-----------------------------------------------------------------------------
(* What the methods do, in terms of the records that are left. *)

First(a, f, r) == Min(Left(a, f, r))
FirstDb(a, f, r) == a.entries[First(a, f, r)].db

LEMMA FirstFacts ==
    ASSUME NEW a \in Archives, NEW f, NEW r, Left(a, f, r) # {}
    PROVE  /\ First(a, f, r) \in Left(a, f, r)
           /\ First(a, f, r) \in WantedIn(a, f)
           /\ First(a, f, r) \in 1..Len(a.entries)
           /\ First(a, f, r) \in Positions /\ First(a, f, r) # 0
           /\ FirstDb(a, f, r) \in Names /\ FirstDb(a, f, r) # NoName
           /\ IsSelected(f, FirstDb(a, f, r))
           /\ \A i \in Left(a, f, r) : First(a, f, r) <= i
<1>1. First(a, f, r) \in Left(a, f, r) /\ \A i \in Left(a, f, r) : First(a, f, r) <= i
  BY MinFacts, LeftFacts DEF First
<1>2. First(a, f, r) \in WantedIn(a, f)
  BY <1>1 DEF Left
<1> QED
  BY <1>1, <1>2, LeftFacts DEF FirstDb

(* Retrieve into the object's own buffer, and into the caller's. *)
RetrieveOwn(a, f, r) == Retrieve(a, f, r, TRUE)
RetrieveInto(a, f, r) == Retrieve(a, f, r, FALSE)

(* The object looked ahead to the first record left, unless one was loaded. *)
Searched(a, f, r, q) ==
    /\ q \in Objects
    /\ r.state # "EMPTY" => q = r
    /\ r.state = "EMPTY" /\ Left(a, f, r) # {} =>
          /\ q.state = IF r.db \in {FirstDb(a, f, r), NoName} THEN "NEXT" ELSE "DBEND"
          /\ q.pos = First(a, f, r) /\ q.db = FirstDb(a, f, r)
          /\ q.meta = First(a, f, r) /\ q.threw = r.threw
    /\ r.state = "EMPTY" /\ Left(a, f, r) = {} =>
          /\ q.pos = Len(a.entries) /\ q.db = r.db
          /\ \/ q.threw /\ ~r.threw
             \/ q.threw = r.threw /\ q.state = "EOF"

LEMMA RetrieveOwnFacts ==
    ASSUME NEW a \in Archives, NEW f \in Filters, NEW r \in Objects, Sound(a, f, r)
    PROVE  /\ Searched(a, f, r, RetrieveOwn(a, f, r))
           /\ r.state = "EMPTY" /\ Left(a, f, r) # {} =>
                 RetrieveOwn(a, f, r).held = First(a, f, r)
<1> SUFFICES ASSUME NEW q, q = RetrieveOwn(a, f, r)
             PROVE  /\ Searched(a, f, r, q)
                    /\ r.state = "EMPTY" /\ Left(a, f, r) # {} =>
                          q.held = First(a, f, r)
  OBVIOUS
<1>0. /\ r.state \in States /\ r.pos \in Positions /\ r.db \in Names \cup {NoName}
      /\ r.held \in Positions /\ r.meta \in Positions /\ r.threw \in BOOLEAN
      /\ Len(a.entries) \in Positions /\ 0 \in Positions
  BY ArchiveFacts, RestoreAssumption DEF Objects, Positions
<1>1. CASE r.state # "EMPTY"
  <2>1. q = r
    BY <1>1 DEF RetrieveOwn, Retrieve
  <2> QED
    BY <1>1, <2>1 DEF Searched
<1>2. CASE r.state = "EMPTY" /\ Left(a, f, r) # {}
  <2>1. PICK i, d, st : /\ i = First(a, f, r) /\ d = FirstDb(a, f, r)
                        /\ st = IF d = r.db \/ r.db = NoName THEN "NEXT" ELSE "DBEND"
    OBVIOUS
  <2>2. q = [r EXCEPT !.state = st, !.pos = i, !.db = d, !.meta = i, !.held = i]
    BY <1>2, <2>1, HitsAreLeft DEF RetrieveOwn, Retrieve, First, FirstDb
  <2>3. i \in Positions /\ d \in Names /\ st \in States
    BY <1>2, <2>1, FirstFacts DEF States
  <2>4. /\ q \in Objects /\ q.state = st /\ q.pos = i /\ q.db = d /\ q.meta = i
        /\ q.held = i /\ q.threw = r.threw
    BY <1>0, <2>2, <2>3 DEF Objects
  <2> QED
    BY <1>2, <2>1, <2>4 DEF Searched
<1>3. CASE r.state = "EMPTY" /\ Left(a, f, r) = {} /\ a.torn /\ ~r.threw
  <2>1. q = [r EXCEPT !.state = LeftState(a, r), !.pos = Len(a.entries), !.threw = TRUE,
                      !.held = 0]
    BY <1>3, HitsAreLeft DEF RetrieveOwn, Retrieve
  <2>2. LeftState(a, r) \in States
    BY <1>0 DEF LeftState, States
  <2>3. /\ q \in Objects /\ q.pos = Len(a.entries) /\ q.threw /\ q.db = r.db
    BY <1>0, <2>1, <2>2 DEF Objects
  <2> QED
    BY <1>3, <2>3 DEF Searched
<1>4. CASE r.state = "EMPTY" /\ Left(a, f, r) = {} /\ ~(a.torn /\ ~r.threw)
  <2>1. q = [r EXCEPT !.state = "EOF", !.pos = Len(a.entries), !.held = 0]
    BY <1>4, HitsAreLeft DEF RetrieveOwn, Retrieve
  <2>2. /\ q \in Objects /\ q.pos = Len(a.entries) /\ q.threw = r.threw /\ q.db = r.db
        /\ q.state = "EOF"
    BY <1>0, <2>1 DEF Objects, States
  <2> QED
    BY <1>4, <2>2 DEF Searched
<1> QED
  BY <1>1, <1>2, <1>3, <1>4

LEMMA RetrieveIntoFacts ==
    ASSUME NEW a \in Archives, NEW f \in Filters, NEW r \in Objects, Sound(a, f, r)
    PROVE  Searched(a, f, r, RetrieveInto(a, f, r))
<1> SUFFICES ASSUME NEW q, q = RetrieveInto(a, f, r)
             PROVE  Searched(a, f, r, q)
  OBVIOUS
<1>0. /\ r.state \in States /\ r.pos \in Positions /\ r.db \in Names \cup {NoName}
      /\ r.held \in Positions /\ r.meta \in Positions /\ r.threw \in BOOLEAN
      /\ Len(a.entries) \in Positions /\ 0 \in Positions
  BY ArchiveFacts, RestoreAssumption DEF Objects, Positions
<1>1. CASE r.state # "EMPTY"
  <2>1. q = r
    BY <1>1 DEF RetrieveInto, Retrieve
  <2> QED
    BY <1>1, <2>1 DEF Searched
<1>2. CASE r.state = "EMPTY" /\ Left(a, f, r) # {}
  <2>1. PICK i, d, st : /\ i = First(a, f, r) /\ d = FirstDb(a, f, r)
                        /\ st = IF d = r.db \/ r.db = NoName THEN "NEXT" ELSE "DBEND"
    OBVIOUS
  <2>2. q = [r EXCEPT !.state = st, !.pos = i, !.db = d, !.meta = i, !.held = r.held]
    BY <1>2, <2>1, HitsAreLeft DEF RetrieveInto, Retrieve, First, FirstDb
  <2>3. i \in Positions /\ d \in Names /\ st \in States
    BY <1>2, <2>1, FirstFacts DEF States
  <2>4. /\ q \in Objects /\ q.state = st /\ q.pos = i /\ q.db = d /\ q.meta = i
        /\ q.held = r.held /\ q.threw = r.threw
    BY <1>0, <2>2, <2>3 DEF Objects
  <2> QED
    BY <1>2, <2>1, <2>4 DEF Searched
<1>3. CASE r.state = "EMPTY" /\ Left(a, f, r) = {} /\ a.torn /\ ~r.threw
  <2>1. q = [r EXCEPT !.state = LeftState(a, r), !.pos = Len(a.entries), !.threw = TRUE,
                      !.held = r.held]
    BY <1>3, HitsAreLeft DEF RetrieveInto, Retrieve
  <2>2. LeftState(a, r) \in States
    BY <1>0 DEF LeftState, States
  <2>3. /\ q \in Objects /\ q.pos = Len(a.entries) /\ q.threw /\ q.db = r.db
    BY <1>0, <2>1, <2>2 DEF Objects
  <2> QED
    BY <1>3, <2>3 DEF Searched
<1>4. CASE r.state = "EMPTY" /\ Left(a, f, r) = {} /\ ~(a.torn /\ ~r.threw)
  <2>1. q = [r EXCEPT !.state = "EOF", !.pos = Len(a.entries), !.held = r.held]
    BY <1>4, HitsAreLeft DEF RetrieveInto, Retrieve
  <2>2. /\ q \in Objects /\ q.pos = Len(a.entries) /\ q.threw = r.threw /\ q.db = r.db
        /\ q.state = "EOF"
    BY <1>0, <2>1 DEF Objects, States
  <2> QED
    BY <1>4, <2>2 DEF Searched
<1> QED
  BY <1>1, <1>2, <1>3, <1>4

(* The database the caller is reading goes on, or no database has begun. *)
Continues(a, f, r) ==
    r.state = "NEXT" \/ (r.state = "EMPTY" /\ r.db \in {FirstDb(a, f, r), NoName})

(* The four ways in which BuildRecord and FetchRecord end. *)
Delivered(a, f, r, res) ==
    /\ Left(a, f, r) # {} /\ Continues(a, f, r)
    /\ res.ret = "true"
    /\ res.rec = [db |-> FirstDb(a, f, r), id |-> First(a, f, r), data |-> First(a, f, r)]
    /\ res.obj.state = "EMPTY" /\ res.obj.pos = First(a, f, r)
    /\ res.obj.db = FirstDb(a, f, r)

Ended(a, f, r, res) ==
    /\ Left(a, f, r) # {} /\ ~Continues(a, f, r)
    /\ res.ret = "false"
    /\ res.obj.state = "NEXT" /\ res.obj.pos = First(a, f, r)
    /\ res.obj.db = FirstDb(a, f, r)
    /\ res.obj.held = First(a, f, r) /\ res.obj.meta = First(a, f, r)

Exhausted(a, f, r, res) ==
    /\ Left(a, f, r) = {}
    /\ res.ret = "false"
    /\ res.obj.state = "EOF" /\ res.obj.pos = Len(a.entries) /\ res.obj.db = r.db

Broke(a, f, r, res) ==
    /\ Left(a, f, r) = {} /\ r.state = "EMPTY"
    /\ res.ret = "TarError"

Outcome(a, f, r, res) ==
    /\ res.obj \in Objects
    /\ \/ Delivered(a, f, r, res) \/ Ended(a, f, r, res)
       \/ Exhausted(a, f, r, res) \/ Broke(a, f, r, res)

LEMMA ObjectStates ==
    ASSUME NEW q \in Objects, NEW st \in States
    PROVE  LET o == [q EXCEPT !.state = st]
           IN  /\ o \in Objects /\ o.state = st /\ o.pos = q.pos /\ o.db = q.db
               /\ o.held = q.held /\ o.meta = q.meta /\ o.threw = q.threw
BY DEF Objects

LEMMA LoadedOutcome ==
    ASSUME NEW a \in Archives, NEW f \in Filters, NEW r \in Objects,
           Sound(a, f, r), r.state # "EMPTY"
    PROVE  Outcome(a, f, r, Deliver(r, r, r.held))
<1> SUFFICES ASSUME NEW res, res = Deliver(r, r, r.held)
             PROVE  Outcome(a, f, r, res)
  OBVIOUS
<1>0. ~Throws(r, r) /\ "EMPTY" \in States /\ "NEXT" \in States
  BY DEF Throws, States
<1>1. CASE r.state = "NEXT"
  <2>1. /\ res.ret = "true" /\ res.obj = [r EXCEPT !.state = "EMPTY"]
        /\ res.rec = [db |-> r.db, id |-> r.meta, data |-> r.held]
    BY <1>0, <1>1 DEF Deliver, Record, Nothing
  <2>2. /\ Left(a, f, r) # {} /\ First(a, f, r) = r.pos
        /\ r.db = FirstDb(a, f, r) /\ r.held = r.pos /\ r.meta = r.pos
    BY <1>1, LoadedIsFirst DEF First, FirstDb, Sound
  <2>3. /\ res.obj \in Objects /\ res.obj.state = "EMPTY" /\ res.obj.pos = r.pos
        /\ res.obj.db = r.db
    BY <1>0, <2>1, ObjectStates
  <2>4. Delivered(a, f, r, res)
    BY <1>1, <2>1, <2>2, <2>3 DEF Delivered, Continues
  <2> QED
    BY <2>3, <2>4 DEF Outcome
<1>2. CASE r.state = "DBEND"
  <2>1. res.ret = "false" /\ res.obj = [r EXCEPT !.state = "NEXT"]
    BY <1>0, <1>2 DEF Deliver, Record, Nothing
  <2>2. /\ Left(a, f, r) # {} /\ First(a, f, r) = r.pos
        /\ r.db = FirstDb(a, f, r) /\ r.held = r.pos /\ r.meta = r.pos
    BY <1>2, LoadedIsFirst DEF First, FirstDb, Sound
  <2>3. /\ res.obj \in Objects /\ res.obj.state = "NEXT" /\ res.obj.pos = r.pos
        /\ res.obj.db = r.db /\ res.obj.held = r.held /\ res.obj.meta = r.meta
    BY <1>0, <2>1, ObjectStates
  <2>4. Ended(a, f, r, res)
    BY <1>2, <2>1, <2>2, <2>3 DEF Ended, Continues
  <2> QED
    BY <2>3, <2>4 DEF Outcome
<1>3. CASE r.state = "EOF"
  <2>1. res.ret = "false" /\ res.obj = r
    BY <1>0, <1>3 DEF Deliver, Record, Nothing
  <2>2. Left(a, f, r) = {} /\ r.pos = Len(a.entries)
    BY <1>3, NothingLeftAtEnd DEF Sound
  <2>3. Exhausted(a, f, r, res)
    BY <1>3, <2>1, <2>2 DEF Exhausted
  <2> QED
    BY <2>1, <2>3 DEF Outcome
<1> QED
  BY <1>1, <1>2, <1>3 DEF Sound

LEMMA SearchedOutcome ==
    ASSUME NEW a \in Archives, NEW f \in Filters, NEW r \in Objects,
           Sound(a, f, r), r.state = "EMPTY",
           NEW q \in Objects, NEW data,
           Left(a, f, r) # {} =>
              /\ q.state = IF r.db \in {FirstDb(a, f, r), NoName} THEN "NEXT" ELSE "DBEND"
              /\ q.pos = First(a, f, r) /\ q.db = FirstDb(a, f, r)
              /\ q.meta = First(a, f, r) /\ q.threw = r.threw
              /\ data = First(a, f, r)
              /\ q.state = "DBEND" => q.held = First(a, f, r),
           Left(a, f, r) = {} =>
              /\ q.pos = Len(a.entries) /\ q.db = r.db
              /\ \/ q.threw /\ ~r.threw
                 \/ q.threw = r.threw /\ q.state = "EOF"
    PROVE  Outcome(a, f, r, Deliver(r, q, data))
<1> SUFFICES ASSUME NEW res, res = Deliver(r, q, data)
             PROVE  Outcome(a, f, r, res)
  OBVIOUS
<1>0. "EMPTY" \in States /\ "NEXT" \in States
  BY DEF States
<1>1. CASE Left(a, f, r) # {} /\ q.state = "NEXT"
  <2>1. ~Throws(r, q)
    BY <1>1 DEF Throws
  <2>2. /\ res.ret = "true" /\ res.obj = [q EXCEPT !.state = "EMPTY"]
        /\ res.rec = [db |-> q.db, id |-> q.meta, data |-> data]
    BY <1>1, <2>1 DEF Deliver, Record, Nothing
  <2>3. /\ res.obj \in Objects /\ res.obj.state = "EMPTY" /\ res.obj.pos = q.pos
        /\ res.obj.db = q.db
    BY <1>0, <2>2, ObjectStates
  <2>4. Delivered(a, f, r, res)
    BY <1>1, <2>2, <2>3 DEF Delivered, Continues
  <2> QED
    BY <2>3, <2>4 DEF Outcome
<1>2. CASE Left(a, f, r) # {} /\ q.state = "DBEND"
  <2>1. ~Throws(r, q)
    BY <1>2 DEF Throws
  <2>2. res.ret = "false" /\ res.obj = [q EXCEPT !.state = "NEXT"]
    BY <1>2, <2>1 DEF Deliver, Record, Nothing
  <2>3. /\ res.obj \in Objects /\ res.obj.state = "NEXT" /\ res.obj.pos = q.pos
        /\ res.obj.db = q.db /\ res.obj.held = q.held /\ res.obj.meta = q.meta
    BY <1>0, <2>2, ObjectStates
  <2>4. Ended(a, f, r, res)
    BY <1>2, <2>2, <2>3 DEF Ended, Continues
  <2> QED
    BY <2>3, <2>4 DEF Outcome
<1>3. CASE Left(a, f, r) = {} /\ Throws(r, q)
  <2>1. res.ret = "TarError" /\ res.obj = q
    BY <1>3 DEF Deliver, Record, Nothing
  <2> QED
    BY <1>3, <2>1 DEF Outcome, Broke
<1>4. CASE Left(a, f, r) = {} /\ ~Throws(r, q)
  <2>1. q.state = "EOF" /\ q.pos = Len(a.entries) /\ q.db = r.db
    BY <1>4 DEF Throws
  <2>2. res.ret = "false" /\ res.obj = q
    BY <1>4, <2>1 DEF Deliver, Record, Nothing
  <2> QED
    BY <1>4, <2>1, <2>2 DEF Outcome, Exhausted
<1> QED
  BY <1>1, <1>2, <1>3, <1>4

LEMMA BuildOutcome ==
    ASSUME NEW a \in Archives, NEW f \in Filters, NEW r \in Objects, Sound(a, f, r)
    PROVE  Outcome(a, f, r, BuildRecord(a, f, r))
<1>1. PICK q : q = RetrieveOwn(a, f, r)
  OBVIOUS
<1>2. BuildRecord(a, f, r) = Deliver(r, q, q.held)
  BY <1>1 DEF BuildRecord, RetrieveOwn
<1>3. /\ Searched(a, f, r, q)
      /\ r.state = "EMPTY" /\ Left(a, f, r) # {} => q.held = First(a, f, r)
  BY <1>1, RetrieveOwnFacts
<1>4. CASE r.state # "EMPTY"
  <2>1. q = r
    BY <1>3, <1>4 DEF Searched
  <2> QED
    BY <1>2, <1>4, <2>1, LoadedOutcome
<1>5. CASE r.state = "EMPTY"
  BY <1>2, <1>3, <1>5, SearchedOutcome DEF Searched
<1> QED
  BY <1>4, <1>5

LEMMA FetchOutcome ==
    ASSUME NEW a \in Archives, NEW f \in Filters, NEW r \in Objects, Sound(a, f, r)
    PROVE  Outcome(a, f, r, FetchRecord(a, f, r))
<1>1. PICK q : q = RetrieveInto(a, f, r)
  OBVIOUS
<1>2. CASE r.state # "EMPTY"
  BY <1>2, LoadedOutcome DEF FetchRecord
<1>3. CASE r.state = "EMPTY"
  <2>1. Searched(a, f, r, q)
    BY <1>1, RetrieveIntoFacts
  <2>2. PICK kept :
           kept = IF q.state = "DBEND" /\ ~Throws(r, q) THEN [q EXCEPT !.held = q.pos] ELSE q
    OBVIOUS
  <2>3. FetchRecord(a, f, r) = Deliver(r, kept, q.pos)
    BY <1>1, <1>3, <2>2 DEF FetchRecord, RetrieveInto
  <2>4. /\ kept \in Objects /\ kept.state = q.state /\ kept.pos = q.pos /\ kept.db = q.db
        /\ kept.meta = q.meta /\ kept.threw = q.threw
        /\ q.state = "DBEND" /\ ~Throws(r, q) => kept.held = q.pos
    BY <2>1, <2>2 DEF Objects, Searched
  <2>5. Left(a, f, r) # {} => ~Throws(r, q)
    BY <1>3, <2>1 DEF Throws, Searched
  <2> QED
    BY <1>3, <2>1, <2>3, <2>4, <2>5, SearchedOutcome DEF Searched
<1> QED
  BY <1>2, <1>3

(* While records are left, looking ahead loads the first one of them. *)
LEMMA LookAhead ==
    ASSUME NEW a \in Archives, NEW f \in Filters, NEW r \in Objects, Sound(a, f, r),
           Left(a, f, r) # {}, NEW q, q = RetrieveOwn(a, f, r)
    PROVE  /\ q \in Objects /\ ~Throws(r, q)
           /\ q.state = IF Continues(a, f, r) THEN "NEXT" ELSE "DBEND"
           /\ q.pos = First(a, f, r) /\ q.db = FirstDb(a, f, r)
           /\ q.held = First(a, f, r) /\ q.meta = First(a, f, r)
<1>1. /\ Searched(a, f, r, q)
      /\ r.state = "EMPTY" /\ Left(a, f, r) # {} => q.held = First(a, f, r)
  BY RetrieveOwnFacts
<1>2. CASE r.state = "EMPTY"
  BY <1>1, <1>2 DEF Searched, Throws, Continues
<1>3. CASE r.state = "EOF"
  BY <1>3, NothingLeftAtEnd DEF Sound
<1>4. CASE r.state \in {"NEXT", "DBEND"}
  <2>1. q = r /\ First(a, f, r) = r.pos
    BY <1>1, <1>4, LoadedIsFirst DEF Searched, First
  <2> QED
    BY <1>4, <2>1 DEF Sound, FirstDb, Throws, Continues
<1> QED
  BY <1>2, <1>3, <1>4 DEF Sound

(* Once nothing is left, looking ahead fails or finds the end of the file. *)
LEMMA LookPastEnd ==
    ASSUME NEW a \in Archives, NEW f \in Filters, NEW r \in Objects, Sound(a, f, r),
           Left(a, f, r) = {}, NEW q, q = RetrieveOwn(a, f, r)
    PROVE  /\ q \in Objects /\ q.pos = Len(a.entries) /\ q.db = r.db
           /\ Throws(r, q) \/ q.state = "EOF"
<1>1. Searched(a, f, r, q)
  BY RetrieveOwnFacts
<1>2. CASE r.state = "EMPTY"
  BY <1>1, <1>2 DEF Searched, Throws
<1>3. CASE r.state = "EOF"
  BY <1>1, <1>3 DEF Searched, Sound
<1>4. CASE r.state \in {"NEXT", "DBEND"}
  BY <1>4, LoadedIsFirst
<1> QED
  BY <1>2, <1>3, <1>4 DEF Sound

(* s is the database that SkipCurrentDB skips: the one the caller reads, or *)
(* the first one if it has read nothing yet.                                *)
Skips(a, f, r, s) ==
    /\ Left(a, f, r) = {} => s = r.db
    /\ Left(a, f, r) # {} => (s = FirstDb(a, f, r) <=> Continues(a, f, r))
Later(a, f, r, s) == {i \in Left(a, f, r) : a.entries[i].db # s}

Skipped(a, f, r, s, q) ==
    /\ q \in Objects
    /\ Later(a, f, r, s) # {} =>
          /\ q.state = "NEXT" /\ q.pos = Min(Later(a, f, r, s)) /\ q.db = a.entries[q.pos].db
          /\ q.held = q.pos /\ q.meta = q.pos
    /\ Later(a, f, r, s) = {} =>
          q.state = "EOF" /\ q.pos = Len(a.entries) /\ q.db = s

LEMMA SkipOutcome ==
    ASSUME NEW a \in Archives, NEW f \in Filters, NEW r \in Objects, Sound(a, f, r),
           NEW s, Skips(a, f, r, s)
    PROVE  Skipped(a, f, r, s, SkipCurrentDB(a, f, r))
<1>1. PICK first : first = RetrieveOwn(a, f, r)
  OBVIOUS
<1>2. PICK others : others = {i \in (first.pos + 1)..Len(a.entries) :
                                 Found(a, f, first, i) /\ a.entries[i].db # first.db}
  OBVIOUS
<1>3. PICK q, z : q = SkipLoop(a, f, r) /\ z = SkipCurrentDB(a, f, r)
  OBVIOUS
<1>4. z = IF q.state = "DBEND" THEN [q EXCEPT !.state = "NEXT"] ELSE q
  BY <1>3 DEF SkipCurrentDB
<1>5. "NEXT" \in States /\ "EOF" \in States /\ "DBEND" \in States
  BY DEF States
<1>6. CASE Left(a, f, r) = {}
  <2>1. first \in Objects /\ first.db = r.db /\ (Throws(r, first) \/ first.state = "EOF")
    BY <1>1, <1>6, LookPastEnd
  <2>2. q = [first EXCEPT !.state = "EOF", !.pos = Len(a.entries)]
    BY <1>1, <1>3, <2>1 DEF SkipLoop, RetrieveOwn
  <2>3. q \in Objects /\ q.state = "EOF" /\ q.pos = Len(a.entries) /\ q.db = r.db
    BY <1>5, <2>1, <2>2, ArchiveFacts DEF Objects
  <2>4. Later(a, f, r, s) = {} /\ s = r.db
    BY <1>6 DEF Later, Skips
  <2> QED
    BY <1>3, <1>4, <2>3, <2>4 DEF Skipped
<1>7. CASE Left(a, f, r) # {} /\ ~Continues(a, f, r)
  <2>1. /\ first \in Objects /\ ~Throws(r, first) /\ first.state = "DBEND"
        /\ first.pos = First(a, f, r) /\ first.db = FirstDb(a, f, r)
        /\ first.held = First(a, f, r) /\ first.meta = First(a, f, r)
    BY <1>1, <1>7, LookAhead
  <2>2. q = first
    BY <1>1, <1>3, <2>1 DEF SkipLoop, RetrieveOwn
  <2>3. z = [first EXCEPT !.state = "NEXT"]
    BY <1>4, <2>1, <2>2
  <2>4. /\ z \in Objects /\ z.state = "NEXT" /\ z.pos = First(a, f, r)
        /\ z.db = FirstDb(a, f, r) /\ z.held = First(a, f, r) /\ z.meta = First(a, f, r)
    BY <1>5, <2>1, <2>3 DEF Objects
  <2>5. /\ First(a, f, r) \in Later(a, f, r, s)
        /\ \A i \in Later(a, f, r, s) : First(a, f, r) <= i
    BY <1>7, FirstFacts DEF Later, Skips, FirstDb
  <2>6. Min(Later(a, f, r, s)) = First(a, f, r)
    <3>1. Later(a, f, r, s) \in SUBSET Nat
      BY LeftFacts DEF Later
    <3> QED
      BY <2>5, <3>1, MinIs
  <2> QED
    BY <1>3, <2>4, <2>5, <2>6 DEF Skipped, FirstDb
<1>8. CASE Left(a, f, r) # {} /\ Continues(a, f, r)
  <2>1. /\ first \in Objects /\ ~Throws(r, first) /\ first.state = "NEXT"
        /\ first.pos = First(a, f, r) /\ first.db = FirstDb(a, f, r)
    BY <1>1, <1>8, LookAhead
  <2>2. s = FirstDb(a, f, r)
    BY <1>8 DEF Skips
  <2>3. others = Later(a, f, r, s)
    <3>1. others \subseteq Later(a, f, r, s)
      <4> SUFFICES ASSUME NEW i \in others PROVE i \in Later(a, f, r, s)
        OBVIOUS
      <4>1. /\ i \in (First(a, f, r) + 1)..Len(a.entries) /\ a.entries[i].db # s
            /\ Found(a, f, first, i)
        BY <1>2, <2>1, <2>2
      <4>2. First(a, f, r) \in Left(a, f, r) /\ First(a, f, r) \in 1..Len(a.entries)
            /\ Len(a.entries) \in Nat /\ r.pos \in Nat
        BY <1>8, FirstFacts, ArchiveFacts, RestoreAssumption DEF Objects, Positions
      <4>3. i \in 1..Len(a.entries) /\ i > r.pos
        BY <4>1, <4>2 DEF Left
      <4>4. SplitTarPath(a.entries[i]) /\ IsSelected(f, a.entries[i].db)
        BY <2>1, <2>2, <4>1 DEF Found
      <4> QED
        BY <4>1, <4>3, <4>4 DEF Later, Left, WantedIn
    <3>2. Later(a, f, r, s) \subseteq others
      <4> SUFFICES ASSUME NEW i \in Later(a, f, r, s) PROVE i \in others
        OBVIOUS
      <4>1. i \in Left(a, f, r) /\ a.entries[i].db # s /\ i \in WantedIn(a, f)
        BY DEF Later, Left
      <4>2. First(a, f, r) <= i /\ i \in 1..Len(a.entries) /\ First(a, f, r) \in Nat
            /\ i # First(a, f, r)
        BY <1>8, <2>2, <4>1, FirstFacts, LeftFacts DEF FirstDb
      <4>3. i \in (First(a, f, r) + 1)..Len(a.entries)
        BY <4>2, ArchiveFacts
      <4>4. SplitTarPath(a.entries[i]) /\ IsSelected(f, a.entries[i].db)
        BY <4>1 DEF WantedIn
      <4> QED
        BY <1>2, <2>1, <2>2, <4>1, <4>3, <4>4 DEF Found
    <3> QED
      BY <3>1, <3>2
  <2>4. CASE Later(a, f, r, s) # {}
    <3>1. PICK m : m = Min(Later(a, f, r, s))
      OBVIOUS
    <3>2. m \in WantedIn(a, f)
      <4>1. Later(a, f, r, s) \in SUBSET Nat
        BY LeftFacts DEF Later
      <4>2. m \in Later(a, f, r, s)
        BY <2>4, <3>1, <4>1, MinFacts
      <4> QED
        BY <4>2 DEF Later, Left
    <3>3. m \in Positions /\ a.entries[m].db \in Names
      BY <3>2, LeftFacts
    <3>4. q = [first EXCEPT !.state = "DBEND", !.pos = m, !.held = m, !.meta = m,
                            !.db = a.entries[m].db]
      BY <1>1, <1>2, <1>3, <2>1, <2>3, <2>4, <3>1 DEF SkipLoop, RetrieveOwn
    <3>5. /\ q \in Objects /\ q.state = "DBEND" /\ q.pos = m /\ q.held = m /\ q.meta = m
          /\ q.db = a.entries[m].db
      BY <1>5, <2>1, <3>3, <3>4 DEF Objects
    <3>6. z = [q EXCEPT !.state = "NEXT"]
      BY <1>4, <3>5
    <3>7. /\ z \in Objects /\ z.state = "NEXT" /\ z.pos = m /\ z.held = m /\ z.meta = m
          /\ z.db = a.entries[m].db
      BY <1>5, <3>5, <3>6 DEF Objects
    <3> QED
      BY <1>3, <2>4, <3>1, <3>7 DEF Skipped
  <2>5. CASE Later(a, f, r, s) = {}
    <3>1. q = [first EXCEPT !.state = "EOF", !.pos = Len(a.entries)]
      BY <1>1, <1>2, <1>3, <2>1, <2>3, <2>5 DEF SkipLoop, RetrieveOwn
    <3>2. q \in Objects /\ q.state = "EOF" /\ q.pos = Len(a.entries) /\ q.db = s
      BY <1>5, <2>1, <2>2, <3>1, ArchiveFacts DEF Objects
    <3> QED
      BY <1>3, <1>4, <2>5, <3>2 DEF Skipped
  <2> QED
    BY <2>4, <2>5
<1> QED
  BY <1>6, <1>7, <1>8

-----------------------------------------------------------------------------
(* The records left after a call, and the object it leaves. *)

LEMMA LeftFrom ==
    ASSUME NEW a \in Archives, NEW f, NEW r \in Objects, NEW m \in Left(a, f, r)
    PROVE  /\ {i \in Left(a, f, r) : i >= m} = {i \in WantedIn(a, f) : i >= m}
           /\ {i \in Left(a, f, r) : i > m} = {i \in WantedIn(a, f) : i > m}
<1>1. /\ WantedIn(a, f) \in SUBSET Nat /\ r.pos \in Nat /\ m \in Nat
      /\ m > r.pos \/ (m = r.pos /\ r.state \in {"NEXT", "DBEND"})
  BY LeftFacts, RestoreAssumption DEF Left, Objects, Positions
<1>2. \A i \in WantedIn(a, f) : i >= m => i \in Left(a, f, r)
  <2> TAKE i \in WantedIn(a, f)
  <2> HAVE i >= m
  <2>1. i \in Nat
    BY <1>1
  <2>2. i > r.pos \/ (i = r.pos /\ r.state \in {"NEXT", "DBEND"})
    BY <1>1, <2>1
  <2> QED
    BY <2>2 DEF Left
<1>3. \A i \in WantedIn(a, f) : i > m => i >= m
  BY <1>1
<1>4. Left(a, f, r) \subseteq WantedIn(a, f)
  BY DEF Left
<1> QED
  BY <1>2, <1>3, <1>4

(* After a record was delivered. *)
LEMMA LeftDelivered ==
    ASSUME NEW a \in Archives, NEW f \in Filters, NEW r \in Objects, Left(a, f, r) # {},
           NEW q \in Objects, q.state = "EMPTY", q.pos = First(a, f, r),
           q.db = FirstDb(a, f, r)
    PROVE  Sound(a, f, q) /\ Left(a, f, q) = Left(a, f, r) \ {First(a, f, r)}
<1>1. PICK m : m = First(a, f, r)
  OBVIOUS
<1>2. /\ m \in Left(a, f, r) /\ m \in 1..Len(a.entries) /\ \A i \in Left(a, f, r) : m <= i
      /\ IsSelected(f, FirstDb(a, f, r))
  BY <1>1, FirstFacts
<1>3. Sound(a, f, q)
  BY <1>1, <1>2, ArchiveFacts DEF Sound
<1>4. Left(a, f, q) = {i \in WantedIn(a, f) : i > m}
  BY <1>1 DEF Left
<1>5. Left(a, f, q) = {i \in Left(a, f, r) : i > m}
  BY <1>2, <1>4, LeftFrom
<1>6. \A i \in Left(a, f, r) : i > m <=> i # m
  BY <1>2, LeftFacts
<1> QED
  BY <1>1, <1>3, <1>5, <1>6

(* With a record loaded that was left. *)
LEMMA LeftLoaded ==
    ASSUME NEW a \in Archives, NEW f \in Filters, NEW r \in Objects,
           NEW m \in Left(a, f, r),
           NEW q \in Objects, q.state \in {"NEXT", "DBEND"}, q.pos = m,
           q.db = a.entries[m].db, q.held = m, q.meta = m
    PROVE  Sound(a, f, q) /\ Left(a, f, q) = {i \in Left(a, f, r) : i >= m}
<1>1. /\ m \in WantedIn(a, f) /\ m \in 1..Len(a.entries) /\ IsSelected(f, q.db)
      /\ WantedIn(a, f) \in SUBSET Nat /\ m \in Nat
  BY LeftFacts DEF Left
<1>2. Sound(a, f, q)
  BY <1>1, ArchiveFacts DEF Sound
<1>3. Left(a, f, q) = {i \in WantedIn(a, f) : i >= m}
  BY <1>1 DEF Left
<1> QED
  BY <1>2, <1>3, LeftFrom

LEMMA LeftFirstLoaded ==
    ASSUME NEW a \in Archives, NEW f \in Filters, NEW r \in Objects, Left(a, f, r) # {},
           NEW q \in Objects, q.state \in {"NEXT", "DBEND"}, q.pos = First(a, f, r),
           q.db = FirstDb(a, f, r), q.held = First(a, f, r), q.meta = First(a, f, r)
    PROVE  Sound(a, f, q) /\ Left(a, f, q) = Left(a, f, r)
<1>1. PICK m : m = First(a, f, r)
  OBVIOUS
<1>2. /\ m \in Left(a, f, r) /\ m \in Nat
      /\ \A i \in Left(a, f, r) : m <= i /\ i \in Nat
  BY <1>1, FirstFacts, LeftFacts
<1>3. Sound(a, f, q) /\ Left(a, f, q) = {i \in Left(a, f, r) : i >= m}
  BY <1>1, <1>2, LeftLoaded DEF FirstDb
<1>4. \A i \in Left(a, f, r) : i >= m
  BY <1>2
<1> QED
  BY <1>3, <1>4

LEMMA LeftAtEnd ==
    ASSUME NEW a \in Archives, NEW f \in Filters, NEW q \in Objects,
           q.state = "EOF", q.pos = Len(a.entries), q.db # NoName => IsSelected(f, q.db)
    PROVE  Sound(a, f, q) /\ Left(a, f, q) = {}
BY NothingLeftAtEnd, ArchiveFacts DEF Sound

-----------------------------------------------------------------------------
(* The inductive invariant. *)

LEMMA ObjectTypes == TypeOK => archive \in Archives /\ filter \in Filters /\ rd \in Objects
BY DEF TypeOK, Archives, Filters, Objects

(* What the caller reads, told from the records that are left. *)
LEMMA CurrentSeries ==
    ASSUME IInv, phase # "failed"
    PROVE  /\ Left(archive, filter, rd) = {} =>
                 series = rd.db /\ rd.state \in {"EMPTY", "EOF"} /\ promised = 0
           /\ Left(archive, filter, rd) # {} =>
                 /\ Continues(archive, filter, rd)
                       <=> series \in {FirstDb(archive, filter, rd), NoName}
                 /\ promised # 0 => Continues(archive, filter, rd)
<1>1. archive \in Archives /\ filter \in Filters /\ rd \in Objects
  BY ObjectTypes DEF IInv
<1>2. Sound(archive, filter, rd)
  BY DEF IInv
<1>3. promised # 0 => rd.state = "NEXT"
  BY DEF IInv, MetaIsNext
<1>4. CASE rd.state \in {"NEXT", "DBEND"}
  <2>1. /\ Left(archive, filter, rd) # {} /\ First(archive, filter, rd) = rd.pos
        /\ FirstDb(archive, filter, rd) = rd.db
    BY <1>1, <1>2, <1>4, LoadedIsFirst DEF First, FirstDb, Sound
  <2>2. rd.state = "NEXT" <=> series \in {rd.db, NoName}
    BY <1>4 DEF IInv
  <2> QED
    BY <1>3, <1>4, <2>1, <2>2 DEF Continues
<1>5. CASE rd.state = "EMPTY"
  <2>1. series = rd.db
    BY <1>5 DEF IInv
  <2> QED
    BY <1>3, <1>5, <2>1 DEF Continues
<1>6. CASE rd.state = "EOF"
  <2>1. series = rd.db /\ Left(archive, filter, rd) = {}
    BY <1>1, <1>2, <1>6, NothingLeftAtEnd DEF IInv, Sound
  <2> QED
    BY <1>3, <1>6, <2>1
<1> QED
  BY <1>2, <1>4, <1>5, <1>6 DEF Sound

LEMMA InitHolds == Init => IInv
<1> SUFFICES ASSUME Init PROVE IInv
  OBVIOUS
<1>1. TypeOK
  BY RestoreAssumption DEF Init, TypeOK, New, States, Positions
<1>2. archive \in Archives
  BY <1>1, ObjectTypes
<1>3. Sound(archive, filter, rd)
  BY <1>2, ArchiveFacts DEF Init, New, Sound
<1> QED
  BY <1>1, <1>3 DEF Init, IInv, New, RecordsWhole, MetaIsNext

LEMMA SetupKeeps ==
    ASSUME IInv, NEW d \in Names, AddDB(d) \/ AddSkipDB(d)
    PROVE  IInv'
<1>1. /\ phase = "setup" /\ UNCHANGED <<archive, rd, phase, series, out, promised>>
      /\ filter' \in [list : SUBSET Names, skip : SUBSET Names, all : BOOLEAN]
  BY DEF IInv, TypeOK, AddDB, AddSkipDB
<1>2. TypeOK'
  BY <1>1 DEF IInv, TypeOK
<1>3. archive \in Archives
  BY ObjectTypes DEF IInv
<1>4. rd = New
  BY <1>1 DEF IInv
<1>5. Sound(archive, filter, rd)'
  BY <1>1, <1>3, <1>4, ArchiveFacts DEF New, Sound
<1> QED
  BY <1>1, <1>2, <1>4, <1>5 DEF IInv, New, RecordsWhole, MetaIsNext

(* What a call does to the client, told by its outcome. *)
Moved ==
    /\ archive' = archive /\ filter' = filter
    /\ rd' \in Objects

LEMMA MovedType ==
    ASSUME IInv, Moved, phase' \in {"reading", "failed"},
           series' \in Names \cup {NoName}, out' \in Seq(Records), promised' \in Positions
    PROVE  TypeOK'
BY DEF IInv, TypeOK, Moved, Objects

LEMMA DeliveredStep ==
    ASSUME IInv, phase # "failed", NEW res, Returned(res), res.obj \in Objects,
           Delivered(archive, filter, rd, res)
    PROVE  /\ IInv' /\ phase' = "reading"
           /\ Left(archive, filter, rd)' =
                 Left(archive, filter, rd) \ {First(archive, filter, rd)}
           /\ series' = FirstDb(archive, filter, rd)
           /\ out' = Append(out, res.rec) /\ res.rec.id = First(archive, filter, rd)
<1>1. archive \in Archives /\ filter \in Filters /\ rd \in Objects /\ out \in Seq(Records)
  BY ObjectTypes DEF IInv, TypeOK
<1>2. PICK m, d : m = First(archive, filter, rd) /\ d = FirstDb(archive, filter, rd)
  OBVIOUS
<1>3. /\ Left(archive, filter, rd) # {} /\ res.ret = "true"
      /\ res.rec = [db |-> d, id |-> m, data |-> m]
      /\ res.obj.state = "EMPTY" /\ res.obj.pos = m /\ res.obj.db = d
  BY <1>2 DEF Delivered
<1>4. /\ m \in Positions /\ m \in 1..Len(archive.entries) /\ d \in Names
      /\ d = archive.entries[m].db
  BY <1>1, <1>2, <1>3, FirstFacts DEF FirstDb
<1>5. /\ Moved /\ rd' = res.obj /\ phase' = "reading" /\ promised' = 0
      /\ out' = Append(out, res.rec) /\ series' = d
  BY <1>3 DEF Returned, SeriesAt, Moved
<1>6. Sound(archive, filter, rd)' /\ Left(archive, filter, rd)' = Left(archive, filter, rd) \ {m}
  BY <1>1, <1>2, <1>3, <1>5, LeftDelivered DEF Moved
<1>7. /\ res.rec \in Records /\ res.rec.id = m /\ res.rec.data = m /\ res.rec.db = d
  BY <1>3, <1>4 DEF Records
<1>8. /\ out' \in Seq(Records) /\ Len(out') = Len(out) + 1 /\ Len(out) \in Nat
      /\ \A k \in 1..Len(out) : out'[k] = out[k]
      /\ out'[Len(out) + 1] = res.rec
  BY <1>1, <1>5, <1>7
<1>9. TypeOK'
  BY <1>4, <1>5, <1>8, MovedType, RestoreAssumption DEF Positions
<1>10. \A k \in 1..Len(out') : k \in 1..Len(out) \/ k = Len(out) + 1
  BY <1>8
<1>11. (\A k \in 1..Len(out) : out[k].id \in 1..Len(archive.entries)) /\ RecordsWhole
  BY DEF IInv
<1>12. \A k \in 1..Len(out') : out'[k].id \in 1..Len(archive.entries)
  BY <1>4, <1>7, <1>8, <1>10, <1>11
<1>13. RecordsWhole'
  BY <1>4, <1>5, <1>7, <1>8, <1>10, <1>11 DEF RecordsWhole, Moved
<1> QED
  BY <1>2, <1>3, <1>5, <1>6, <1>7, <1>9, <1>12, <1>13 DEF IInv, MetaIsNext, Moved

(* After a call that delivers nothing, but leaves the object in order. *)
LEMMA OthersKept ==
    ASSUME IInv, Moved, TypeOK', out' = out, phase' = "reading", Sound(archive, filter, rd)',
           (rd.state \in {"EMPTY", "EOF"} => series = rd.db)',
           (rd.state = "NEXT" => series \in {rd.db, NoName})',
           (rd.state = "DBEND" => series \notin {rd.db, NoName})',
           MetaIsNext'
    PROVE  IInv'
BY DEF IInv, Moved, RecordsWhole

LEMMA FailedKept ==
    ASSUME IInv, Moved, TypeOK', out' = out, phase' = "failed", promised' = 0
    PROVE  IInv'
BY DEF IInv, Moved, RecordsWhole, MetaIsNext

LEMMA EndedStep ==
    ASSUME IInv, phase # "failed", NEW res, Returned(res), res.obj \in Objects,
           Ended(archive, filter, rd, res)
    PROVE  /\ IInv' /\ phase' = "reading" /\ out' = out
           /\ Left(archive, filter, rd)' = Left(archive, filter, rd)
           /\ series' = FirstDb(archive, filter, rd)
<1>1. archive \in Archives /\ filter \in Filters /\ rd \in Objects /\ out \in Seq(Records)
  BY ObjectTypes DEF IInv, TypeOK
<1>2. PICK m, d : m = First(archive, filter, rd) /\ d = FirstDb(archive, filter, rd)
  OBVIOUS
<1>3. /\ Left(archive, filter, rd) # {} /\ res.ret = "false"
      /\ ~Continues(archive, filter, rd)
      /\ res.obj.state = "NEXT" /\ res.obj.pos = m /\ res.obj.db = d
      /\ res.obj.held = m /\ res.obj.meta = m
  BY <1>2 DEF Ended
<1>4. d \in Names /\ promised = 0
  BY <1>1, <1>2, <1>3, FirstFacts, CurrentSeries
<1>5. /\ Moved /\ rd' = res.obj /\ phase' = "reading" /\ promised' = 0
      /\ out' = out /\ series' = d
  BY <1>3, <1>4 DEF Returned, SeriesAt, Moved
<1>6. Sound(archive, filter, rd)' /\ Left(archive, filter, rd)' = Left(archive, filter, rd)
  BY <1>1, <1>2, <1>3, <1>5, LeftFirstLoaded DEF Moved
<1>7. TypeOK'
  BY <1>1, <1>4, <1>5, MovedType, RestoreAssumption DEF Positions
<1>8. rd'.state = "NEXT" /\ series' = rd'.db /\ promised' = 0
  BY <1>3, <1>5
<1>9. IInv'
  BY <1>5, <1>6, <1>7, <1>8, OthersKept DEF MetaIsNext
<1> QED
  BY <1>2, <1>5, <1>6, <1>9

LEMMA ExhaustedStep ==
    ASSUME IInv, phase # "failed", NEW res, Returned(res), res.obj \in Objects,
           Exhausted(archive, filter, rd, res)
    PROVE  /\ IInv' /\ phase' = "reading" /\ out' = out
           /\ Left(archive, filter, rd) = {} /\ Left(archive, filter, rd)' = {}
           /\ series' = series
<1>1. archive \in Archives /\ filter \in Filters /\ rd \in Objects /\ out \in Seq(Records)
  BY ObjectTypes DEF IInv, TypeOK
<1>2. /\ Left(archive, filter, rd) = {} /\ res.ret = "false"
      /\ res.obj.state = "EOF" /\ res.obj.pos = Len(archive.entries) /\ res.obj.db = rd.db
  BY DEF Exhausted
<1>3. series = rd.db /\ promised = 0 /\ Sound(archive, filter, rd)
  BY <1>2, CurrentSeries DEF IInv
<1>4. /\ Moved /\ rd' = res.obj /\ phase' = "reading" /\ promised' = 0
      /\ out' = out /\ series' = series
  BY <1>2, <1>3 DEF Returned, SeriesAt, Moved
<1>5. Sound(archive, filter, rd)' /\ Left(archive, filter, rd)' = {}
  BY <1>1, <1>2, <1>3, <1>4, LeftAtEnd DEF Moved, Sound
<1>6. TypeOK'
  BY <1>1, <1>4, MovedType, RestoreAssumption DEF Positions, IInv, TypeOK
<1>7. rd'.state = "EOF" /\ series' = rd'.db /\ promised' = 0
  BY <1>2, <1>3, <1>4
<1>8. IInv'
  BY <1>4, <1>5, <1>6, <1>7, OthersKept DEF MetaIsNext
<1> QED
  BY <1>2, <1>4, <1>5, <1>8

LEMMA BrokeStep ==
    ASSUME IInv, phase # "failed", NEW res, Returned(res), res.obj \in Objects,
           Broke(archive, filter, rd, res)
    PROVE  /\ IInv' /\ phase' = "failed" /\ out' = out
           /\ Left(archive, filter, rd) = {} /\ series' = series
<1>1. Left(archive, filter, rd) = {} /\ res.ret = "TarError" /\ promised = 0
  BY CurrentSeries DEF Broke
<1>2. /\ Moved /\ phase' = "failed" /\ promised' = 0 /\ out' = out /\ series' = series
  BY <1>1 DEF Returned, Moved
<1>3. TypeOK'
  BY <1>2, MovedType, RestoreAssumption DEF Positions, IInv, TypeOK
<1> QED
  BY <1>1, <1>2, <1>3, FailedKept

LEMMA MetaStep ==
    ASSUME IInv, CallGetNextMeta
    PROVE  /\ IInv' /\ phase' \in {"reading", "failed"} /\ out' = out /\ series' = series
           /\ archive' = archive
           /\ phase' = "reading" =>
                 Left(archive, filter, rd)' = Left(archive, filter, rd)
           /\ phase' = "failed" => Left(archive, filter, rd) = {}
<1>1. archive \in Archives /\ filter \in Filters /\ rd \in Objects /\ phase # "failed"
      /\ Sound(archive, filter, rd)
  BY ObjectTypes DEF IInv, CallGetNextMeta
<1>2. PICK q : q = RetrieveOwn(archive, filter, rd)
  OBVIOUS
<1>3. /\ archive' = archive /\ filter' = filter /\ rd' = q /\ out' = out /\ series' = series
      /\ phase' = IF Throws(rd, q) THEN "failed" ELSE "reading"
      /\ promised' = IF ~Throws(rd, q) /\ HasMeta(q) THEN q.meta ELSE promised
  BY <1>2 DEF CallGetNextMeta, GetNextMeta, RetrieveOwn
<1>4. series \in Names \cup {NoName} /\ out \in Seq(Records) /\ 0 \in Positions
  BY RestoreAssumption DEF IInv, TypeOK, Positions
<1>5. CASE Left(archive, filter, rd) # {}
  <2>1. PICK m, d : m = First(archive, filter, rd) /\ d = FirstDb(archive, filter, rd)
    OBVIOUS
  <2>2. /\ q \in Objects /\ ~Throws(rd, q)
        /\ q.state = IF Continues(archive, filter, rd) THEN "NEXT" ELSE "DBEND"
        /\ q.pos = m /\ q.db = d /\ q.held = m /\ q.meta = m
    BY <1>1, <1>2, <1>5, <2>1, LookAhead
  <2>3. Sound(archive, filter, rd)' /\ Left(archive, filter, rd)' = Left(archive, filter, rd)
    BY <1>1, <1>3, <1>5, <2>1, <2>2, LeftFirstLoaded
  <2>4. /\ Continues(archive, filter, rd) <=> series \in {d, NoName}
        /\ promised # 0 => Continues(archive, filter, rd)
    BY <1>1, <1>5, <2>1, CurrentSeries
  <2>5. m \in Positions
    BY <1>1, <1>5, <2>1, FirstFacts
  <2>6. /\ Moved /\ phase' = "reading"
        /\ promised' = IF q.state = "NEXT" THEN m ELSE 0
    BY <1>3, <2>2, <2>4 DEF Moved, HasMeta
  <2>7. TypeOK'
    BY <1>3, <1>4, <2>5, <2>6, MovedType
  <2>8. /\ rd'.state = "NEXT" => series' \in {rd'.db, NoName}
        /\ rd'.state = "DBEND" => series' \notin {rd'.db, NoName}
        /\ rd'.state \in {"NEXT", "DBEND"}
    BY <1>3, <2>2, <2>4
  <2>9. MetaIsNext'
    BY <1>3, <2>2, <2>6 DEF MetaIsNext
  <2>10. IInv'
    BY <1>3, <2>3, <2>6, <2>7, <2>8, <2>9, OthersKept
  <2> QED
    BY <1>3, <2>3, <2>6, <2>10
<1>6. CASE Left(archive, filter, rd) = {}
  <2>1. /\ q \in Objects /\ q.pos = Len(archive.entries) /\ q.db = rd.db
        /\ Throws(rd, q) \/ q.state = "EOF"
    BY <1>1, <1>2, <1>6, LookPastEnd
  <2>2. series = rd.db /\ promised = 0
    BY <1>1, <1>6, CurrentSeries
  <2>3. Moved /\ promised' = 0 /\ phase' \in {"reading", "failed"}
    BY <1>3, <2>1, <2>2 DEF Moved, HasMeta
  <2>4. TypeOK'
    BY <1>3, <1>4, <2>3, MovedType
  <2>5. CASE Throws(rd, q)
    <3>1. phase' = "failed"
      BY <1>3, <2>5
    <3> QED
      BY <1>3, <1>6, <2>3, <2>4, <3>1, FailedKept
  <2>6. CASE ~Throws(rd, q)
    <3>1. phase' = "reading" /\ rd'.state = "EOF" /\ series' = rd'.db
      BY <1>3, <2>1, <2>2, <2>6
    <3>2. Sound(archive, filter, rd)' /\ Left(archive, filter, rd)' = {}
      BY <1>1, <1>3, <2>1, <3>1, LeftAtEnd DEF Sound
    <3>3. IInv'
      BY <1>3, <2>3, <2>4, <3>1, <3>2, OthersKept DEF MetaIsNext
    <3> QED
      BY <1>3, <1>6, <3>1, <3>2, <3>3
  <2> QED
    BY <2>5, <2>6
<1> QED
  BY <1>5, <1>6

(* The database that the caller skips. *)
Dropped ==
    IF series = NoName /\ Left(archive, filter, rd) # {}
    THEN FirstDb(archive, filter, rd) ELSE series

LEMMA SkipStep ==
    ASSUME IInv, CallSkipCurrentDB,
           NEW later, later = Later(archive, filter, rd, Dropped)
    PROVE  /\ IInv' /\ phase' = "reading" /\ out' = out /\ archive' = archive
           /\ Left(archive, filter, rd)' =
                 IF later = {} THEN {}
                 ELSE {i \in Left(archive, filter, rd) : i >= Min(later)}
           /\ series' = IF later = {} THEN Dropped ELSE archive.entries[Min(later)].db
<1>1. archive \in Archives /\ filter \in Filters /\ rd \in Objects /\ phase # "failed"
      /\ Sound(archive, filter, rd)
  BY ObjectTypes DEF IInv, CallSkipCurrentDB
<1>2. PICK q, s : q = SkipCurrentDB(archive, filter, rd) /\ s = Dropped
  OBVIOUS
<1>3. /\ archive' = archive /\ filter' = filter /\ rd' = q /\ out' = out /\ series' = q.db
      /\ phase' = "reading" /\ promised' = 0
  BY <1>2 DEF CallSkipCurrentDB
<1>4. series \in Names \cup {NoName} /\ out \in Seq(Records) /\ 0 \in Positions
  BY RestoreAssumption DEF IInv, TypeOK, Positions
<1>5. Skips(archive, filter, rd, s)
  <2>1. Left(archive, filter, rd) # {} => FirstDb(archive, filter, rd) # NoName
    BY <1>1, FirstFacts
  <2> QED
    BY <1>1, <1>2, <2>1, CurrentSeries DEF Skips, Dropped
<1>6. Skipped(archive, filter, rd, s, q)
  BY <1>1, <1>2, <1>5, SkipOutcome
<1>7. q \in Objects /\ Moved
  BY <1>3, <1>6 DEF Skipped, Moved
<1>8. q.db \in Names \cup {NoName}
  BY <1>7 DEF Objects
<1>9. TypeOK'
  BY <1>3, <1>4, <1>7, <1>8, MovedType
<1>10. CASE later # {}
  <2>1. PICK m : m = Min(later)
    OBVIOUS
  <2>2. /\ q.state = "NEXT" /\ q.pos = m /\ q.db = archive.entries[m].db
        /\ q.held = m /\ q.meta = m
    BY <1>2, <1>6, <1>10, <2>1 DEF Skipped
  <2>3. m \in Left(archive, filter, rd)
    <3>1. later \in SUBSET Nat /\ later \subseteq Left(archive, filter, rd)
      BY <1>1, LeftFacts DEF Later
    <3> QED
      BY <1>10, <2>1, <3>1, MinFacts
  <2>4. /\ Sound(archive, filter, rd)'
        /\ Left(archive, filter, rd)' = {i \in Left(archive, filter, rd) : i >= m}
    BY <1>1, <1>3, <1>7, <2>2, <2>3, LeftLoaded
  <2>5. rd'.state = "NEXT" /\ series' = rd'.db
    BY <1>3, <2>2
  <2>6. IInv'
    BY <1>3, <1>7, <1>9, <2>4, <2>5, OthersKept DEF MetaIsNext
  <2> QED
    BY <1>3, <1>10, <2>1, <2>2, <2>4, <2>6
<1>11. CASE later = {}
  <2>1. q.state = "EOF" /\ q.pos = Len(archive.entries) /\ q.db = s
    BY <1>2, <1>6, <1>11 DEF Skipped
  <2>2. q.db # NoName => IsSelected(filter, q.db)
    <3>1. CASE Left(archive, filter, rd) = {}
      BY <1>1, <1>5, <2>1, <3>1 DEF Skips, Sound
    <3>2. CASE Left(archive, filter, rd) # {}
      <4>1. First(archive, filter, rd) \in Left(archive, filter, rd)
            /\ IsSelected(filter, FirstDb(archive, filter, rd))
        BY <1>1, <3>2, FirstFacts
      <4>2. FirstDb(archive, filter, rd) = s
        BY <1>2, <1>11, <4>1 DEF Later, FirstDb
      <4> QED
        BY <2>1, <4>1, <4>2
    <3> QED
      BY <3>1, <3>2
  <2>3. Sound(archive, filter, rd)' /\ Left(archive, filter, rd)' = {}
    BY <1>1, <1>3, <1>7, <2>1, <2>2, LeftAtEnd
  <2>4. rd'.state = "EOF" /\ series' = rd'.db
    BY <1>3, <2>1
  <2>5. IInv'
    BY <1>3, <1>7, <1>9, <2>3, <2>4, OthersKept DEF MetaIsNext
  <2> QED
    BY <1>2, <1>3, <1>11, <2>1, <2>3, <2>5
<1> QED
  BY <1>10, <1>11

LEMMA CallKeeps ==
    ASSUME IInv, CallBuildRecord \/ CallFetchRecord
    PROVE  \E res : /\ phase # "failed" /\ Returned(res) /\ res.obj \in Objects
                    /\ \/ Delivered(archive, filter, rd, res)
                       \/ Ended(archive, filter, rd, res)
                       \/ Exhausted(archive, filter, rd, res)
                       \/ Broke(archive, filter, rd, res)
<1>1. archive \in Archives /\ filter \in Filters /\ rd \in Objects /\ phase # "failed"
      /\ Sound(archive, filter, rd)
  BY ObjectTypes DEF IInv, CallBuildRecord, CallFetchRecord
<1>2. CASE CallBuildRecord
  <2>1. PICK res : res = BuildRecord(archive, filter, rd)
    OBVIOUS
  <2>2. Outcome(archive, filter, rd, res) /\ Returned(res)
    BY <1>1, <1>2, <2>1, BuildOutcome DEF CallBuildRecord
  <2> QED
    BY <1>1, <2>2 DEF Outcome
<1>3. CASE CallFetchRecord
  <2>1. PICK res : res = FetchRecord(archive, filter, rd)
    OBVIOUS
  <2>2. Outcome(archive, filter, rd, res) /\ Returned(res)
    BY <1>1, <1>3, <2>1, FetchOutcome DEF CallFetchRecord
  <2> QED
    BY <1>1, <2>2 DEF Outcome
<1> QED
  BY <1>2, <1>3

LEMMA StepKeeps == IInv /\ [Next]_vars => IInv'
<1> SUFFICES ASSUME IInv, [Next]_vars PROVE IInv'
  OBVIOUS
<1>1. ASSUME NEW d \in Names, AddDB(d) \/ AddSkipDB(d) PROVE IInv'
  BY <1>1, SetupKeeps
<1>2. CASE CallBuildRecord \/ CallFetchRecord
  <2>1. PICK res : /\ phase # "failed" /\ Returned(res) /\ res.obj \in Objects
                   /\ \/ Delivered(archive, filter, rd, res)
                      \/ Ended(archive, filter, rd, res)
                      \/ Exhausted(archive, filter, rd, res)
                      \/ Broke(archive, filter, rd, res)
    BY <1>2, CallKeeps
  <2> QED
    BY <2>1, DeliveredStep, EndedStep, ExhaustedStep, BrokeStep
<1>3. CASE CallGetNextMeta
  BY <1>3, MetaStep
<1>4. CASE CallSkipCurrentDB
  BY <1>4, SkipStep
<1>5. CASE UNCHANGED vars
  BY <1>5 DEF vars, IInv, TypeOK, Sound, WantedIn, RecordsWhole, MetaIsNext, New
<1> QED
  BY <1>1, <1>2, <1>3, <1>4, <1>5 DEF Next

(* RestoreClient keeps the invariant, on any archive, under any filter. *)
LEMMA InvariantHolds == Spec => []IInv
BY InitHolds, StepKeeps, PTL DEF Spec

-----------------------------------------------------------------------------
(* The Restore object stays in the states of its header, whatever the mixture
   of calls on it (restore.h:70). *)
THEOREM TypeCorrect == Spec => []TypeOK
BY InvariantHolds, PTL DEF IInv

(* A record that BuildRecord or FetchRecord delivers has the data, the ids and
   the database of one entry, for any archive and any mixture of calls: the
   look-ahead buffer of restore.cc:351 never shows another entry's data. *)
THEOREM DeliveredWhole == Spec => []RecordsWhole
BY InvariantHolds, PTL DEF IInv

(* What GetNextMeta told is what the next call delivers (restore.h:151): the
   record stays loaded until then. *)
THEOREM MetaKept == Spec => []MetaIsNext
BY InvariantHolds, PTL DEF IInv

-----------------------------------------------------------------------------
(* The refinement of SeriesReader. *)

LEMMA RestIs == phase # "failed" => Rest = Left(archive, filter, rd)
BY DEF Rest, Remaining, Wanted, Left, WantedIn

LEMMA RestNextIs == phase' # "failed" => Rest' = Left(archive, filter, rd)'
BY DEF Rest, Remaining, Wanted, Left, WantedIn

LEMMA SameMin == \A S : Series!Min(S) = Min(S)
BY DEF Series!Min, Min

LEMMA MapsInit == Init => Series!Init
<1> SUFFICES ASSUME Init PROVE Series!Init
  OBVIOUS
<1>1. Rest \in SUBSET DOMAIN DbNames
  BY DEF Rest, Remaining, Wanted, DbNames
<1>2. Ids = <<>>
  BY DEF Init, Ids
<1>3. series = NoName
  BY DEF Init
<1> QED
  BY <1>1, <1>2, <1>3 DEF Series!Init

LEMMA NextOfSeries ==
    ASSUME Rest # {}, series = NoName \/ DbNames[Min(Rest)] = series,
           Ids' = Append(Ids, Min(Rest)), Rest' = Rest \ {Min(Rest)},
           series' = DbNames[Min(Rest)], DbNames' = DbNames
    PROVE  Series!Next1
BY SameMin DEF Series!Next1, Series!InSeries

LEMMA EndOfOne ==
    ASSUME Rest # {}, ~(series = NoName \/ DbNames[Min(Rest)] = series),
           series' = DbNames[Min(Rest)], Rest' = Rest, DbNames' = DbNames, Ids' = Ids
    PROVE  Series!EndOfSeries
BY SameMin DEF Series!EndOfSeries, Series!InSeries

(* The ids of the records, after one more. *)
LEMMA IdsAppended ==
    ASSUME IInv, NEW rec \in Records, out' = Append(out, rec)
    PROVE  Ids' = Append(Ids, rec.id)
<1>1. out \in Seq(Records)
  BY DEF IInv, TypeOK
<1>2. /\ Len(out') = Len(out) + 1 /\ Len(out) \in Nat
      /\ \A k \in 1..Len(out) : out'[k] = out[k]
      /\ out'[Len(out) + 1] = rec
  BY <1>1
<1>3. PICK n, I, J : n = Len(out) /\ I = Ids /\ J = Ids'
  OBVIOUS
<1>4. I = [k \in 1..n |-> out[k].id]
  BY <1>3 DEF Ids
<1>5. J = [k \in 1..(n + 1) |-> out'[k].id]
  BY <1>2, <1>3 DEF Ids
<1>6. I \in Seq(Positions)
  <2>1. \A k \in 1..n : out[k] \in Records
    BY <1>1, <1>3
  <2>2. \A k \in 1..n : out[k].id \in Positions
    BY <2>1 DEF Records
  <2> QED
    BY <1>2, <1>3, <1>4, <2>2
<1>7. Len(I) = n
  BY <1>2, <1>3, <1>4
<1>8. Append(I, rec.id) = [k \in 1..(n + 1) |-> IF k = n + 1 THEN rec.id ELSE I[k]]
  BY <1>6, <1>7
<1>9. \A k \in 1..(n + 1) : out'[k].id = IF k = n + 1 THEN rec.id ELSE I[k]
  <2> TAKE k \in 1..(n + 1)
  <2>1. CASE k = n + 1
    BY <1>2, <1>3, <2>1
  <2>2. CASE k # n + 1
    <3>1. k \in 1..n
      BY <1>2, <1>3, <2>2
    <3> QED
      BY <1>2, <1>3, <1>4, <2>2, <3>1
  <2> QED
    BY <2>1, <2>2
<1>10. J = Append(I, rec.id)
  BY <1>5, <1>8, <1>9
<1> QED
  BY <1>3, <1>10

LEMMA MapsCall ==
    ASSUME IInv, CallBuildRecord \/ CallFetchRecord
    PROVE  Series!Next \/ UNCHANGED Series!vars
<1>1. archive \in Archives /\ filter \in Filters /\ rd \in Objects
  BY ObjectTypes DEF IInv
<1>2. PICK res : /\ phase # "failed" /\ Returned(res) /\ res.obj \in Objects
                 /\ \/ Delivered(archive, filter, rd, res)
                    \/ Ended(archive, filter, rd, res)
                    \/ Exhausted(archive, filter, rd, res)
                    \/ Broke(archive, filter, rd, res)
  BY CallKeeps
<1>3. Rest = Left(archive, filter, rd) /\ DbNames' = DbNames
  BY <1>2, RestIs DEF Returned, DbNames
<1>4. Left(archive, filter, rd) # {} =>
         /\ Min(Rest) = First(archive, filter, rd)
         /\ DbNames[Min(Rest)] = FirstDb(archive, filter, rd)
         /\ (series = NoName \/ DbNames[Min(Rest)] = series) <=> Continues(archive, filter, rd)
  <2>1. SUFFICES ASSUME Left(archive, filter, rd) # {}
                 PROVE  /\ Min(Rest) = First(archive, filter, rd)
                        /\ DbNames[Min(Rest)] = FirstDb(archive, filter, rd)
                        /\ (series = NoName \/ DbNames[Min(Rest)] = series)
                              <=> Continues(archive, filter, rd)
    OBVIOUS
  <2>2. Min(Rest) = First(archive, filter, rd)
    BY <1>3 DEF First
  <2>3. First(archive, filter, rd) \in 1..Len(archive.entries)
    BY <1>1, <2>1, FirstFacts
  <2>4. DbNames[Min(Rest)] = FirstDb(archive, filter, rd)
    BY <2>2, <2>3 DEF DbNames, FirstDb
  <2>5. Continues(archive, filter, rd) <=> series \in {FirstDb(archive, filter, rd), NoName}
    BY <1>2, <2>1, CurrentSeries
  <2> QED
    BY <2>2, <2>4, <2>5
<1>5. CASE Delivered(archive, filter, rd, res)
  <2>1. /\ phase' = "reading"
        /\ Left(archive, filter, rd)' =
              Left(archive, filter, rd) \ {First(archive, filter, rd)}
        /\ series' = FirstDb(archive, filter, rd)
        /\ out' = Append(out, res.rec) /\ res.rec.id = First(archive, filter, rd)
    BY <1>2, <1>5, DeliveredStep
  <2>2. Left(archive, filter, rd) # {} /\ Continues(archive, filter, rd)
    BY <1>5 DEF Delivered
  <2>3. Rest' = Rest \ {Min(Rest)}
    BY <1>3, <1>4, <2>1, <2>2, RestNextIs
  <2>4. res.rec \in Records
    <3>1. /\ First(archive, filter, rd) \in Positions /\ FirstDb(archive, filter, rd) \in Names
      BY <1>1, <2>2, FirstFacts
    <3> QED
      BY <1>5, <3>1 DEF Delivered, Records
  <2>5. Ids' = Append(Ids, Min(Rest))
    BY <1>4, <2>1, <2>2, <2>4, IdsAppended
  <2>6. Series!Next1
    BY <1>3, <1>4, <2>1, <2>2, <2>3, <2>5, NextOfSeries
  <2> QED
    BY <2>6 DEF Series!Next
<1>6. CASE Ended(archive, filter, rd, res)
  <2>1. /\ phase' = "reading" /\ out' = out /\ series' = FirstDb(archive, filter, rd)
        /\ Left(archive, filter, rd)' = Left(archive, filter, rd)
    BY <1>2, <1>6, EndedStep
  <2>2. Left(archive, filter, rd) # {} /\ ~Continues(archive, filter, rd)
    BY <1>6 DEF Ended
  <2>3. Rest' = Rest /\ Ids' = Ids
    BY <1>3, <2>1, RestNextIs DEF Ids
  <2>4. Series!EndOfSeries
    BY <1>3, <1>4, <2>1, <2>2, <2>3, EndOfOne
  <2> QED
    BY <2>4 DEF Series!Next
<1>7. CASE Exhausted(archive, filter, rd, res)
  <2>1. /\ phase' = "reading" /\ out' = out /\ series' = series
        /\ Left(archive, filter, rd) = {} /\ Left(archive, filter, rd)' = {}
    BY <1>2, <1>7, ExhaustedStep
  <2>2. Rest' = Rest /\ Ids' = Ids
    BY <1>3, <2>1, RestNextIs DEF Ids
  <2> QED
    BY <1>3, <2>1, <2>2 DEF Series!vars
<1>8. CASE Broke(archive, filter, rd, res)
  <2>1. /\ phase' = "failed" /\ out' = out /\ series' = series
        /\ Left(archive, filter, rd) = {}
    BY <1>2, <1>8, BrokeStep
  <2>2. Rest' = Rest /\ Ids' = Ids
    BY <1>3, <2>1 DEF Rest, Ids
  <2> QED
    BY <1>3, <2>1, <2>2 DEF Series!vars
<1> QED
  BY <1>2, <1>5, <1>6, <1>7, <1>8

LEMMA MapsSkip ==
    ASSUME IInv, CallSkipCurrentDB
    PROVE  Series!Skip
<1>1. archive \in Archives /\ filter \in Filters /\ rd \in Objects /\ phase # "failed"
  BY ObjectTypes DEF IInv, CallSkipCurrentDB
<1>2. PICK s, later : s = Dropped /\ later = Later(archive, filter, rd, s)
  OBVIOUS
<1>3. /\ phase' = "reading" /\ out' = out /\ archive' = archive
      /\ Left(archive, filter, rd)' =
            IF later = {} THEN {} ELSE {i \in Left(archive, filter, rd) : i >= Min(later)}
      /\ series' = IF later = {} THEN s ELSE archive.entries[Min(later)].db
  BY <1>2, SkipStep
<1>4. /\ Rest = Left(archive, filter, rd) /\ DbNames' = DbNames /\ Ids' = Ids
      /\ Rest' = Left(archive, filter, rd)'
  BY <1>1, <1>3, RestIs, RestNextIs DEF DbNames, Ids
<1>5. Rest \in SUBSET (1..Len(archive.entries)) /\ Rest \in SUBSET Nat
  BY <1>1, <1>4, LeftFacts
<1>6. \A i \in Rest : DbNames[i] = archive.entries[i].db
  BY <1>5 DEF DbNames
<1>7. later = {i \in Rest : DbNames[i] # s}
  BY <1>2, <1>4, <1>6 DEF Later
<1>8. Rest # {} => Min(Rest) \in Rest
  BY <1>5, MinFacts
<1>9. s = IF series = NoName /\ Rest # {} THEN DbNames[Min(Rest)] ELSE series
  BY <1>2, <1>4, <1>6, <1>8 DEF Dropped, FirstDb, First
<1>10. later # {} => Min(later) \in Rest
  BY <1>5, <1>7, MinFacts
<1>11. series' = IF later = {} THEN s ELSE DbNames[Min(later)]
  BY <1>3, <1>6, <1>10
<1>12. Rest' = IF later = {} THEN {} ELSE {i \in Rest : i >= Min(later)}
  BY <1>3, <1>4
<1> QED
  BY <1>4, <1>7, <1>9, <1>11, <1>12, SameMin DEF Series!Skip

LEMMA MapsStep == IInv /\ [Next]_vars => [Series!Next]_Series!vars
<1> SUFFICES ASSUME IInv, [Next]_vars PROVE Series!Next \/ UNCHANGED Series!vars
  OBVIOUS
<1>1. ASSUME NEW d \in Names, AddDB(d) \/ AddSkipDB(d) PROVE Series!Next
  <2>1. /\ phase = "setup" /\ phase' = phase /\ series' = series /\ out' = out
        /\ archive' = archive
    BY <1>1 DEF AddDB, AddSkipDB
  <2>2. series = NoName /\ out = <<>>
    BY <2>1 DEF IInv
  <2>3. Ids = <<>> /\ Ids' = Ids /\ DbNames' = DbNames
    BY <2>1, <2>2 DEF Ids, DbNames
  <2>4. Rest' \in SUBSET DOMAIN DbNames
    BY <2>1 DEF Rest, Remaining, Wanted, DbNames
  <2>5. PICK R : R = Rest'
    OBVIOUS
  <2>6. Series!Choose(R)
    BY <2>1, <2>2, <2>3, <2>4, <2>5 DEF Series!Choose
  <2> QED
    BY <2>4, <2>5, <2>6 DEF Series!Next
<1>2. CASE CallBuildRecord \/ CallFetchRecord
  BY <1>2, MapsCall
<1>3. CASE CallGetNextMeta
  <2>1. /\ phase' \in {"reading", "failed"} /\ out' = out /\ series' = series
        /\ archive' = archive
        /\ phase' = "reading" => Left(archive, filter, rd)' = Left(archive, filter, rd)
        /\ phase' = "failed" => Left(archive, filter, rd) = {}
    BY <1>3, MetaStep
  <2>2. phase # "failed" /\ Rest = Left(archive, filter, rd)
    BY <1>3, RestIs DEF CallGetNextMeta
  <2>3. Rest' = Rest
    <3>1. CASE phase' = "reading"
      BY <2>1, <2>2, <3>1, RestNextIs
    <3>2. CASE phase' = "failed"
      BY <2>1, <2>2, <3>2 DEF Rest
    <3> QED
      BY <2>1, <3>1, <3>2
  <2> QED
    BY <2>1, <2>3 DEF Series!vars, DbNames, Ids
<1>4. CASE CallSkipCurrentDB
  BY <1>4, MapsSkip DEF Series!Next
<1>5. CASE UNCHANGED vars
  BY <1>5 DEF vars, Series!vars, Rest, Remaining, Wanted, DbNames, Ids
<1> QED
  BY <1>1, <1>2, <1>3, <1>4, <1>5 DEF Next

(* Restore is a reader of series, for any archive, filter and mixture of calls:
   every selected record once, in order, with one end between two series; its
   look-ahead and its two buffers do not show (restore.h:40). *)
THEOREM RestoreRefines == Spec => ReadsSeries
BY InvariantHolds, MapsInit, MapsStep, PTL DEF Spec, ReadsSeries, Series!Spec
=============================================================================
