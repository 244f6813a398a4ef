------------------------------- MODULE Records -------------------------------
(***************************************************************************)
(* A record on its way between the handheld and a program: ParseDBData     *)
(* (src/src/parser.h) takes it apart field by field, the program may change*)
(* it, SetDBData (src/src/builder.h) builds it again, and what was built is*)
(* read once more.                                                         *)
(***************************************************************************)
EXTENDS RecordTypes

CONSTANTS
    Inputs,         \* class -> the fields a handheld may put into a record of it
    Edits,          \* class -> the members a program may set, with their values
    MaxFields,      \* bound: fields of a record that comes from the handheld
    MaxEdited,      \* bound: fields of a record that the program changes
    MaxEdits        \* bound: changes

VARIABLES
    type, ic,       \* the class of the record; whether there is a converter
    device,         \* the record that came from the handheld
    wire, pos,      \* the record that is being read; fields read so far
    rec,            \* the record object
    phase,          \* "parse", "parsed", "failed", "done"
    builds, edits,  \* builds and changes made
    built           \* the record as it was built before

vars == <<type, ic, device, wire, pos, rec, phase, builds, edits, built>>

(* A record as a handheld writes it: one field for a code that is no list, its
   type in front, and recurrence data if the type says so, at most two names, a content that begins with its size. *)
Lists == {"addr", "texts", "link", "name", "content", "unknown"}
WellFormed(t, w) ==
    /\ \A i, j \in DOMAIN w :
         i # j /\ Member(w[i].code) = Member(w[j].code) => Kind(t, w[i].code) \in Lists
    /\ \A i \in DOMAIN w : Kind(t, w[i].code) = "appt" => i = 1
    /\ \A i, j \in DOMAIN w :
         Kind(t, w[i].code) = "appt" /\ Kind(t, w[j].code) = "recur" => w[i].val[2] = 2
    /\ Cardinality({i \in DOMAIN w : w[i].code = "NAME"}) <= 2
    /\ LET content == SelectSeq(w, LAMBDA f : f.code = "FILE_CONTENT") IN
       content # <<>> =>
          /\ content[1].val[1] = "num"
          /\ \A i \in 2..Len(content) : content[i].val[1] = "block"
          /\ content[1].val[2] = 0 => Len(content) = 1

TypeOK ==
    /\ type \in DOMAIN Inputs /\ ic \in BOOLEAN
    /\ pos \in 0..Len(wire)
    /\ phase \in {"parse", "parsed", "failed", "done"}
    /\ builds \in 0..2 /\ edits \in 0..MaxEdits
    /\ DOMAIN rec.vals = DOMAIN Cleared(type).vals
    /\ \A i \in DOMAIN rec.unknown :
         Kind(type, rec.unknown[i].code) \in {"unknown", "time", "least", "metadata", "packed"}

Init ==
    /\ type \in DOMAIN Inputs /\ ic \in BOOLEAN
    /\ device \in BoundedSeq(Inputs[type], MaxFields)
    /\ wire = device /\ pos = 0
    /\ rec = Cleared(type)
    /\ phase = "parse" /\ builds = 0 /\ edits = 0 /\ built = <<>>

(* One turn of the loop of ParseCommonFields. *)
ParseNext ==
    /\ phase = "parse" /\ pos < Len(wire) /\ ~rec.shifted
    /\ pos' = pos + 1
    /\ IF ParseThrows(type, wire[pos + 1])
       THEN phase' = "failed" /\ UNCHANGED rec
       ELSE rec' = ParseField(type, rec, wire[pos + 1], ic) /\ UNCHANGED phase
    /\ UNCHANGED <<type, ic, device, wire, builds, edits, built>>

(* After ParseField returned a pointer that is not the next field the bytes
   there are taken for one: for one that ends behind the record, which ends
   the loop, or for one of no known code. *)
ParseShifted ==
    /\ phase = "parse" /\ pos < Len(wire) /\ rec.shifted
    /\ \/ pos' = Len(wire) /\ UNCHANGED rec
       \/ pos' = pos + 1 /\ rec' = [rec EXCEPT !.unknown = Append(@, Field("SHIFTED", Garbage))]
    /\ UNCHANGED <<type, ic, device, wire, phase, builds, edits, built>>

Parsed ==
    /\ phase = "parse" /\ pos = Len(wire)
    /\ phase' = "parsed"
    /\ UNCHANGED <<type, ic, device, wire, pos, rec, builds, edits, built>>

(* The program changes a member, or makes the record recur. *)
Edit ==
    /\ phase = "parsed" /\ builds = 0 /\ edits < MaxEdits /\ Len(device) <= MaxEdited
    /\ \E e \in Edits[type] :
         rec' = [rec EXCEPT !.vals[e.code] = <<e.val>>,
                            !.recurring = @ \/ e.code = "RECURRENCE_DATA"]
    /\ edits' = edits + 1
    /\ UNCHANGED <<type, ic, device, wire, pos, phase, builds, built>>

(* SetDBData, and then ParseDBData of what it built. *)
Build ==
    /\ phase = "parsed" /\ type \in Builders /\ builds < 2
    /\ IF BuildThrows(type, rec)
       THEN phase' = "failed" /\ UNCHANGED <<wire, pos, rec, builds, built>>
       ELSE /\ built' = (IF builds = 0 THEN <<>> ELSE wire)
            /\ wire' = BuildFields(type, rec, ic)
            /\ rec' = Cleared(type) /\ pos' = 0 /\ builds' = builds + 1
            /\ phase' = IF builds = 1 THEN "done" ELSE "parse"
    /\ UNCHANGED <<type, ic, device, edits>>

Next == ParseNext \/ ParseShifted \/ Parsed \/ Edit \/ Build
Spec == Init /\ [][Next]_vars
-----------------------------------------------------------------------------
Of(w, code) == SelectSeq(w, LAMBDA f : f.code = code /\ f.size # "zero")
Vals(w, code) == [i \in DOMAIN Of(w, code) |-> Of(w, code)[i].val]
FullName(w) ==
    LET n == Vals(w, "NAME") IN
    [i \in 1..2 |-> IF i \in DOMAIN n THEN n[i] ELSE Blank]
Content(w) ==
    LET blocks == SelectSeq(Vals(w, "FILE_CONTENT"), LAMBDA v : v[1] = "block")
    IN FlattenSeq([i \in DOMAIN blocks |-> blocks[i][2]])

(* A task's own start is given up for the time it is due, its kind of alarm
   without an alarm, and the flags of both are written anew; a contact's group
   flag and id are made again. *)
Regenerated(f) ==
    \/ Kind(type, f.code) = "ignored"
    \/ type = "Task" /\ f.code = "START_TIME"
    \/ type = "Task" /\ f.code = "ALARM_TYPE"
       /\ ~\E t \in Range(Vals(device, "ALARM_TIME")) : min2time(t[2]) > 0
(* A folder has no descriptor and no content, a number that was too short was
   not known to begin with. *)
NoMeaning(f) ==
    \/ f.size = "zero"
    \/ f.size = "short" /\ Kind(type, f.code) \in {"num", "link"}
    \/ f.val = Blank
    \/ f.val[1] = "addr" /\ f.val[2] = Blank /\ f.val[3] = Blank
    \/ f.code = "CALENDAR_ID" /\ f.val = <<"num", -1>>
    \/ f.code = "ALLDAYEVENT_FLAG" /\ f.val # <<"num", 1>>
    \/ type = "ContentStore" /\ f.code # "FILENAME"
       /\ \E v \in Range(Vals(device, "FOLDER_FLAG")) : v[2] = "folder"
    \/ f.code = "FOLDER_FLAG" /\ f.val[2] # "folder"
    \/ Kind(type, f.code) = "date" /\ f.val[2] = "bad"
(* The times that are not the same after the way through time_t. *)
LosesTime(f) ==
    \/ Kind(type, f.code) = "time" /\ f.size = "good"
       /\ (~Representable(f.val[2]) \/ min2time(f.val[2]) = 0)
    \/ Kind(type, f.code) = "recur" /\ ~Representable(f.val[2].end)
(* The addresses of an appointment come out in the wrong character set. *)
Garbled(f) ==
    type = "Calendar" /\ ic /\ f.val[1] = "addr"
    /\ (f.val[2][2] \in Accented \/ f.val[3][2] \in Accented)

(* What a recurrence means: its start is that of the record, a day has no data,
   an interval is at least 1. *)
Recurs(v) == [interval |-> IF v[2].interval < 1 THEN 1 ELSE v[2].interval, end |-> v[2].end,
              type |-> v[2].type, data |-> IF v[2].type = "Day" THEN 0 ELSE v[2].data]
Names(v) == SelectSeq(v[2], LAMBDA n : n # Blank)

Kept(f) ==
    LET same == Range(Of(wire, f.code)) IN
    CASE Kind(type, f.code) = "recur" -> \E g \in same : Recurs(g.val) = Recurs(f.val)
      [] Kind(type, f.code) = "cats" -> Names(f.val) = <<>> \/ \E g \in same : Names(g.val) = Names(f.val)
      [] Kind(type, f.code) = "name" -> FullName(wire) = FullName(device)
      [] Kind(type, f.code) = "content" -> Content(wire) = Content(device)
      [] Kind(type, f.code) = "string" ->
           \E g \in same : ParseFieldString(g.val) = ParseFieldString(f.val)
      [] OTHER -> \E g \in same : g.val = f.val

(* A record that is read from a handheld and written back unchanged
   (ParseDBData, SetDBData) still has every field that meant something, the
   ones that no class knows too; only what Regenerated, NoMeaning, LosesTime
   and Garbled name is not as it was, and a string ends in one NUL, however many
   it had. *)
RewriteKeeps ==
    builds = 1 /\ pos = 0 /\ edits = 0 /\ WellFormed(type, device) =>
      \A f \in Range(device) :
        Regenerated(f) \/ NoMeaning(f) \/ LosesTime(f) \/ Garbled(f) \/ Kept(f)

(* What the reader makes of a time, and of a recurrence: an unset time and one
   in the first minute of 1970 are the same to it, the recurrence of a task has
   the start that the first build replaces by the time it is due. *)
Reads(m) == IF min2time(m) = 0 THEN Word - 1 ELSE m
Understood(f) ==
    CASE f.size = "good" /\ Kind(type, f.code) = "recur" ->
           [code |-> f.code, recurs |-> [Recurs(f.val) EXCEPT !.end = Reads(@)],
            start |-> IF type = "Task" THEN 0 ELSE Reads(f.val[2].start)]
      [] f.size = "good" /\ Kind(type, f.code) = "cats" -> [code |-> f.code, names |-> Names(f.val)]
      [] OTHER -> f
(* A time that is read as unset, a list without a name. *)
Empty(f) ==
    /\ f.size = "good"
    /\ \/ Kind(type, f.code) = "time" /\ min2time(f.val[2]) = 0
       \/ Kind(type, f.code) = "cats" /\ Names(f.val) = <<>>
(* The flags that go with a task's times. *)
GoesWith(code) ==
    CASE type = "Task" /\ code = "DUE_FLAG" -> "DUE_TIME"
      [] type = "Task" /\ code \in {"ALARM_FLAG", "ALARM_TYPE"} -> "ALARM_TIME"
      [] OTHER -> code
Settled(w) ==
    LET full == SelectSeq(w, LAMBDA f : ~Empty(f))
        codes == {full[i].code : i \in DOMAIN full}
        kept == SelectSeq(full, LAMBDA f : GoesWith(f.code) \in codes)
    IN [i \in DOMAIN kept |-> Understood(kept[i])]
(* What BuildFields writes, ParseField reads and BuildFields writes again says
   the same: a record does not drift when it is written many times, and what
   was built is read without an error and can be built again.  Only what the
   first build writes and the reader takes for nothing, a time in the first
   minute of 1970 with the flags that go with it and a list of categories
   without a name, is not there the second time.  The program may put any time
   from 1970 to Word - 1 into the record, any list of names without a comma or
   a blank at their ends, and a value of its own for every enumeration. *)
BuildSettles ==
    /\ builds > 0 => phase # "failed"
    /\ phase = "done" /\ (~\E f \in Range(built) : Garbled(f)) => Settled(wire) = Settled(built)
=============================================================================
