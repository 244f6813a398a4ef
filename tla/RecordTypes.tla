----------------------------- MODULE RecordTypes -----------------------------
(***************************************************************************)
(* The record classes of src/src/r_*.cc: for every class the table of its  *)
(* field codes, ParseField, and BuildFields where the class has it.        *)
(*                                                                         *)
(* A field of the wire is [code, size, val]; size is "zero", "short" (less *)
(* than the handler of the code wants) or "good".  A record maps its       *)
(* members, named by their codes, to sequences: <<>> is a member that still*)
(* has the value it has in a new object.                                   *)
(***************************************************************************)
EXTENDS FieldCodec, TLC

CONSTANT
    MaxBlock   \* MAX_CONTENT_BLOCK_SIZE, in units of content

ASSUME BlockAssumption == MaxBlock \in Nat \ {0}

All(codes, kind) == [c \in codes |-> kind]

(* The kind of handling of every code of every class.  Codes that no entry
   names are unknown to the class. *)
Calendar ==
    All({"SUBJECT", "NOTES", "LOCATION"}, "text") @@
    All({"NOTIFICATION_TIME", "START_TIME", "END_TIME"}, "time") @@
    All({"ORGANIZER", "ACCEPTED_BY", "INVITED"}, "addr") @@
    All({"TIMEZONE_CODE", "CALENDAR_ID"}, "exact") @@
    All({"FREEBUSY_FLAG", "CLASS_FLAG"}, "range") @@
    [APPT_TYPE_FLAG |-> "appt", ALLDAYEVENT_FLAG |-> "num", RECURRENCE_DATA |-> "recur"]
Contact ==
    All({"NICKNAME", "PHONE", "FAX", "HOME_FAX", "WORK_PHONE", "HOME_PHONE", "MOBILE_PHONE",
         "MOBILE_PHONE_2", "PAGER", "PIN", "RADIO", "WORK_PHONE_2", "HOME_PHONE_2",
         "OTHER_PHONE", "COMPANY", "DEFAULT_COMM_METHOD", "TITLE", "URL", "PREFIX", "NOTES",
         "USER_DEFINED_1", "USER_DEFINED_2", "USER_DEFINED_3", "USER_DEFINED_4",
         "ADDRESS1", "ADDRESS2", "ADDRESS3", "CITY", "PROVINCE", "POSTAL_CODE", "COUNTRY",
         "HOME_ADDRESS1", "HOME_ADDRESS2", "HOME_ADDRESS3", "HOME_CITY", "HOME_PROVINCE",
         "HOME_POSTAL_CODE", "HOME_COUNTRY"}, "text") @@
    All({"PUBLIC_KEY", "IMAGE"}, "string") @@
    All({"BIRTHDAY", "ANNIVERSARY"}, "date") @@
    All({"GROUP_FLAG", "UNIQUEID"}, "ignored") @@
    [EMAIL |-> "texts", NAME |-> "name", GROUP_LINK |-> "link", CATEGORY |-> "cats"]
Task ==
    All({"TITLE", "NOTES"}, "text") @@ All({"START_TIME", "DUE_TIME", "ALARM_TIME"}, "time") @@
    All({"PRIORITY", "STATUS", "ALARM_TYPE"}, "range") @@
    All({"DUE_FLAG", "ALARM_FLAG"}, "ignored") @@
    [TASK_TYPE |-> "type", TIMEZONE_CODE |-> "exact", CATEGORY |-> "cats",
     RECURRENCE_DATA |-> "recur"]
Memo == All({"TITLE", "BODY"}, "text") @@ [MEMO_TYPE |-> "type", CATEGORY |-> "cats"]
ContentStore ==
    [FILENAME |-> "string", FOLDER_FLAG |-> "folder", FILE_DESCRIPTOR |-> "raw",
     FILE_CONTENT |-> "content"]
MessageBase ==
    All({"TO", "CC", "BCC", "SENDER", "FROM", "REPLY_TO"}, "addr") @@
    All({"SUBJECT", "BODY"}, "text") @@
    [ATTACHMENT |-> "string", RECORDID |-> "num", REPLY_UNKNOWN |-> "ignored"]
CallLog ==
    All({"PHONE_NUMBER", "CONTACT_NAME"}, "text") @@
    All({"STATUS", "PHONE_TYPE", "PHONE_INFO"}, "known") @@
    All({"DURATION", "TIMESTAMP"}, "least") @@
    [CALLLOG_TYPE |-> "type", UNIQUEID |-> "ignored", DIRECTION |-> "range"]
Folder == [NAME |-> "text", TYPE |-> "num", NUMBER |-> "num", LEVEL |-> "num"]
TimeZone ==
    All({"INDEX", "OFFSET", "DST", "STARTMONTH", "ENDMONTH"}, "num") @@
    [NAME |-> "text", TZTYPE |-> "type"]
Sms == [METADATA |-> "metadata", ADDRESS |-> "least", BODY |-> "smsbody"]
ServiceBook ==
    All({"OLD_NAME", "OLD_DESC", "NAME", "DESCRIPTION", "HIDDEN_NAME"}, "text") @@
    All({"OLD_UNIQUE_ID", "UNIQUE_ID", "DSID", "CONTENT_ID", "BES_DOMAIN"}, "string") @@
    [CONFIG |-> "packed"]
(* The tables of a HandheldAgent are chosen by the id of the record. *)
HandheldAgent3 == All({"MODEL", "NETWORK", "BANDS", "MEID", "PIN", "VERSION"}, "text")
HandheldAgent7 == All({"MODEL_7", "MANUFACTURER", "FIRMWARE", "PLATFORM"}, "text")
Bookmark == [BOOKMARK_TYPE |-> "type", STRUCT1 |-> "struct1", STRUCT2 |-> "struct2"]

Kinds ==
    [Calendar |-> Calendar, Contact |-> Contact, Task |-> Task, Memo |-> Memo,
     ContentStore |-> ContentStore, MessageBase |-> MessageBase, CallLog |-> CallLog,
     Folder |-> Folder, TimeZone |-> TimeZone, Sms |-> Sms, ServiceBook |-> ServiceBook,
     HandheldAgent3 |-> HandheldAgent3, HandheldAgent7 |-> HandheldAgent7,
     Bookmark |-> Bookmark]
Kind(type, code) == IF code \in DOMAIN Kinds[type] THEN Kinds[type][code] ELSE "unknown"
OfKind(type, kind) == {c \in DOMAIN Kinds[type] : Kinds[type][c] = kind}

(* Two codes of a service book, or of the records of an agent, may stand for
   the same member. *)
Member(code) ==
    LET same == [OLD_NAME |-> "NAME", OLD_DESC |-> "DESCRIPTION", MODEL_7 |-> "MODEL",
                 OLD_UNIQUE_ID |-> "UNIQUE_ID", FIRMWARE |-> "VERSION"]
    IN IF code \in DOMAIN same THEN same[code] ELSE code

(* CR_*_RANGE_HIGH, TR_*_RANGE_HIGH, CLL_DIRECTION_RANGE_HIGH: a number above
   it is an error. *)
RangeHigh == [FREEBUSY_FLAG |-> 3, CLASS_FLAG |-> 2, ALARM_TYPE |-> 2, PRIORITY |-> 2,
              STATUS |-> 4, DIRECTION |-> 3]
(* The numbers of a call log that have a meaning; all others have the same. *)
KnownValues == [STATUS |-> {0, 1, 9}, PHONE_TYPE |-> 0..3, PHONE_INFO |-> {3, 64, 128}]

Extra == {"FIRST", "LAST", "FILE_SIZE"}
(* The new object that ParseDBData starts with: all strings are empty, and its
   constructor has called Clear. *)
Cleared(type) ==
    [vals |-> [c \in {Member(d) : d \in DOMAIN Kinds[type]} \cup Extra |-> <<>>],
     unknown |-> <<>>, seen |-> FALSE, recurring |-> FALSE, shifted |-> FALSE]
DefaultRecurrence == [interval |-> 1, end |-> 0, perpetual |-> FALSE, type |-> "Week", data |-> 0]

Field(code, val) == [code |-> code, size |-> "good", val |-> val]
Put(r, code, v) == [r EXCEPT !.vals[Member(code)] = <<v>>]
Add(r, code, v) == [r EXCEPT !.vals[code] = Append(@, v)]
(* A number that is read without looking at the size takes in what follows. *)
Garbage == <<"garbage">>
ReadNum(f) == IF f.size = "short" THEN Garbage ELSE f.val

(* The errors of the parsers: a wrong type letter, a flag out of its range, a
   field of the wrong size, a recurrence of no known type.  An appointment
   type is 1 for 'a', 2 for '*'. *)
ParseThrows(type, f) ==
    LET k == Kind(type, f.code) IN
    /\ f.size # "zero"
    /\ \/ k = "type" /\ ReadNum(f) # <<"num", 1>>
       \/ k = "appt" /\ f.val[2] \notin {1, 2}
       \/ k = "range" /\ f.val[2] > RangeHigh[f.code]
       \/ k = "exact" /\ f.size = "short"
       \/ k = "recur" /\ (f.size = "short" \/ f.val[2].type = "bad")

(* Mutant: a first name that is blank does not count. *)
ParseName_noSeen(r, v) ==
    IF r.vals["FIRST"] \notin {<<>>, <<Blank>>}
    THEN [Put(r, "LAST", v) EXCEPT !.seen = FALSE]
    ELSE [Put(r, "FIRST", v) EXCEPT !.seen = TRUE]
(* CFC_NAME: the first name, then the last; m_FirstNameSeen tells that a
   first name was there although it is blank. *)
ParseName(r, v) ==
    IF r.vals["FIRST"] \notin {<<>>, <<Blank>>} \/ r.seen
    THEN [Put(r, "LAST", v) EXCEPT !.seen = FALSE]
    ELSE [Put(r, "FIRST", v) EXCEPT !.seen = TRUE]

(* ParseRecurrenceData.  A day has no data of its own. *)
ParseRecurrenceData(r, v) ==
    LET d == v[2] IN
    [Put(r, "RECURRENCE_DATA",
         [interval |-> IF d.interval < 1 THEN 1 ELSE d.interval,
          end |-> IF d.end = Word - 1 THEN 0 ELSE min2time(d.end),
          perpetual |-> d.end = Word - 1, type |-> d.type,
          data |-> IF d.type = "Day" THEN 0 ELSE d.data])
     EXCEPT !.recurring = TRUE]

(* CSFC_FILE_CONTENT: the first one is the size, the others are blocks. *)
ParseContent(r, v) ==
    IF r.vals["FILE_SIZE"] \notin {<<>>, <<0>>}
    THEN [r EXCEPT !.vals["FILE_CONTENT"] = @ \o (IF v[1] = "block" THEN v[2] ELSE v)]
    ELSE [r EXCEPT !.vals["FILE_SIZE"] = <<IF v[1] = "num" THEN v[2] ELSE 1>>]

(* SMSFC_BODY: the bytes are appended to Body, and then the whole of Body is
   converted, by the coding scheme that the metadata set, or seven bit. *)
ParseSmsBody(r, v, ic) ==
    LET scheme == IF r.vals["METADATA"] = <<>> THEN "7bit" ELSE r.vals["METADATA"][1][2]
        body == Append(r.vals["BODY"], v)
        Converted(p) == IF ic THEN Append(p, scheme) ELSE p
    IN [r EXCEPT !.vals["BODY"] = [i \in DOMAIN body |-> Converted(body[i])]]

(* ParseStruct2 counts the size of the URL twice, so that it wants two bytes
   more than the URL has, and says that the next field begins after them.
   The value tells how many bytes follow the URL. *)
ParseStruct2(r, f) ==
    [(IF f.val[2] < 2 THEN r ELSE Put(r, f.code, f.val)) EXCEPT !.shifted = f.val[2] # 2]

(* A field that nothing handled is kept as it is. *)
Unknown(r, f) == [r EXCEPT !.unknown = Append(@, f)]

(* One field, in a record that did not throw. *)
ParseField(type, r, f, ic) ==
    LET k == Kind(type, f.code) IN
    CASE f.size = "zero" \/ k \in {"ignored", "type"} -> r
      [] k = "text" -> Put(r, f.code, FromBB(f.val, ic))
      [] k = "texts" -> Add(r, f.code, FromBB(f.val, ic))
      [] k = "raw" -> Put(r, f.code, f.val)
      [] k = "string" -> Put(r, f.code, ParseFieldString(f.val))
      [] k = "time" /\ f.size = "good" -> Put(r, f.code, min2time(f.val[2]))
      [] k = "addr" -> IF f.val[2] = Blank /\ f.val[3] = Blank THEN r
                       ELSE Add(r, f.code, <<"addr", FromBB(f.val[2], ic), FromBB(f.val[3], ic)>>)
      [] k \in {"num", "range", "exact"} -> Put(r, f.code, ReadNum(f))
      [] k = "known" -> Put(r, f.code, <<"num", IF f.val[2] \in KnownValues[f.code] THEN f.val[2] ELSE -1>>)
      [] k = "least" /\ f.size = "good" -> IF f.code = "ADDRESS" THEN Add(r, f.code, f.val)
                                           ELSE Put(r, f.code, f.val)
      [] k = "metadata" /\ f.size = "good" -> Put(r, f.code, f.val)
      [] k = "smsbody" -> ParseSmsBody(r, f.val, ic)
      [] k = "appt" -> [r EXCEPT !.recurring = f.val[2] = 2]
      [] k = "recur" -> ParseRecurrenceData(r, f.val)
      [] k = "name" -> ParseName(r, FromBB(f.val, ic))
      [] k = "link" -> Add(r, f.code, ReadNum(f))
      [] k = "cats" -> Put(r, f.code, CategoryStr2List([i \in DOMAIN f.val[2] |-> FromBB(f.val[2][i], ic)]))
      [] k = "date" -> [r EXCEPT !.vals[f.code] = IF f.val[2] = "bad" THEN @ ELSE <<f.val>>]
      [] k = "folder" -> Put(r, f.code, f.val[2] = "folder")
      [] k = "content" -> ParseContent(r, f.val)
      [] k = "packed" /\ f.val[2] # "bad" -> Put(r, f.code, f.val)
      [] k = "struct1" -> [Put(r, f.code, f.val) EXCEPT !.shifted = TRUE]
      [] k = "struct2" -> ParseStruct2(r, f)
      [] OTHER -> Unknown(r, f)
-----------------------------------------------------------------------------
(* The members of a set of codes, each that holds something as one field. *)
Members(r, codes, Holds(_), Wire(_)) ==
    LET FieldsOf(c) == LET held == SelectSeq(r.vals[c], Holds)
                       IN [j \in 1..Len(held) |-> Field(c, Wire(held[j]))]
    IN FoldSet(LAMBDA c, fields : fields \o FieldsOf(c), <<>>, codes)
Texts(r, codes, ic) ==
    Members(r, codes, LAMBDA v : v[2] # "", LAMBDA v : ToBB(v, ic))
Raws(r, codes) == Members(r, codes, LAMBDA v : v # Blank, LAMBDA v : v)
Strings(r, codes) == Members(r, codes, LAMBDA v : v # Blank, BuildFieldString)
(* BuildField1900, for a time that is set. *)
Times(r, codes) ==
    Members(r, codes, LAMBDA t : t > 0, LAMBDA t : <<"time", time2min(t)>>)
Categories(r, ic) ==
    Members(r, {"CATEGORY"}, LAMBDA names : names # <<>>,
            LAMBDA names : <<"cats", CategoryList2Str([i \in DOMAIN names |-> ToBB(names[i], ic)])>>)
Always(r, code, default) ==
    <<Field(code, IF r.vals[code] = <<>> THEN <<"num", default>> ELSE r.vals[code][1])>>
Held(r, code) == r.vals[code] \notin {<<>>, <<Blank>>}
TimeOf(r, code) == IF r.vals[code] = <<>> THEN 0 ELSE r.vals[code][1]

(* BuildRecurrenceData, for a record that recurs. *)
BuildRecurrenceData(r) ==
    LET d == IF r.vals["RECURRENCE_DATA"] = <<>> THEN DefaultRecurrence
             ELSE r.vals["RECURRENCE_DATA"][1]
    IN IF ~r.recurring THEN <<>>
       ELSE <<Field("RECURRENCE_DATA",
               <<"recur", [interval |-> d.interval, start |-> time2min(TimeOf(r, "START_TIME")),
                           end |-> IF d.perpetual THEN Word - 1 ELSE time2min(d.end),
                           type |-> d.type, data |-> IF d.type = "Day" THEN 0 ELSE d.data]>>)>>

(* The addresses of an appointment are written as they are: the converted
   copies that the code makes are not used. *)
BuildCalendar(r, ic) ==
    <<Field("APPT_TYPE_FLAG", <<"num", IF r.recurring THEN 2 ELSE 1>>)>>
    \o Raws([r EXCEPT !.vals["ALLDAYEVENT_FLAG"] = SelectSeq(@, LAMBDA v : v = <<"num", 1>>)],
            {"ALLDAYEVENT_FLAG"})
    \o Texts(r, OfKind("Calendar", "text"), ic)
    \o Times(r, OfKind("Calendar", "time"))
    \o Raws(r, OfKind("Calendar", "addr"))
    \o BuildRecurrenceData(r)
    \o Raws([r EXCEPT !.vals["CALENDAR_ID"] = SelectSeq(@, LAMBDA v : v # <<"num", -1>>)],
            OfKind("Calendar", "exact"))
    \o Always(r, "FREEBUSY_FLAG", 0) \o Always(r, "CLASS_FLAG", 0)

(* A blank first name goes before a last name that has none. *)
BuildNames(r, ic) ==
    (IF Held(r, "LAST") /\ ~Held(r, "FIRST") THEN <<Field("FIRST", Blank)>> ELSE <<>>)
    \o Texts(r, {"FIRST"}, ic) \o Texts(r, {"LAST"}, ic)

BuildContact(r, ic) ==
    LET names == BuildNames(r, ic) IN
    (IF r.vals["GROUP_LINK"] # <<>> THEN <<Field("GROUP_FLAG", <<"num", 1>>)>> ELSE <<>>)
    \o [i \in DOMAIN names |-> [names[i] EXCEPT !.code = "NAME"]]
    \o <<Field("UNIQUEID", <<"num", 1>>)>>
    \o Texts(r, {"EMAIL"} \cup OfKind("Contact", "text"), ic)
    \o Strings(r, OfKind("Contact", "string"))
    \o Raws(r, {"GROUP_LINK"})
    \o Categories(r, ic)
    \o Raws(r, OfKind("Contact", "date"))

(* A task starts when it is due. *)
BuildTask(r, ic) ==
    LET due == Times(r, {"DUE_TIME"})
        alarm == Times(r, {"ALARM_TIME"})
    IN <<Field("TASK_TYPE", <<"num", 1>>)>>
       \o Texts(r, {"TITLE"}, ic)
       \o Always(r, "STATUS", 0) \o Always(r, "PRIORITY", 1)
       \o Raws(r, {"TIMEZONE_CODE"})
       \o (IF due = <<>> THEN <<>>
           ELSE <<Field("START_TIME", due[1].val), Field("DUE_FLAG", <<"num", 1>>)>> \o due)
       \o (IF alarm = <<>> THEN <<>>
           ELSE <<Field("ALARM_FLAG", <<"num", 1>>)>> \o Always(r, "ALARM_TYPE", 1) \o alarm)
       \o Categories(r, ic)
       \o Texts(r, {"NOTES"}, ic)
       \o BuildRecurrenceData(r)

BuildMemo(r, ic) ==
    <<Field("MEMO_TYPE", <<"num", 1>>)>> \o Categories(r, ic)
    \o Texts(r, OfKind("Memo", "text"), ic)

(* The content, in blocks. *)
Blocks(s) ==
    [i \in 1..((Len(s) + MaxBlock - 1) \div MaxBlock) |->
        SubSeq(s, (i - 1) * MaxBlock + 1, IF i * MaxBlock > Len(s) THEN Len(s) ELSE i * MaxBlock)]

IsFolder(r) == r.vals["FOLDER_FLAG"] = <<TRUE>>
BuildContentStore(r) ==
    LET content == r.vals["FILE_CONTENT"]
        blocks == Blocks(content)
    IN Strings(r, {"FILENAME"})
       \o IF IsFolder(r) THEN <<Field("FOLDER_FLAG", <<"text", "folder", 0>>)>>
          ELSE (IF r.vals["FILE_DESCRIPTOR"] = <<>>
                THEN <<[Field("FILE_DESCRIPTOR", <<"text", "", 0>>) EXCEPT !.size = "zero"]>>
                ELSE Members(r, {"FILE_DESCRIPTOR"}, LAMBDA v : TRUE, LAMBDA v : v))
               \o <<Field("FILE_CONTENT", <<"num", Len(content)>>)>>
               \o [i \in DOMAIN blocks |-> Field("FILE_CONTENT", <<"block", blocks[i]>>)]

Builders == {"Calendar", "Contact", "Task", "Memo", "ContentStore"}
(* What BuildFields refuses with BadData. *)
BuildThrows(type, r) ==
    \/ type = "Contact" /\ ~Held(r, "FIRST") /\ ~Held(r, "LAST") /\ ~Held(r, "COMPANY")
    \/ type = "ContentStore" /\ (~Held(r, "FILENAME")
                                  \/ (~IsFolder(r) /\ r.vals["FILE_CONTENT"] = <<>>))
(* BuildFields: the class's own fields, and then the unknown ones. *)
BuildFields(type, r, ic) ==
    (CASE type = "Calendar" -> BuildCalendar(r, ic)
       [] type = "Contact" -> BuildContact(r, ic)
       [] type = "Task" -> BuildTask(r, ic)
       [] type = "Memo" -> BuildMemo(r, ic)
       [] type = "ContentStore" -> BuildContentStore(r))
    \o r.unknown
=============================================================================
