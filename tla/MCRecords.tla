------------------------------ MODULE MCRecords ------------------------------
(* Instances of Records for TLC: a few codes of every kind of every class,
   with the values at which their handlers turn. *)
EXTENDS Records

Good(code, vals) == {Field(code, v) : v \in vals}
Short(code, v) == {[Field(code, v) EXCEPT !.size = "short"]}
Zero(code) == {[Field(code, Blank) EXCEPT !.size = "zero"]}
TextVals == {Blank, Text("a"), Text("e-acute")}
TimeVals == {<<"time", Word - 1>>, <<"time", Diff - 1>>, <<"time", Diff>>, <<"time", Diff + 1>>}
AddrVals == {<<"addr", Blank, Blank>>, <<"addr", Text("a"), Text("e-acute")>>, <<"addr", Text("a"), Blank>>}
Num(s) == {<<"num", n>> : n \in s}
Recurrence(t, e, n) == <<"recur", [interval |-> n, start |-> Word - 1, end |-> e, type |-> t, data |-> 1]>>
RecurVals == {Recurrence("Day", Word - 1, 0), Recurrence("Week", Diff + 2, 1),
              Recurrence("Week", Diff - 1, 1), Recurrence("Week", Diff, 1), Recurrence("bad", Word - 1, 1)}
CatVals == {<<"cats", <<Text("a"), Text("e-acute")>>>>, <<"cats", <<Blank, Text("a")>>>>, <<"cats", <<Blank>>>>,
            <<"cats", <<Blank, Blank>>>>}
Other == Good("OTHER", {<<"raw", "x">>}) \cup Zero("OTHER")

MCInputs ==
  [Calendar |-> Good("APPT_TYPE_FLAG", Num({1, 2, 3})) \cup Good("ALLDAYEVENT_FLAG", Num({0, 1}))
       \cup Good("SUBJECT", TextVals) \cup Good("START_TIME", TimeVals) \cup Short("START_TIME", <<"time", 1>>)
       \cup Good("ORGANIZER", AddrVals) \cup Good("RECURRENCE_DATA", RecurVals)
       \cup Short("RECURRENCE_DATA", Recurrence("Day", 1, 1)) \cup Good("FREEBUSY_FLAG", Num({3, 4}))
       \cup Good("CALENDAR_ID", Num({-1, 1})) \cup Short("TIMEZONE_CODE", <<"num", 1>>) \cup Other,
   Contact |-> Good("NAME", TextVals) \cup Good("COMPANY", TextVals) \cup Good("EMAIL", TextVals)
       \cup Good("PUBLIC_KEY", {Text("e-acute"), <<"binary", "x", 0>>, <<"binary", "x", 2>>}) \cup Good("GROUP_LINK", Num({1})) \cup Short("GROUP_LINK", <<"num", 1>>)
       \cup Good("GROUP_FLAG", Num({1})) \cup Good("CATEGORY", CatVals) \cup Good("UNIQUEID", Num({1}))
       \cup Good("BIRTHDAY", {<<"date", "d">>, <<"date", "bad">>}) \cup Other,
   Task |-> Good("TASK_TYPE", Num({1, 2})) \cup Good("TITLE", TextVals) \cup Good("START_TIME", TimeVals)
       \cup Good("DUE_TIME", TimeVals) \cup Good("ALARM_TIME", TimeVals) \cup Good("ALARM_TYPE", Num({2, 3}))
       \cup Good("DUE_FLAG", Num({1})) \cup Good("CATEGORY", CatVals) \cup Good("RECURRENCE_DATA", RecurVals)
       \cup Good("TIMEZONE_CODE", Num({1})) \cup Other,
   Memo |-> Good("MEMO_TYPE", Num({1, 2})) \cup Good("TITLE", TextVals) \cup Good("BODY", TextVals)
       \cup Good("CATEGORY", CatVals) \cup Other,
   ContentStore |-> Good("FILENAME", {Blank, Text("a")}) \cup Good("FOLDER_FLAG", {Text("folder"), Text("a")})
       \cup Good("FILE_DESCRIPTOR", {Text("a")}) \cup Other
       \cup Good("FILE_CONTENT", Num({0, 3}) \cup {<<"block", <<1, 2, 3>>>>, <<"block", <<4>>>>}),
   MessageBase |-> Good("TO", AddrVals) \cup Good("SUBJECT", TextVals) \cup Good("ATTACHMENT", {Text("e-acute")})
       \cup Short("RECORDID", <<"num", 1>>) \cup Good("REPLY_UNKNOWN", Num({1})) \cup Other,
   CallLog |-> Good("PHONE_NUMBER", TextVals) \cup Good("PHONE_TYPE", Num({3, 4}))
       \cup Good("STATUS", Num({1, 2, 9})) \cup Good("PHONE_INFO", Num({0, 64, 128})) \cup Good("DIRECTION", Num({3, 4}))
       \cup Good("DURATION", Num({1})) \cup Short("DURATION", <<"num", 1>>) \cup Other,
   Folder |-> Good("NAME", TextVals) \cup Good("LEVEL", Num({1})) \cup Other,
   TimeZone |-> Good("NAME", TextVals) \cup Short("INDEX", <<"num", 1>>) \cup Good("TZTYPE", Num({1, 2})) \cup Other,
   Sms |-> Good("METADATA", {<<"scheme", "7bit">>, <<"scheme", "ucs2">>}) \cup Short("METADATA", <<"scheme", "7bit">>)
       \cup Good("BODY", {<<"bytes">>}) \cup Good("ADDRESS", {Text("a")}) \cup Short("ADDRESS", Text("a")) \cup Other,
   ServiceBook |-> Good("NAME", TextVals) \cup Good("OLD_NAME", TextVals) \cup Good("DSID", {Text("e-acute")})
       \cup Good("CONFIG", {<<"packed", "good">>, <<"packed", "bad">>}) \cup Other,
   HandheldAgent3 |-> Good("MODEL", TextVals) \cup Good("MODEL_7", TextVals) \cup Other,
   HandheldAgent7 |-> Good("MODEL", TextVals) \cup Good("MODEL_7", TextVals) \cup Other,
   Bookmark |-> Good("BOOKMARK_TYPE", Num({1, 2})) \cup Good("STRUCT1", {<<"raw", 0>>})
       \cup Good("STRUCT2", {<<"raw", n>> : n \in 0..3}) \cup Other]

Set(code, vals) == {[code |-> code, val |-> v] : v \in vals}
(* Times of a program: unset, the first minute of 1970, later, the last. *)
ProgramTimes == {0, 1, Minute + 1, Word - 1}
Recurrences ==
    {[interval |-> n, end |-> e, perpetual |-> p, type |-> "Day", data |-> 0] :
        n \in {0, 1}, e \in {0, 1, Word - 1}, p \in BOOLEAN}
CatLists == {<<>>, <<Blank>>, <<Text("e-acute")>>, <<Text("a"), Blank>>, <<Blank, Blank, Text("a")>>}
MCEdits ==
  [t \in DOMAIN MCInputs |->
     CASE t = "Calendar" -> Set("SUBJECT", TextVals) \cup Set("START_TIME", ProgramTimes)
                            \cup Set("RECURRENCE_DATA", Recurrences)
       [] t = "Contact" -> Set("FIRST", TextVals) \cup Set("LAST", TextVals) \cup Set("CATEGORY", CatLists)
       [] t = "Task" -> Set("DUE_TIME", ProgramTimes) \cup Set("START_TIME", ProgramTimes)
                        \cup Set("ALARM_TIME", ProgramTimes) \cup Set("RECURRENCE_DATA", Recurrences)
       [] t = "Memo" -> Set("TITLE", TextVals) \cup Set("CATEGORY", CatLists)
       [] t = "ContentStore" -> Set("FILENAME", {Text("a")})
       [] OTHER -> {}]
=============================================================================
