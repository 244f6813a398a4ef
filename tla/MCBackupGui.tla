---------------------------- MODULE MCBackupGui ----------------------------
(* Instances of BackupGui for TLC.  One of the selected databases may be
   missing on the device, and one of the archives is torn: it ends the program
   when its records are counted, or stops the worker when it has become so
   after the count. *)
EXTENDS BackupGui

Rec(id) == [id |-> id, val |-> id, dirty |-> FALSE]
MCDbList == <<"contacts", "tasks">>
MCContents == {[contacts |-> <<Rec(1)>>, tasks |-> <<Rec(2)>>], [contacts |-> <<>>]}
Entry(d) == [db |-> d, whole |-> TRUE]
MCArchives ==
    {[entries |-> <<Entry("contacts"), Entry("tasks")>>, torn |-> FALSE],
     [entries |-> <<>>, torn |-> TRUE]}
=============================================================================
