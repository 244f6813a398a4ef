----------------------------- MODULE MCMigrate -----------------------------
(* Instances of Migrate for TLC.  The source has a database that the target
   does not have, one of several records in which an id occurs twice, and one
   that is empty; the target has records of its own with one of the ids. *)
EXTENDS Migrate

Rec(id, val) == [id |-> id, val |-> val, dirty |-> FALSE]
MCDbList == <<"tasks", "contacts", "memos", "profiles">>
MCSources ==
    {[contacts |-> <<Rec(2, 11), Rec(3, 12)>>, tasks |-> <<>>,
      memos |-> <<Rec(3, 14), Rec(3, 15)>>, profiles |-> <<Rec(1, 16)>>]}
MCTargets ==
    {[contacts |-> <<Rec(3, 1), Rec(4, 2)>>, tasks |-> <<Rec(1, 3)>>, memos |-> <<>>]}
=============================================================================
