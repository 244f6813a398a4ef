----------------------------- MODULE MCOpenSync -----------------------------
(* Instances of OpenSync for TLC.  A uid of the other member begins with a
   number: 1 is the number of the record on the device (and one whose record may
   have been deleted in the same sync), 2 is met by the first id that the plugin
   invents.  A uid that begins with 7, the number that the device gives to a
   record of its user, is left out: when that record is new since the table was
   read, the plugin cannot know that the id is taken. *)
EXTENDS OpenSync

Rec(id, v) == [id |-> id, val |-> v, dirty |-> TRUE]
MCDbs == <<"calendar", "contacts">>
MCContents == {[calendar |-> <<Rec(1, 1)>>, contacts |-> <<>>]}
MCPeerUids == {<<"num", 1>>, <<"num", 2>>}
=============================================================================
