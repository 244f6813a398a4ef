------------------------------- MODULE DbName -------------------------------
(* Names of databases.  A record's database name is empty until it is set
   (src/src/data.h), and an object that works on no database holds the empty
   name. *)
CONSTANT NoName    \* the empty name
=============================================================================
