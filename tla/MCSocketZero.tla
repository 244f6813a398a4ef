---------------------------- MODULE MCSocketZero ----------------------------
(* Instances of SocketZero for TLC.  MinTries is the code's 3 and MaxTries *)
(* one or two more, so that the guard is met from both sides; SeqMod is    *)
(* small so that the sequence wraps around.                                *)
EXTENDS SocketZero
=============================================================================
