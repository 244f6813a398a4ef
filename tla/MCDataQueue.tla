---------------------------- MODULE MCDataQueue ----------------------------
(* Instances of DataQueue for TLC: a socket's queue and the free list that *)
(* UnregisterInterest empties it into, two threads.                        *)
EXTENDS DataQueue

CONSTANTS t1, t2, socketq, freeq

TwoThreads == {t1, t2}
TwoQueues == {socketq, freeq}
FreeFromSocket == {<<freeq, socketq>>}
=============================================================================
