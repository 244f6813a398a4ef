--------------------------- MODULE AbstractQueue ---------------------------
(***************************************************************************)
(* What Barry::DataQueue promises its callers (src/src/dataqueue.h): a set *)
(* of FIFO queues on which every operation takes effect at one instant.    *)
(* There are no mutexes, no condition variable and no broadcast here: a    *)
(* push puts an item behind the others, a pop takes the first item or,     *)
(* only while the queue is empty, nothing, and append_from moves a prefix  *)
(* of one queue to the end of another.  DataQueue implements this module.  *)
(***************************************************************************)
EXTENDS Naturals, Sequences

CONSTANTS Threads,  \* the threads that call the queues
          Queues,   \* the queues
          Items,    \* the Data objects ever pushed
          Null      \* the null Data pointer

VARIABLES content,  \* content[q]: the items of q, oldest first
          result    \* result[t]: what the last pop of thread t returned

vars == <<content, result>>

Init ==
    /\ content = [q \in Queues |-> <<>>]
    /\ result = [t \in Threads |-> Null]

Put(q, d) ==
    /\ content' = [content EXCEPT ![q] = Append(content[q], d)]
    /\ UNCHANGED result

Take(t, q) ==
    /\ content[q] # <<>>
    /\ result' = [result EXCEPT ![t] = Head(content[q])]
    /\ content' = [content EXCEPT ![q] = Tail(content[q])]

TakeNothing(t, q) ==
    /\ content[q] = <<>>
    /\ result' = [result EXCEPT ![t] = Null]
    /\ UNCHANGED content

Move(us, them, k) ==
    /\ us # them
    /\ content' = [content EXCEPT
                    ![us]   = content[us] \o SubSeq(content[them], 1, k),
                    ![them] = SubSeq(content[them], k + 1, Len(content[them]))]
    /\ UNCHANGED result

Next ==
    \/ \E q \in Queues, d \in Items : Put(q, d)
    \/ \E t \in Threads, q \in Queues : Take(t, q) \/ TakeNothing(t, q)
    \/ \E us, them \in Queues : \E k \in 0..Len(content[them]) : Move(us, them, k)

Spec == Init /\ [][Next]_vars
=============================================================================
