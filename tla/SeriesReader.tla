---------------------------- MODULE SeriesReader ----------------------------
(***************************************************************************)
(* What a reader of a backup archive promises (src/src/restore.h): the     *)
(* selected records, once each and in the order of the archive, in series  *)
(* of one database, with an end reported between one series and the next.  *)
(* There is no look-ahead and no buffer here.  RestoreClient implements it.*)
(***************************************************************************)
EXTENDS Naturals, Sequences, FiniteSetsExt

CONSTANTS NoName    \* no database

VARIABLES rest,     \* the positions of the records still to come
          names,    \* names[i]: the database of the record at position i
          series,   \* the database of the series that is being read
          out       \* the positions that were delivered, in order

vars == <<rest, names, series, out>>

InSeries(i) == series = NoName \/ names[i] = series

Init ==
    /\ rest \in SUBSET DOMAIN names
    /\ series = NoName
    /\ out = <<>>

(* The filter is set up before the first call. *)
Choose(R) ==
    /\ series = NoName /\ out = <<>>
    /\ R \in SUBSET DOMAIN names /\ rest' = R
    /\ UNCHANGED <<names, series, out>>

Next1 ==
    /\ rest # {} /\ InSeries(Min(rest))
    /\ out' = Append(out, Min(rest))
    /\ rest' = rest \ {Min(rest)}
    /\ series' = names[Min(rest)]
    /\ UNCHANGED names

EndOfSeries ==
    /\ rest # {} /\ ~InSeries(Min(rest))
    /\ series' = names[Min(rest)]
    /\ UNCHANGED <<rest, names, out>>

(* What is left of the series is dropped; the next one begins. *)
Skip ==
    LET s == IF series = NoName /\ rest # {} THEN names[Min(rest)] ELSE series
        later == {i \in rest : names[i] # s}
    IN /\ rest' = IF later = {} THEN {} ELSE {i \in rest : i >= Min(later)}
       /\ series' = IF later = {} THEN s ELSE names[Min(later)]
       /\ UNCHANGED <<names, out>>

(* The archive turns out to be damaged: nothing more will come. *)
GiveUp ==
    /\ rest' = {}
    /\ UNCHANGED <<names, series, out>>

Next ==
    \/ \E R \in SUBSET DOMAIN names : Choose(R)
    \/ Next1 \/ EndOfSeries \/ Skip \/ GiveUp

Spec == Init /\ [][Next]_vars
=============================================================================
