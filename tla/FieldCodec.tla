----------------------------- MODULE FieldCodec -----------------------------
(***************************************************************************)
(* What the record classes do to single values (src/src/record.cc,         *)
(* time.cc, iconv.cc): character conversion, minutes since 1900, lists of  *)
(* categories.                                                             *)
(*                                                                         *)
(* A value is a tuple that starts with a tag.  A text is <<"text", t, k>>: *)
(* k counts the conversions from the device's character set minus those to *)
(* it, and stays 0 for a text without accents, which no conversion changes.*)
(***************************************************************************)
EXTENDS Integers, SequencesExt, FiniteSetsExt

CONSTANTS
    Word,      \* 2^32 in the code: the arithmetic of min1900_t is modulo Word
    Minute,    \* 60: seconds of a minute
    Diff       \* STDC_MIN1900_DIFF: minutes from 1900 to 1970

(* The epoch lies inside the range of the counter, as 1970 does. *)
ASSUME CodecAssumption ==
    /\ Word \in Nat /\ Minute \in Nat \ {0} /\ Diff \in Nat
    /\ Diff < Word - 1

Accented == {"e-acute"}
Text(t) == <<"text", t, 0>>
Blank == Text("")
Convert(v, n) == IF v[2] \in Accented THEN <<"text", v[2], v[3] + n>> ELSE v
(* IConverter::FromBB and ToBB; ic is false where the code has no converter. *)
FromBB(v, ic) == IF ic THEN Convert(v, 1) ELSE v
ToBB(v, ic) == IF ic THEN Convert(v, -1) ELSE v

(* Mutant: an unset time is written as zero. *)
time2min_zero(t) == IF t = 0 THEN 0 ELSE ((t \div Minute) + Diff) % Word
(* time2min and min2time, in uint32_t arithmetic. *)
time2min(t) == IF t = 0 THEN Word - 1 ELSE ((t \div Minute) + Diff) % Word
min2time(m) == IF m = Word - 1 THEN 0 ELSE ((m - Diff) * Minute) % Word

(* The minutes that survive the way to time_t and back: 1970, exclusive,
   to 2106. *)
Representable(m) == m = Word - 1 \/ (m > Diff /\ (m - Diff) * Minute < Word)

(* CategoryStr2List drops the blank names of a list.  The first one, before
   a leading comma, is the exception: its end index wraps around, and a blank
   name goes into the list. *)
CategoryStr2List(names) ==
    LET filled == SelectSeq(names, LAMBDA n : n # Blank)
    IN IF Len(names) > 1 /\ names[1] = Blank THEN <<Blank>> \o filled ELSE filled
(* CategoryList2Str joins with a comma what follows a non-empty string: the
   blank names in front leave nothing. *)
CategoryList2Str(names) ==
    LET filled == {i \in DOMAIN names : names[i] # Blank}
    IN IF filled = {} THEN <<>> ELSE SubSeq(names, Min(filled), Len(names))

(* ParseFieldString takes all NULs from the end of a string, BuildField puts
   one there.  A value <<"binary", b, n>> is a string that ends in n NULs; in a
   text they are left out. *)
ParseFieldString(v) == IF v[1] = "binary" THEN [v EXCEPT ![3] = 0] ELSE v
BuildFieldString(v) == IF v[1] = "binary" THEN [v EXCEPT ![3] = @ + 1] ELSE v
=============================================================================
