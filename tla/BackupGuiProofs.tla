-------------------------- MODULE BackupGuiProofs --------------------------
(***************************************************************************)
(* The theorems about the backup program, for any devices, databases,      *)
(* archives and number of operations: the Desktop object of a worker       *)
(* exists while it works, the progress that is shown and that is still in  *)
(* the pipe are together what was written to the archive, a backup that    *)
(* ends without an error is whole, and a restored database is as the file  *)
(* has it, or was reported.                                                *)
(***************************************************************************)
EXTENDS BackupGui, FiniteSetTheorems, TLAPS

-----------------------------------------------------------------------------
(* The inductive invariant. *)

(* What is in the pipe: updates of the list, and the signals of workers. *)
Signal == {Update} \cup (Devices \X {"progress", "error", "done"})

(* The places of the signal s of device d in the pipe p. *)
SentIn(p, d, s) == {k \in DOMAIN p : p[k] = <<d, s>>}
Progress(p, d) == SentIn(p, d, "progress")
Done(p, d) == SentIn(p, d, "done")

(* A list of some length, whatever its entries are. *)
List(s, n) == s = [i \in 1..n |-> s[i]]

ThreadFields == {"connected", "active", "marker", "op", "working", "finished", "total"}
GoodThread(t) ==
    /\ DOMAIN t = ThreadFields
    /\ t.connected \in BOOLEAN /\ t.active \in BOOLEAN /\ t.working \in BOOLEAN
    /\ t.finished \in Nat

WorkerFields == {"pc", "builder", "rd", "db"}

Objects ==
    /\ active \in Devices \cup {None} /\ crashed \in BOOLEAN
    /\ DOMAIN th = Devices /\ \A d \in Devices : GoodThread(th[d])
    /\ ifc \in [Devices -> [desktop : BOOLEAN, comm : {"valid", "partly", "invalid"}]]
    /\ DOMAIN worker = Devices /\ \A d \in Devices : DOMAIN worker[d] = WorkerFields
    /\ pipe \in Seq(Signal)
    /\ DOMAIN out = Devices
    /\ \A d \in Devices : Len(out[d]) \in Nat /\ List(out[d], Len(out[d]))
    /\ confirmed \subseteq Devices

(* Nobody made the user give the device up. *)
Kept(d) == d \notin confirmed /\ ~crashed

(* A worker has its Desktop object and has not said that it is done. *)
Working(d) ==
    worker[d].pc # "none" =>
        th[d].working /\ th[d].connected /\ ifc[d].desktop /\ Done(pipe, d) = {}

(* A device that does not work has nothing to say; the end of an operation is
   its last signal, and comes once. *)
Orderly(d) ==
    /\ ~th[d].working => Progress(pipe, d) = {} /\ Done(pipe, d) = {}
    /\ \A k \in Done(pipe, d) : /\ \A j \in Progress(pipe, d) : j < k
                                /\ \A j \in Done(pipe, d) : j = k

Counted(d) ==
    worker[d].pc = "backup" =>
        th[d].finished + Cardinality(Progress(pipe, d)) = Len(out[d])

Well(d) == Kept(d) => Working(d) /\ Orderly(d) /\ Counted(d)
IInv == Objects /\ \A d \in Devices : Well(d)

-----------------------------------------------------------------------------
(* What happens to the signals of one device when the pipe changes. *)

(* The order in Orderly, of any pipe. *)
OrderIn(p, d) ==
    \A k \in Done(p, d) : /\ \A j \in Progress(p, d) : j < k
                          /\ \A j \in Done(p, d) : j = k

(* The two pipes hold the same signals that count for d, at the same places. *)
Same(p, q, d) == Progress(q, d) = Progress(p, d) /\ Done(q, d) = Done(p, d)

LEMMA SignalsTyped ==
    /\ Update \in Signal
    /\ \A d \in Devices, s \in {"progress", "error", "done"} : <<d, s>> \in Signal /\ <<d, s>> # Update
  BY DEF Signal, Update

(* A signal at the end leaves the places of the others. *)
LEMMA AppendOther ==
  ASSUME NEW p \in Seq(Signal), NEW e \in Signal, NEW d, NEW s, e # <<d, s>>
  PROVE  SentIn(Append(p, e), d, s) = SentIn(p, d, s)
<1>1. /\ Append(p, e) \in Seq(Signal) /\ Len(Append(p, e)) = Len(p) + 1
      /\ Append(p, e)[Len(p) + 1] = e
      /\ \A k \in 1..Len(p) : Append(p, e)[k] = p[k]
  OBVIOUS
<1>2. DOMAIN p = 1..Len(p) /\ DOMAIN Append(p, e) = 1..(Len(p) + 1) /\ Len(p) \in Nat
  BY <1>1
<1> DEFINE v == <<d, s>>
<1>3. e # v
  OBVIOUS
<1>4. \A k : k \in DOMAIN Append(p, e) /\ Append(p, e)[k] = v
             <=> k \in DOMAIN p /\ p[k] = v
  <2> HIDE DEF v
  <2> QED BY <1>1, <1>2, <1>3
<1> QED BY <1>4 DEF SentIn

LEMMA AppendOwn ==
  ASSUME NEW p \in Seq(Signal), NEW d, NEW s, <<d, s>> \in Signal
  PROVE  /\ SentIn(Append(p, <<d, s>>), d, s) = SentIn(p, d, s) \cup {Len(p) + 1}
         /\ Len(p) + 1 \notin SentIn(p, d, s)
<1> DEFINE e == <<d, s>>
<1>1. /\ Append(p, e) \in Seq(Signal) /\ Len(Append(p, e)) = Len(p) + 1
      /\ Append(p, e)[Len(p) + 1] = e
      /\ \A k \in 1..Len(p) : Append(p, e)[k] = p[k]
  <2> HIDE DEF e
  <2>1. e \in Signal
    BY DEF e
  <2> QED BY <2>1
<1>2. DOMAIN p = 1..Len(p) /\ DOMAIN Append(p, e) = 1..(Len(p) + 1) /\ Len(p) \in Nat
  BY <1>1
<1>3. \A k : k \in DOMAIN Append(p, e) /\ Append(p, e)[k] = e
             <=> (k \in DOMAIN p /\ p[k] = e) \/ k = Len(p) + 1
  <2> HIDE DEF e
  <2> QED BY <1>1, <1>2
<1>4. Len(p) + 1 \notin DOMAIN p
  BY <1>2
<1> QED BY <1>3, <1>4 DEF SentIn

LEMMA PlacesFinite ==
  ASSUME NEW p \in Seq(Signal), NEW d, NEW s
  PROVE  /\ IsFiniteSet(SentIn(p, d, s)) /\ SentIn(p, d, s) \subseteq 1..Len(p)
         /\ Cardinality(SentIn(p, d, s)) \in Nat
<1>1. SentIn(p, d, s) \subseteq 1..Len(p) /\ Len(p) \in Nat
  BY DEF SentIn
<1>2. IsFiniteSet(1..Len(p))
  BY <1>1, FS_Interval
<1>3. IsFiniteSet(SentIn(p, d, s))
  BY <1>1, <1>2, FS_Subset
<1> QED BY <1>1, <1>3, FS_CardinalityType

(* One more signal of d is one more place. *)
LEMMA AppendCounts ==
  ASSUME NEW p \in Seq(Signal), NEW d, NEW s, <<d, s>> \in Signal
  PROVE  Cardinality(SentIn(Append(p, <<d, s>>), d, s)) = Cardinality(SentIn(p, d, s)) + 1
<1>1. PICK S, n : S = SentIn(p, d, s) /\ n = Len(p) + 1
  OBVIOUS
<1>2. SentIn(Append(p, <<d, s>>), d, s) = S \cup {n} /\ n \notin S
  BY <1>1, AppendOwn
<1>3. IsFiniteSet(S)
  BY <1>1, PlacesFinite
<1>4. Cardinality(S \cup {n}) = Cardinality(S) + 1
  BY <1>2, <1>3, FS_AddElement
<1> QED BY <1>1, <1>2, <1>4

(* The pipe without its first signal: every place moves by one. *)
LEMMA TailPlaces ==
  ASSUME NEW p \in Seq(Signal), p # <<>>, NEW d, NEW s
  PROVE  /\ Tail(p) \in Seq(Signal) /\ Head(p) \in Signal /\ Head(p) = p[1]
         /\ \A k \in SentIn(Tail(p), d, s) : k + 1 \in SentIn(p, d, s)
         /\ \A k \in SentIn(p, d, s) : k = 1 \/ k - 1 \in SentIn(Tail(p), d, s)
<1>1. /\ Tail(p) \in Seq(Signal) /\ Head(p) \in Signal /\ Head(p) = p[1]
      /\ Len(p) \in Nat /\ Len(Tail(p)) = Len(p) - 1 /\ Len(p) > 0
      /\ \A k \in 1..(Len(p) - 1) : Tail(p)[k] = p[k + 1]
  OBVIOUS
<1>2. DOMAIN p = 1..Len(p) /\ DOMAIN Tail(p) = 1..(Len(p) - 1)
  BY <1>1
<1>3. ASSUME NEW k \in SentIn(Tail(p), d, s) PROVE k + 1 \in SentIn(p, d, s)
  BY <1>1, <1>2, <1>3 DEF SentIn
<1>4. ASSUME NEW k \in SentIn(p, d, s), k # 1 PROVE k - 1 \in SentIn(Tail(p), d, s)
  <2>1. k \in 1..Len(p) /\ p[k] = <<d, s>>
    BY <1>2 DEF SentIn
  <2>2. k - 1 \in 1..(Len(p) - 1) /\ (k - 1) + 1 = k
    BY <1>1, <1>4, <2>1
  <2> QED BY <1>1, <1>2, <2>1, <2>2 DEF SentIn
<1> QED BY <1>1, <1>3, <1>4

LEMMA TailCounts ==
  ASSUME NEW p \in Seq(Signal), p # <<>>, NEW d, NEW s
  PROVE  Cardinality(SentIn(p, d, s)) =
             Cardinality(SentIn(Tail(p), d, s)) + (IF Head(p) = <<d, s>> THEN 1 ELSE 0)
<1> DEFINE S == SentIn(p, d, s)  T == SentIn(Tail(p), d, s)
<1>1. /\ Tail(p) \in Seq(Signal) /\ Head(p) = p[1]
      /\ \A k \in T : k + 1 \in S
      /\ \A k \in S : k = 1 \/ k - 1 \in T
  BY TailPlaces
<1>2. IsFiniteSet(S) /\ IsFiniteSet(T) /\ S \subseteq 1..Len(p) /\ T \subseteq 1..Len(Tail(p))
      /\ Cardinality(S) \in Nat /\ Cardinality(T) \in Nat
  BY <1>1, PlacesFinite
<1>3. Len(p) \in Nat /\ Len(Tail(p)) \in Nat
  BY <1>1
<1>4. 1 \in S <=> Head(p) = <<d, s>>
  <2>1. 1 \in DOMAIN p
    OBVIOUS
  <2> QED BY <1>1, <2>1 DEF SentIn
<1>5. Cardinality(T) = Cardinality(S \ {1})
  <2> DEFINE f == [k \in T |-> k + 1]
  <2>0. S \subseteq Nat /\ T \subseteq Nat \ {0}
    BY <1>2, <1>3
  <2>1. f \in Bijection(T, S \ {1})
    <3> HIDE DEF S, T
    <3>1. f \in [T -> S \ {1}]
      BY <1>1, <2>0
    <3>2. \A a, b \in T : f[a] = f[b] => a = b
      BY <2>0
    <3>3. ASSUME NEW k \in S \ {1} PROVE \E a \in T : f[a] = k
      <4>1. k - 1 \in T /\ f[k - 1] = k
        BY <1>1, <2>0
      <4> QED BY <4>1
    <3>4. f \in Injection(T, S \ {1})
      BY <3>1, <3>2 DEF Injection, IsInjective
    <3>5. f \in Surjection(T, S \ {1})
      BY <3>1, <3>3 DEF Surjection
    <3> QED BY <3>4, <3>5 DEF Bijection
  <2>2. IsFiniteSet(S \ {1})
    BY <1>2, FS_Subset
  <2>3. ExistsBijection(T, S \ {1})
    BY <2>1 DEF ExistsBijection
  <2> QED BY <1>2, <2>2, <2>3, FS_Bijection
<1>6. CASE Head(p) = <<d, s>>
  <2>1. Cardinality(S \ {1}) = Cardinality(S) - 1
    BY <1>2, <1>4, <1>6, FS_RemoveElement
  <2> QED BY <1>2, <1>5, <1>6, <2>1
<1>7. CASE Head(p) # <<d, s>>
  <2>1. S \ {1} = S
    BY <1>4, <1>7
  <2>2. Cardinality(S) = Cardinality(T)
    BY <1>5, <2>1
  <2>3. (IF Head(p) = <<d, s>> THEN 1 ELSE 0) = 0
    BY <1>7
  <2> QED BY <1>2, <2>2, <2>3
<1> QED BY <1>6, <1>7, Zenon

LEMMA TailEmpty ==
  ASSUME NEW p \in Seq(Signal), p # <<>>, NEW d, NEW s, SentIn(p, d, s) = {}
  PROVE  SentIn(Tail(p), d, s) = {}
  BY TailPlaces

LEMMA TailOrder ==
  ASSUME NEW p \in Seq(Signal), p # <<>>, NEW d, OrderIn(p, d)
  PROVE  OrderIn(Tail(p), d)
<1>1. /\ \A k \in Done(Tail(p), d) : k + 1 \in Done(p, d)
      /\ \A k \in Progress(Tail(p), d) : k + 1 \in Progress(p, d)
  BY TailPlaces DEF Done, Progress
<1>2. /\ \A k \in Done(Tail(p), d) : k \in Nat
      /\ \A k \in Progress(Tail(p), d) : k \in Nat
  <2>1. Tail(p) \in Seq(Signal)
    BY TailPlaces
  <2>2. Len(Tail(p)) \in Nat
    BY <2>1
  <2>3. /\ SentIn(Tail(p), d, "done") \subseteq 1..Len(Tail(p))
        /\ SentIn(Tail(p), d, "progress") \subseteq 1..Len(Tail(p))
    BY <2>1, PlacesFinite
  <2> QED BY <2>2, <2>3 DEF Done, Progress
<1>3. ASSUME NEW k \in Done(Tail(p), d), NEW j \in Progress(Tail(p), d) PROVE j < k
  BY <1>1, <1>2 DEF OrderIn
<1>4. ASSUME NEW k \in Done(Tail(p), d), NEW j \in Done(Tail(p), d) PROVE j = k
  BY <1>1, <1>2 DEF OrderIn
<1> QED BY <1>3, <1>4 DEF OrderIn

(* When the end of an operation is handled, nothing of it is left. *)
LEMMA TailOfDone ==
  ASSUME NEW p \in Seq(Signal), p # <<>>, NEW d, OrderIn(p, d), Head(p) = <<d, "done">>
  PROVE  Done(Tail(p), d) = {} /\ Progress(Tail(p), d) = {}
<1>1. 1 \in Done(p, d)
  <2>1. 1 \in DOMAIN p /\ p[1] = Head(p)
    OBVIOUS
  <2> QED BY <2>1 DEF Done, SentIn
<1>2. /\ \A k \in Done(Tail(p), d) : k + 1 \in Done(p, d)
      /\ \A k \in Progress(Tail(p), d) : k + 1 \in Progress(p, d)
  BY TailPlaces DEF Done, Progress
<1>3. /\ \A k \in Done(Tail(p), d) : k \in Nat \ {0}
      /\ \A k \in Progress(Tail(p), d) : k \in Nat \ {0}
  <2>1. Tail(p) \in Seq(Signal)
    BY TailPlaces
  <2>2. Len(Tail(p)) \in Nat
    BY <2>1
  <2>3. /\ SentIn(Tail(p), d, "done") \subseteq 1..Len(Tail(p))
        /\ SentIn(Tail(p), d, "progress") \subseteq 1..Len(Tail(p))
    BY <2>1, PlacesFinite
  <2> QED BY <2>2, <2>3 DEF Done, Progress
<1>4. \A k \in Done(Tail(p), d) : k + 1 = 1
  BY <1>1, <1>2 DEF OrderIn
<1>5. \A k \in Progress(Tail(p), d) : k + 1 < 1
  BY <1>1, <1>2 DEF OrderIn
<1> QED BY <1>3, <1>4, <1>5

(* An update changes nothing for the devices. *)
LEMMA ShownSame ==
  ASSUME NEW p \in Seq(Signal), NEW d \in Devices
  PROVE  Shown(p) \in Seq(Signal) /\ Same(p, Shown(p), d)
<1>1. Update \in Signal /\ Update # <<d, "progress">> /\ Update # <<d, "done">>
  BY SignalsTyped
<1>2. Append(p, Update) \in Seq(Signal) /\ Same(p, Append(p, Update), d)
  BY <1>1, AppendOther DEF Same, Progress, Done
<1> QED BY <1>2 DEF Shown, Same

(* What a worker sends is put at the end of the pipe. *)
Sent(d, ss) == [k \in DOMAIN ss |-> <<d, ss[k]>>]

LEMMA SendOne ==
  ASSUME NEW p \in Seq(Signal), NEW d \in Devices, NEW s \in {"progress", "error", "done"}
  PROVE  p \o Sent(d, <<s>>) = Append(p, <<d, s>>)
<1>1. <<d, s>> \in Signal
  BY SignalsTyped
<1>2. Sent(d, <<s>>) = << <<d, s>> >>
  BY DEF Sent
<1> DEFINE e == <<d, s>>
<1> HIDE DEF e
<1>3. p \o <<e>> = Append(p, e)
  BY <1>1 DEF e
<1> QED BY <1>2, <1>3 DEF e

LEMMA SendTwo ==
  ASSUME NEW p \in Seq(Signal), NEW d \in Devices,
         NEW s \in {"progress", "error", "done"}, NEW t \in {"progress", "error", "done"}
  PROVE  p \o Sent(d, <<s, t>>) = Append(Append(p, <<d, s>>), <<d, t>>)
<1>1. <<d, s>> \in Signal /\ <<d, t>> \in Signal
  BY SignalsTyped
<1>2. Sent(d, <<s, t>>) = << <<d, s>>, <<d, t>> >>
  BY DEF Sent
<1> DEFINE e == <<d, s>>  g == <<d, t>>
<1> HIDE DEF e, g
<1>3. e \in Signal /\ g \in Signal
  BY <1>1 DEF e, g
<1>4. p \o <<e, g>> = Append(Append(p, e), g)
  BY <1>3
<1> QED BY <1>2, <1>4 DEF e, g

(* Errors, and the signals of another device, do not count. *)
LEMMA SentByOther ==
  ASSUME NEW p \in Seq(Signal), NEW d \in Devices, NEW c \in Devices,
         NEW s \in {"progress", "error", "done"}, c # d \/ s = "error"
  PROVE  Append(p, <<d, s>>) \in Seq(Signal) /\ Same(p, Append(p, <<d, s>>), c)
<1>1. <<d, s>> \in Signal /\ <<d, s>> # <<c, "progress">> /\ <<d, s>> # <<c, "done">>
  BY SignalsTyped
<1>2. Append(p, <<d, s>>) \in Seq(Signal)
  BY <1>1
<1>3. Same(p, Append(p, <<d, s>>), c)
  BY <1>1, AppendOther DEF Same, Progress, Done
<1> QED BY <1>2, <1>3

LEMMA SentProgress ==
  ASSUME NEW p \in Seq(Signal), NEW d \in Devices
  PROVE  LET q == Append(p, <<d, "progress">>)
         IN /\ q \in Seq(Signal) /\ Done(q, d) = Done(p, d)
            /\ Cardinality(Progress(q, d)) = Cardinality(Progress(p, d)) + 1
<1>1. <<d, "progress">> \in Signal /\ <<d, "progress">> # <<d, "done">>
  BY SignalsTyped
<1>2. Append(p, <<d, "progress">>) \in Seq(Signal)
  BY <1>1
<1> QED BY <1>1, <1>2, AppendOther, AppendCounts DEF Progress, Done

LEMMA SentDone ==
  ASSUME NEW p \in Seq(Signal), NEW d \in Devices, Done(p, d) = {}
  PROVE  Append(p, <<d, "done">>) \in Seq(Signal) /\ OrderIn(Append(p, <<d, "done">>), d)
<1> DEFINE q == Append(p, <<d, "done">>)
<1>1. <<d, "done">> \in Signal /\ <<d, "done">> # <<d, "progress">>
  BY SignalsTyped
<1>2. q \in Seq(Signal)
  BY <1>1
<1>3. Done(q, d) = {Len(p) + 1}
  BY <1>1, AppendOwn DEF Done
<1>4. Progress(q, d) = Progress(p, d)
  BY <1>1, AppendOther DEF Progress
<1>5. Progress(p, d) \subseteq 1..Len(p) /\ Len(p) \in Nat
  BY PlacesFinite DEF Progress
<1> HIDE DEF q
<1>6. OrderIn(q, d)
  BY <1>3, <1>4, <1>5 DEF OrderIn
<1> QED BY <1>2, <1>6 DEF q

-----------------------------------------------------------------------------
(* What a step may do to one device. *)

(* Its signals and its operation stay, and its Desktop object stays if it needs
   it. *)
LEMMA Undisturbed ==
  ASSUME NEW d \in Devices, Well(d), Kept(d)' => Kept(d),
         worker'[d].pc # "none" => worker[d].pc # "none",
         Kept(d)' /\ worker'[d].pc = "backup" =>
             worker[d].pc = "backup" /\ Len(out'[d]) = Len(out[d])
             /\ th'[d].finished = th[d].finished,
         th'[d].working = th[d].working,
         Kept(d)' /\ worker'[d].pc # "none" => th'[d].connected /\ ifc'[d].desktop,
         Same(pipe, pipe', d)
  PROVE  Well(d)'
<1> SUFFICES ASSUME Kept(d)' PROVE Working(d)' /\ Orderly(d)' /\ Counted(d)'
  BY DEF Well
<1>1. Working(d) /\ Orderly(d) /\ Counted(d)
  BY DEF Well
<1>2. Progress(pipe', d) = Progress(pipe, d) /\ Done(pipe', d) = Done(pipe, d)
  BY DEF Same
<1>3. Working(d)'
  BY <1>1, <1>2 DEF Working
<1>4. Orderly(d)'
  BY <1>1, <1>2 DEF Orderly
<1>5. Counted(d)'
  BY <1>1, <1>2 DEF Counted
<1> QED BY <1>3, <1>4, <1>5

(* Its worker counts a record that it writes to the archive. *)
LEMMA WritesRecord ==
  ASSUME NEW d \in Devices, Well(d), Kept(d)' => Kept(d), pipe \in Seq(Signal),
         worker[d].pc # "none", worker'[d].pc # "none",
         worker'[d].pc = "backup" => worker[d].pc = "backup" /\ Len(out'[d]) = Len(out[d]) + 1,
         th' = th, ifc' = ifc, th[d].finished \in Nat,
         pipe' = Append(pipe, <<d, "progress">>)
           \/ pipe' = Append(Append(pipe, <<d, "progress">>), <<d, "error">>)
  PROVE  Well(d)'
<1> SUFFICES ASSUME Kept(d)' PROVE Working(d)' /\ Orderly(d)' /\ Counted(d)'
  BY DEF Well
<1>1. Working(d) /\ Counted(d)
  BY DEF Well
<1> DEFINE q == Append(pipe, <<d, "progress">>)
<1>2. /\ q \in Seq(Signal) /\ Done(q, d) = Done(pipe, d)
      /\ Cardinality(Progress(q, d)) = Cardinality(Progress(pipe, d)) + 1
  BY SentProgress
<1>3. Progress(pipe', d) = Progress(q, d) /\ Done(pipe', d) = Done(q, d)
  <2> HIDE DEF q
  <2>1. CASE pipe' = q
    BY <2>1
  <2>2. CASE pipe' = Append(q, <<d, "error">>)
    BY <1>2, <2>2, SentByOther DEF Same
  <2> QED BY <2>1, <2>2 DEF q
<1> HIDE DEF q
<1>4. Done(pipe', d) = {} /\ th[d].working
  BY <1>1, <1>2, <1>3 DEF Working
<1>5. Working(d)'
  BY <1>1, <1>4 DEF Working
<1>6. Orderly(d)'
  BY <1>4 DEF Orderly
<1>7. Counted(d)'
  <2>1. Cardinality(Progress(pipe, d)) \in Nat
    BY PlacesFinite DEF Progress
  <2>2. Cardinality(Progress(pipe', d)) = Cardinality(Progress(pipe, d)) + 1
    BY <1>2, <1>3
  <2>3. ASSUME worker'[d].pc = "backup"
        PROVE  th[d].finished + Cardinality(Progress(pipe', d)) = Len(out'[d])
    <3>1. th[d].finished + Cardinality(Progress(pipe, d)) = Len(out[d])
      BY <1>1, <2>3 DEF Counted
    <3>2. Len(out'[d]) = Len(out[d]) + 1
      BY <2>3
    <3> DEFINE f == th[d].finished  c == Cardinality(Progress(pipe, d))
               e == Cardinality(Progress(pipe', d))  m == Len(out[d])  n == Len(out'[d])
    <3>3. f \in Nat /\ c \in Nat /\ e = c + 1 /\ f + c = m /\ n = m + 1
      BY <2>1, <2>2, <3>1, <3>2
    <3> HIDE DEF f, c, e, m, n
    <3>4. f + e = n
      BY <3>3
    <3> QED BY <3>4 DEF f, e, n
  <2> QED BY <2>3 DEF Counted
<1> QED BY <1>5, <1>6, <1>7

(* Its worker ends. *)
LEMMA SaysDone ==
  ASSUME NEW d \in Devices, Well(d), Kept(d)' => Kept(d), pipe \in Seq(Signal),
         worker[d].pc # "none", worker'[d].pc = "none", th' = th,
         pipe' = Append(pipe, <<d, "done">>)
           \/ pipe' = Append(Append(pipe, <<d, "error">>), <<d, "done">>)
  PROVE  Well(d)'
<1> SUFFICES ASSUME Kept(d)' PROVE Working(d)' /\ Orderly(d)' /\ Counted(d)'
  BY DEF Well
<1>1. Working(d)
  BY DEF Well
<1>2. th[d].working /\ Done(pipe, d) = {}
  BY <1>1 DEF Working
<1>3. OrderIn(pipe', d)
  <2>1. CASE pipe' = Append(pipe, <<d, "done">>)
    BY <1>2, <2>1, SentDone
  <2> DEFINE q == Append(pipe, <<d, "error">>)
  <2>2. CASE pipe' = Append(q, <<d, "done">>)
    <3>1. q \in Seq(Signal) /\ Done(q, d) = {}
      BY <1>2, SentByOther DEF Same
    <3> HIDE DEF q
    <3> QED BY <2>2, <3>1, SentDone
  <2> QED BY <2>1, <2>2
<1>4. Working(d)' /\ Counted(d)'
  BY DEF Working, Counted
<1>5. Orderly(d)'
  BY <1>2, <1>3 DEF Orderly, OrderIn
<1> QED BY <1>4, <1>5

-----------------------------------------------------------------------------
(* The GUI thread. *)

LEMMA UnsetActiveKeeps ==
  ASSUME NEW t, GoodThread(t)
  PROVE  /\ GoodThread(UnsetActive(t))
         /\ UnsetActive(t).working = t.working /\ UnsetActive(t).finished = t.finished
         /\ t.working => UnsetActive(t).connected = t.connected
<1>1. CASE t.working
  <2>1. UnsetActive(t) = [t EXCEPT !.active = FALSE]
    BY <1>1 DEF UnsetActive
  <2> QED BY <1>1, <2>1 DEF GoodThread, ThreadFields
<1>2. CASE ~t.working
  <2>1. UnsetActive(t) = [[t EXCEPT !.active = FALSE] EXCEPT !.connected = FALSE]
    BY <1>2 DEF UnsetActive, Disconnected
  <2> QED BY <1>2, <2>1 DEF GoodThread, ThreadFields
<1> QED BY <1>1, <1>2

Interfaces == [desktop : BOOLEAN, comm : {"valid", "partly", "invalid"}]

LEMMA ResultTyped ==
  ASSUME NEW r \in ConnectResults
  PROVE  r.ok \in BOOLEAN /\ r.desktop \in BOOLEAN /\ (r.ok => r.desktop)
<1>1. \/ r = [ok |-> TRUE, desktop |-> TRUE] \/ r = [ok |-> FALSE, desktop |-> TRUE]
      \/ r = [ok |-> FALSE, desktop |-> FALSE]
  BY DEF ConnectResults
<1>2. \/ r.ok = TRUE /\ r.desktop = TRUE
      \/ r.ok = FALSE /\ r.desktop = TRUE
      \/ r.ok = FALSE /\ r.desktop = FALSE
  BY <1>1
<1> QED BY <1>2

LEMMA ConnectTyped ==
  ASSUME NEW t, NEW r \in Connects(t)
  PROVE  /\ r.ok \in BOOLEAN /\ r.desktop \in BOOLEAN
         /\ r.ok => r.desktop
         /\ t.connected => r.ok /\ r.desktop
<1>1. CASE t.connected
  <2>1. r = [ok |-> TRUE, desktop |-> TRUE]
    BY <1>1 DEF Connects
  <2> QED BY <2>1
<1>2. CASE ~t.connected
  <2>1. r \in ConnectResults
    BY <1>2 DEF Connects
  <2> QED BY <1>2, <2>1, ResultTyped
<1> QED BY <1>1, <1>2

LEMMA DeviceChangeKeeps ==
  ASSUME IInv, NEW s \in Devices \cup {None}, OnDeviceChange(s)
  PROVE  IInv'
<1> DEFINE left == IF active = None THEN th ELSE [th EXCEPT ![active] = UnsetActive(@)]
           closed == [d \in Devices |->
                         IF th[d].connected /\ ~left[d].connected THEN Closed(ifc[d]) ELSE ifc[d]]
<1>1. Objects /\ None \notin Devices
  BY BackupGuiAssumption DEF IInv
<1>2. /\ DOMAIN left = Devices
      /\ \A d \in Devices : /\ GoodThread(left[d])
                            /\ left[d].working = th[d].working /\ left[d].finished = th[d].finished
                            /\ th[d].working => left[d].connected = th[d].connected
  <2>1. CASE active = None
    BY <1>1, <2>1 DEF Objects
  <2>2. CASE active # None
    <3>1. active \in Devices /\ GoodThread(th[active]) /\ DOMAIN th = Devices
      BY <1>1, <2>2 DEF Objects
    <3>2. left = [th EXCEPT ![active] = UnsetActive(th[active])]
      BY <2>2
    <3> HIDE DEF left
    <3>3. /\ DOMAIN left = Devices /\ left[active] = UnsetActive(th[active])
          /\ \A d \in Devices : d # active => left[d] = th[d]
      BY <3>1, <3>2
    <3>4. \A d \in Devices : GoodThread(th[d])
      BY <1>1 DEF Objects
    <3> QED BY <3>1, <3>3, <3>4, UnsetActiveKeeps
  <2> QED BY <2>1, <2>2
<1>3. /\ closed \in [Devices -> Interfaces]
      /\ \A d \in Devices : th[d].working => closed[d] = ifc[d]
  <2>1. ifc \in [Devices -> Interfaces]
    BY <1>1 DEF Objects, Interfaces
  <2>2. \A d \in Devices : Closed(ifc[d]) \in Interfaces
    BY <2>1 DEF Closed, Interfaces
  <2> HIDE DEF left
  <2> QED BY <1>2, <2>1, <2>2
<1>4. /\ \/ s = None /\ th' = left /\ ifc' = closed
         \/ /\ s # None
            /\ \E r \in Connects(left[s]) :
                /\ th' = [left EXCEPT ![s].connected = r.ok,
                                      ![s].active = IF r.ok THEN TRUE ELSE @]
                /\ ifc' = [closed EXCEPT ![s].desktop = r.desktop]
      /\ pipe' = Shown(pipe) \/ pipe' = pipe
      /\ active' = s /\ ~crashed /\ UNCHANGED <<worker, tail, devices, crashed, history>>
  BY Zenon DEF OnDeviceChange
<1> HIDE DEF left, closed
<1>5. /\ DOMAIN th' = Devices /\ ifc' \in [Devices -> Interfaces]
      /\ \A d \in Devices : /\ GoodThread(th'[d])
                            /\ th'[d].working = th[d].working /\ th'[d].finished = th[d].finished
                            /\ th[d].working /\ th[d].connected /\ ifc[d].desktop
                               => th'[d].connected /\ ifc'[d].desktop
  <2>1. CASE s = None /\ th' = left /\ ifc' = closed
    BY <1>2, <1>3, <2>1
  <2>2. ASSUME s # None, NEW r \in Connects(left[s]),
               th' = [left EXCEPT ![s].connected = r.ok,
                                  ![s].active = IF r.ok THEN TRUE ELSE @],
               ifc' = [closed EXCEPT ![s].desktop = r.desktop]
        PROVE  <1>5!:
    <3>1. s \in Devices /\ GoodThread(left[s])
      BY <1>2, <2>2
    <3>2. r.ok \in BOOLEAN /\ r.desktop \in BOOLEAN /\ (left[s].connected => r.ok /\ r.desktop)
      BY <3>1, ConnectTyped
    <3>3. /\ DOMAIN th' = Devices
          /\ \A d \in Devices : d # s => th'[d] = left[d] /\ ifc'[d] = closed[d]
      BY <1>2, <1>3, <2>2, <3>1
    <3>4. /\ GoodThread(th'[s]) /\ th'[s].connected = r.ok
          /\ th'[s].working = left[s].working /\ th'[s].finished = left[s].finished
      BY <1>2, <2>2, <3>1, <3>2 DEF GoodThread, ThreadFields
    <3>5. ifc' \in [Devices -> Interfaces] /\ ifc'[s].desktop = r.desktop
      BY <1>3, <2>2, <3>1, <3>2 DEF Interfaces
    <3> QED BY <1>2, <1>3, <3>1, <3>2, <3>3, <3>4, <3>5
  <2> QED BY <1>4, <2>1, <2>2
<1>6. pipe \in Seq(Signal)
  BY <1>1 DEF Objects
<1>7. \A d \in Devices : Same(pipe, pipe', d)
  BY <1>4, <1>6, ShownSame DEF Same
<1>8. pipe' \in Seq(Signal)
  BY <1>4, <1>6, SignalsTyped DEF Shown
<1>9. Objects'
  BY <1>1, <1>4, <1>5, <1>8 DEF Objects, Interfaces, devices, history, List
<1>10. ASSUME NEW d \in Devices PROVE Well(d)'
  <2>1. Well(d) /\ (Kept(d)' => Kept(d)) /\ worker' = worker /\ out' = out
    BY <1>4 DEF IInv, Kept, devices, history
  <2>2. Kept(d)' /\ worker'[d].pc # "none" => th'[d].connected /\ ifc'[d].desktop
    BY <1>5, <2>1 DEF Well, Working
  <2> QED BY <1>5, <1>7, <2>1, <2>2, Undisturbed
<1> QED BY <1>9, <1>10 DEF IInv

(* A Connect on the way to something else. *)
LEMMA ConfigKeeps ==
  ASSUME IInv, NEW s \in Devices, OnConfig(s)
  PROVE  IInv'
<1>1. Objects
  BY DEF IInv
<1>2. PICK r \in Connects(th[s]) :
        /\ th' = [th EXCEPT ![s].connected = r.ok]
        /\ ifc' = [ifc EXCEPT ![s].desktop = r.desktop]
        /\ pipe' = IF r.ok # th[s].connected THEN Shown(pipe) ELSE pipe
  BY DEF OnConfig
<1>3. ~crashed /\ UNCHANGED <<active, worker, tail, devices, crashed, history>>
  BY DEF OnConfig
<1>4. r.ok \in BOOLEAN /\ r.desktop \in BOOLEAN /\ (th[s].connected => r.ok /\ r.desktop)
  BY ConnectTyped
<1>5. /\ DOMAIN th' = Devices
      /\ \A d \in Devices : GoodThread(th'[d]) /\ th'[d].working = th[d].working
                            /\ th'[d].finished = th[d].finished
                            /\ (th[d].connected => th'[d].connected)
  BY <1>1, <1>2, <1>4 DEF Objects, GoodThread, ThreadFields
<1>6. /\ ifc' \in [Devices -> Interfaces]
      /\ \A d \in Devices : th[d].connected /\ ifc[d].desktop => ifc'[d].desktop
  BY <1>1, <1>2, <1>4 DEF Objects, Interfaces
<1>7. pipe \in Seq(Signal) /\ pipe' \in Seq(Signal)
  BY <1>1, <1>2, SignalsTyped DEF Objects, Shown
<1>8. \A d \in Devices : Same(pipe, pipe', d)
  BY <1>2, <1>7, ShownSame DEF Same
<1>9. Objects'
  BY <1>1, <1>3, <1>5, <1>6, <1>7 DEF Objects, Interfaces, devices, history, List
<1>10. ASSUME NEW d \in Devices PROVE Well(d)'
  <2>1. Well(d) /\ (Kept(d)' => Kept(d)) /\ worker' = worker /\ out' = out
    BY <1>3 DEF IInv, Kept, devices, history
  <2>2. Kept(d)' /\ worker'[d].pc # "none" => th'[d].connected /\ ifc'[d].desktop
    BY <1>5, <1>6, <2>1 DEF Well, Working
  <2> QED BY <1>5, <1>8, <2>1, <2>2, Undisturbed
<1> QED BY <1>9, <1>10 DEF IInv

(* Only a device that the user gives up loses the object it works with. *)
LEMMA DisconnectKeeps ==
  ASSUME IInv, NEW s \in Devices, OnDisconnect(s)
  PROVE  IInv'
<1>1. Objects
  BY DEF IInv
<1>2. /\ ~crashed /\ UNCHANGED <<active, worker, tail, devices, crashed>>
      /\ th' = [th EXCEPT ![s].connected = FALSE]
      /\ ifc' = [ifc EXCEPT ![s].desktop = FALSE]
      /\ confirmed' = IF th[s].working THEN confirmed \cup {s} ELSE confirmed
      /\ pipe' = Shown(pipe)
  BY <1>1 DEF OnDisconnect, Disconnected, Closed, Objects
<1>3. /\ DOMAIN th' = Devices
      /\ \A d \in Devices : GoodThread(th'[d]) /\ th'[d].working = th[d].working
                            /\ th'[d].finished = th[d].finished
                            /\ (d # s => th'[d] = th[d] /\ ifc'[d] = ifc[d])
  BY <1>1, <1>2 DEF Objects, GoodThread, ThreadFields
<1>4. ifc' \in [Devices -> Interfaces]
  BY <1>1, <1>2 DEF Objects, Interfaces
<1>5. pipe \in Seq(Signal) /\ pipe' \in Seq(Signal)
  BY <1>1, <1>2, SignalsTyped DEF Objects, Shown
<1>6. \A d \in Devices : Same(pipe, pipe', d)
  BY <1>2, <1>5, ShownSame
<1>7. Objects'
  BY <1>1, <1>2, <1>3, <1>4, <1>5 DEF Objects, Interfaces, devices, List
<1>8. ASSUME NEW d \in Devices PROVE Well(d)'
  <2>1. Well(d) /\ (Kept(d)' => Kept(d)) /\ worker' = worker /\ out' = out
    BY <1>2 DEF IInv, Kept, devices
  <2>2. Kept(d)' /\ worker'[d].pc # "none" => th'[d].connected /\ ifc'[d].desktop
    <3> SUFFICES ASSUME Kept(d)', worker[d].pc # "none"
                 PROVE  th'[d].connected /\ ifc'[d].desktop
      BY <2>1
    <3>1. th[d].working /\ th[d].connected /\ ifc[d].desktop
      BY <2>1 DEF Well, Working
    <3>2. d # s
      BY <1>2, <3>1 DEF Kept
    <3> QED BY <1>3, <3>1, <3>2
  <2> QED BY <1>3, <1>6, <2>1, <2>2, Undisturbed
<1> QED BY <1>7, <1>8 DEF IInv

(* A scan leaves nothing of the devices, unless it crashes a worker. *)
LEMMA ScanKeeps ==
  ASSUME IInv, Scan
  PROVE  IInv'
<1>1. Objects
  BY DEF IInv
<1>2. /\ ~crashed /\ confirmed' = confirmed \cup {d \in Devices : th[d].working}
      /\ crashed' = \E d \in Devices : Alive(d)
      /\ active' = First /\ pipe' = <<Update>>
      /\ UNCHANGED <<worker, tail, devices, errors, file, ops, faults>>
  BY DEF Scan
<1>3. PICK a \in BOOLEAN, m \in BOOLEAN, r \in ConnectResults :
        /\ th' = [d \in Devices |->
                    IF d = First THEN [NewThread(a \/ r.ok, m) EXCEPT !.connected = r.ok]
                    ELSE NewThread(a, m)]
        /\ ifc' = [d \in Devices |-> IF d = First THEN [NewInterface EXCEPT !.desktop = r.desktop]
                                     ELSE NewInterface]
  BY DEF Scan
<1>4. r.ok \in BOOLEAN /\ r.desktop \in BOOLEAN
  BY ResultTyped
<1>5. \A b, c \in BOOLEAN : LET t == NewThread(b, c)
                                u == [t EXCEPT !.connected = r.ok]
                            IN GoodThread(t) /\ ~t.working /\ GoodThread(u) /\ ~u.working
  BY <1>4 DEF NewThread, GoodThread, ThreadFields
<1>6. DOMAIN th' = Devices /\ \A d \in Devices : GoodThread(th'[d]) /\ ~th'[d].working
  <2>1. (a \/ r.ok) \in BOOLEAN
    OBVIOUS
  <2> QED BY <1>3, <1>5, <2>1
<1>7. ifc' \in [Devices -> Interfaces]
  BY <1>3, <1>4 DEF NewInterface, Interfaces
<1>8. /\ pipe' \in Seq(Signal)
      /\ \A d \in Devices : Progress(pipe', d) = {} /\ Done(pipe', d) = {}
  <2>1. /\ Update \in Signal
        /\ \A d \in Devices : Update # <<d, "progress">> /\ Update # <<d, "done">>
    BY SignalsTyped
  <2> DEFINE e == Update
  <2> HIDE DEF e
  <2>2. <<e>> \in Seq(Signal) /\ DOMAIN <<e>> = {1} /\ <<e>>[1] = e
    BY <2>1 DEF e
  <2> QED BY <1>2, <2>1, <2>2 DEF Progress, Done, SentIn, e
<1>9. Objects'
  <2>1. First \in Devices
    BY BackupGuiAssumption
  <2>2. crashed' \in BOOLEAN /\ confirmed' \subseteq Devices
    BY <1>1, <1>2 DEF Objects
  <2> QED BY <1>1, <1>2, <1>6, <1>7, <1>8, <2>1, <2>2 DEF Objects, Interfaces, devices, List
<1>10. ASSUME NEW d \in Devices PROVE Well(d)'
  <2> SUFFICES ASSUME Kept(d)' PROVE Working(d)' /\ Orderly(d)' /\ Counted(d)'
    BY DEF Well
  <2>1. worker'[d].pc = "none"
    BY <1>2 DEF Kept, Alive
  <2> QED BY <1>6, <1>8, <2>1 DEF Working, Orderly, Counted
<1> QED BY <1>9, <1>10 DEF IInv

(* A backup or a restore starts on a device that does not work, so that nothing
   of an earlier one is in the pipe or in the count. *)
LEMMA StartsKeeps ==
  ASSUME IInv, NEW s \in Devices, NEW op, NEW total, NEW a, Starts(s, op, total, a)
  PROVE  IInv'
<1>1. Objects
  BY DEF IInv
<1>2. PICK r \in Connects(th[s]) :
        LET t == [th[s] EXCEPT !.connected = r.ok]
            free == r.ok /\ ~t.working
            started == free /\ ifc[s].comm # "valid"
        IN /\ th' = [th EXCEPT ![s] =
                        IF started THEN Begun(t, op, total)
                        ELSE IF free THEN [t EXCEPT !.total = total, !.finished = 0] ELSE t]
           /\ ifc' = [ifc EXCEPT ![s].desktop = r.desktop,
                                 ![s].comm = IF started THEN "valid" ELSE @]
           /\ pipe' = IF started \/ r.ok # th[s].connected THEN Shown(pipe) ELSE pipe
           /\ IF started
              THEN /\ worker' = [worker EXCEPT ![s] =
                        IF op = "BACKUP"
                        THEN [Idle EXCEPT !.pc = "backup", !.builder = NewBuilder(DbList)]
                        ELSE [Idle EXCEPT !.pc = "look"]]
                   /\ out' = [out EXCEPT ![s] = <<>>]
                   /\ errors' = [errors EXCEPT ![s] = {}] /\ file' = [file EXCEPT ![s] = a]
              ELSE UNCHANGED <<worker, out, errors, file>>
  BY Zenon DEF Starts
<1> DEFINE t == [th[s] EXCEPT !.connected = r.ok]
           free == r.ok /\ ~th[s].working
           started == free /\ ifc[s].comm # "valid"
<1>3. ~crashed /\ UNCHANGED <<active, tail, data, crashed, confirmed, scans, faults>>
  BY DEF Starts
<1>4. r.ok \in BOOLEAN /\ r.desktop \in BOOLEAN /\ (r.ok => r.desktop)
      /\ (th[s].connected => r.ok /\ r.desktop)
  BY ConnectTyped
<1>5. /\ GoodThread(th[s]) /\ GoodThread(t) /\ t.connected = r.ok
      /\ t.working = th[s].working /\ t.finished = th[s].finished
  BY <1>1, <1>4 DEF Objects, GoodThread, ThreadFields
<1>6. /\ th' = [th EXCEPT ![s] = IF started THEN Begun(t, op, total)
                        ELSE IF free THEN [t EXCEPT !.total = total, !.finished = 0] ELSE t]
      /\ ifc' = [ifc EXCEPT ![s].desktop = r.desktop,
                            ![s].comm = IF started THEN "valid" ELSE @]
      /\ pipe' = Shown(pipe) \/ pipe' = pipe
      /\ started => /\ worker' = [worker EXCEPT ![s] =
                            IF op = "BACKUP"
                            THEN [Idle EXCEPT !.pc = "backup", !.builder = NewBuilder(DbList)]
                            ELSE [Idle EXCEPT !.pc = "look"]]
                    /\ out' = [out EXCEPT ![s] = <<>>]
      /\ ~started => UNCHANGED <<worker, out>>
  BY <1>2, <1>5
<1> HIDE DEF t
<1>7. /\ DOMAIN th' = Devices
      /\ \A d \in Devices : d # s => th'[d] = th[d] /\ ifc'[d] = ifc[d]
  BY <1>1, <1>6 DEF Objects
<1>8. /\ GoodThread(th'[s]) /\ th'[s].connected = r.ok
      /\ started => th'[s].working /\ th'[s].finished = 0
      /\ ~started => th'[s].working = th[s].working
      /\ ~free => th'[s].finished = th[s].finished
  <2>1. th'[s] = IF started THEN Begun(t, op, total)
                 ELSE IF free THEN [t EXCEPT !.total = total, !.finished = 0] ELSE t
    BY <1>1, <1>6 DEF Objects
  <2> HIDE DEF free, started
  <2>2. CASE started
    <3>1. started => free
      BY DEF started
    <3> QED BY <1>4, <1>5, <2>1, <2>2, <3>1 DEF Begun, GoodThread, ThreadFields
  <2>3. CASE ~started /\ free
    BY <1>4, <1>5, <2>1, <2>3 DEF GoodThread, ThreadFields
  <2>4. CASE ~started /\ ~free
    BY <1>4, <1>5, <2>1, <2>4 DEF GoodThread, ThreadFields
  <2> QED BY <2>2, <2>3, <2>4
<1>9. ifc' \in [Devices -> Interfaces] /\ ifc'[s].desktop = r.desktop
  <2> DEFINE c == IF started THEN "valid" ELSE ifc[s].comm
  <2>1. ifc \in [Devices -> Interfaces]
    BY <1>1 DEF Objects, Interfaces
  <2>2. ifc' = [ifc EXCEPT ![s] = [@ EXCEPT !.desktop = r.desktop, !.comm = c]]
    BY <1>6, <2>1 DEF Interfaces
  <2>3. c \in {"valid", "partly", "invalid"}
    BY <2>1 DEF Interfaces
  <2> HIDE DEF c
  <2> QED BY <1>4, <2>1, <2>2, <2>3 DEF Interfaces
<1>10. pipe \in Seq(Signal) /\ pipe' \in Seq(Signal)
  <2>1. pipe' = Shown(pipe) \/ pipe' = pipe
    BY <1>6
  <2>2. pipe \in Seq(Signal)
    BY <1>1 DEF Objects
  <2> QED BY <2>1, <2>2, SignalsTyped DEF Shown
<1>11. \A d \in Devices : Same(pipe, pipe', d)
  BY <1>6, <1>10, ShownSame DEF Same
<1>12. /\ DOMAIN worker' = Devices /\ \A d \in Devices : DOMAIN worker'[d] = WorkerFields
       /\ \A d \in Devices : d # s => worker'[d] = worker[d]
       /\ started => worker'[s].pc \in {"backup", "look"}
  <2> HIDE DEF started
  <2>1. CASE started
    <3> DEFINE b == [Idle EXCEPT !.pc = "backup", !.builder = NewBuilder(DbList)]
               l == [Idle EXCEPT !.pc = "look"]
    <3>1. DOMAIN b = WorkerFields /\ b.pc = "backup" /\ DOMAIN l = WorkerFields /\ l.pc = "look"
      BY DEF Idle, WorkerFields
    <3> HIDE DEF b, l
    <3>2. worker' = [worker EXCEPT ![s] = IF op = "BACKUP" THEN b ELSE l]
      BY <1>6, <2>1 DEF b, l
    <3> QED BY <1>1, <3>1, <3>2 DEF Objects
  <2>2. CASE ~started
    BY <1>1, <1>6, <2>2 DEF Objects
  <2> QED BY <2>1, <2>2
<1>13. /\ DOMAIN out' = Devices
       /\ \A d \in Devices : d # s => out'[d] = out[d]
       /\ started => out'[s] = <<>>
       /\ ~started => out' = out
  <2> HIDE DEF started
  <2> QED BY <1>1, <1>6 DEF Objects
<1>14. \A d \in Devices : Len(out'[d]) \in Nat /\ List(out'[d], Len(out'[d]))
  <2>1. Len(<<>>) = 0 /\ List(<<>>, 0)
    BY DEF List
  <2> HIDE DEF started
  <2> QED BY <1>1, <1>13, <2>1 DEF Objects
<1>15. Objects'
  BY <1>1, <1>3, <1>7, <1>8, <1>9, <1>10, <1>12, <1>13, <1>14 DEF Objects, Interfaces
<1>16. ASSUME NEW d \in Devices PROVE Well(d)'
  <2>1. Well(d) /\ (Kept(d)' => Kept(d))
    BY <1>3 DEF IInv, Kept
  <2>2. CASE d # s
    <3>1. worker'[d] = worker[d] /\ out'[d] = out[d] /\ th'[d] = th[d] /\ ifc'[d] = ifc[d]
      BY <1>7, <1>12, <1>13, <2>2
    <3>2. Kept(d)' /\ worker'[d].pc # "none" => th'[d].connected /\ ifc'[d].desktop
      BY <2>1, <3>1 DEF Well, Working
    <3> QED BY <1>11, <2>1, <3>1, <3>2, Undisturbed
  <2>3. CASE d = s /\ ~started
    <3>1. worker' = worker /\ out' = out /\ th'[d].working = th[d].working
      BY <1>6, <1>8, <2>3
    <3>2. Kept(d)' /\ worker'[d].pc # "none" =>
              /\ th'[d].connected /\ ifc'[d].desktop
              /\ th'[d].finished = th[d].finished
      <4> SUFFICES ASSUME Kept(d)', worker[d].pc # "none"
                   PROVE  /\ th'[d].connected /\ ifc'[d].desktop
                          /\ th'[d].finished = th[d].finished
        BY <3>1
      <4>1. th[d].working /\ th[d].connected
        BY <2>1 DEF Well, Working
      <4> QED BY <1>4, <1>8, <1>9, <2>3, <4>1
    <3>3. Kept(d)' /\ worker'[d].pc = "backup" =>
              worker[d].pc = "backup" /\ Len(out'[d]) = Len(out[d])
              /\ th'[d].finished = th[d].finished
      BY <3>1, <3>2
    <3> QED BY <1>11, <2>1, <3>1, <3>2, <3>3, Undisturbed
  <2>4. CASE d = s /\ started
    <3> SUFFICES ASSUME Kept(d)' PROVE Working(d)' /\ Orderly(d)' /\ Counted(d)'
      BY DEF Well
    <3>1. Progress(pipe', d) = {} /\ Done(pipe', d) = {}
      BY <1>11, <2>1, <2>4 DEF Well, Orderly, Same
    <3>2. th'[d].working /\ th'[d].connected /\ ifc'[d].desktop /\ th'[d].finished = 0
      BY <1>4, <1>8, <1>9, <2>4
    <3>3. Working(d)' /\ Orderly(d)'
      BY <3>1, <3>2 DEF Working, Orderly
    <3>4. Cardinality({}) = 0 /\ Len(out'[d]) = 0
      BY <1>13, <2>4, FS_EmptySet
    <3>5. Counted(d)'
      BY <3>1, <3>2, <3>4 DEF Counted
    <3> QED BY <3>3, <3>5
  <2> QED BY <2>2, <2>3, <2>4
<1> QED BY <1>15, <1>16 DEF IInv

(* The program is gone. *)
LEMMA RestoreThrowsKeeps ==
  ASSUME IInv, NEW s \in Devices, NEW a, RestoreThrows(s, a)
  PROVE  IInv'
<1>1. crashed' = TRUE /\ UNCHANGED <<active, th, ifc, worker, pipe, out, confirmed>>
  BY DEF RestoreThrows, devices
<1>2. Objects'
  BY <1>1 DEF IInv, Objects, List
<1>3. ASSUME NEW d \in Devices PROVE Well(d)'
  BY <1>1 DEF Well, Kept
<1> QED BY <1>2, <1>3 DEF IInv

-----------------------------------------------------------------------------
(* The signal handlers. *)

(* What handling one signal does to a device: a progress of its own moves from
   the pipe to the count. *)
LEMMA Handled ==
  ASSUME NEW d \in Devices, Well(d), Kept(d)' => Kept(d),
         pipe \in Seq(Signal), pipe # <<>>, Head(pipe) # <<d, "done">>,
         Same(Tail(pipe), pipe', d), worker' = worker, out' = out,
         Kept(d)' /\ worker[d].pc # "none" => th'[d].connected /\ ifc'[d].desktop,
         th'[d].working = th[d].working, th[d].finished \in Nat,
         th'[d].finished = th[d].finished + (IF Head(pipe) = <<d, "progress">> THEN 1 ELSE 0)
  PROVE  Well(d)'
<1> SUFFICES ASSUME Kept(d)' PROVE Working(d)' /\ Orderly(d)' /\ Counted(d)'
  BY DEF Well
<1>1. Working(d) /\ Orderly(d) /\ Counted(d)
  BY DEF Well
<1>2. Progress(pipe', d) = Progress(Tail(pipe), d) /\ Done(pipe', d) = Done(Tail(pipe), d)
  BY DEF Same
<1>3. /\ Done(pipe, d) = {} => Done(Tail(pipe), d) = {}
      /\ Progress(pipe, d) = {} => Progress(Tail(pipe), d) = {}
  BY TailEmpty DEF Done, Progress
<1>4. OrderIn(Tail(pipe), d)
  BY <1>1, TailOrder DEF Orderly, OrderIn
<1>5. Working(d)'
  BY <1>1, <1>2, <1>3 DEF Working
<1>6. Orderly(d)'
  BY <1>1, <1>2, <1>3, <1>4 DEF Orderly, OrderIn
<1>7. Counted(d)'
  <2> DEFINE one == IF Head(pipe) = <<d, "progress">> THEN 1 ELSE 0
             p == Cardinality(Progress(pipe, d))  q == Cardinality(Progress(Tail(pipe), d))
             f == th[d].finished
  <2>1. p = q + one
    BY TailCounts DEF Progress
  <2>2. Tail(pipe) \in Seq(Signal)
    OBVIOUS
  <2>3. q \in Nat /\ one \in Nat
    BY <2>2, PlacesFinite DEF Progress
  <2>4. worker[d].pc = "backup" => f + p = Len(out[d])
    BY <1>1 DEF Counted
  <2>5. th'[d].finished = f + one /\ f \in Nat
    OBVIOUS
  <2>6. Cardinality(Progress(pipe', d)) = q
    BY <1>2
  <2> HIDE DEF one, p, q, f
  <2>7. (f + one) + q = f + p
    BY <2>1, <2>3, <2>5
  <2> QED BY <2>4, <2>5, <2>6, <2>7 DEF Counted
<1> QED BY <1>5, <1>6, <1>7

(* Who sent the signal that is handled. *)
LEMMA FromDevice ==
  ASSUME Objects, NEW s \in {"progress", "error", "done"}, Takes(s)
  PROVE  Sender \in Devices /\ Head(pipe) = <<Sender, s>> /\ pipe \in Seq(Signal) /\ pipe # <<>>
<1>1. pipe \in Seq(Signal) /\ pipe # <<>> /\ Head(pipe)[2] = s
  BY DEF Takes, Objects
<1>2. Head(pipe) \in Signal
  BY <1>1
<1>3. Head(pipe) \in Devices \X {"progress", "error", "done"}
  <2>1. Head(pipe) # Update
    BY <1>1 DEF Update
  <2> QED BY <1>2, <2>1 DEF Signal
<1> QED BY <1>1, <1>3 DEF Sender

LEMMA ThreadProgressKeeps ==
  ASSUME IInv, OnThreadProgress
  PROVE  IInv'
<1>1. Objects
  BY DEF IInv
<1>2. Takes("progress") /\ ~crashed
  BY DEF OnThreadProgress, Takes
<1>3. Sender \in Devices /\ Head(pipe) = <<Sender, "progress">> /\ pipe \in Seq(Signal) /\ pipe # <<>>
  BY <1>1, <1>2, FromDevice
<1>4. /\ th' = [th EXCEPT ![Sender].finished = @ + 1] /\ pipe' = Shown(Tail(pipe))
      /\ UNCHANGED <<active, ifc, worker, tail, devices, crashed, history>>
  BY DEF OnThreadProgress
<1>5. Tail(pipe) \in Seq(Signal)
  BY <1>3
<1>6. pipe' \in Seq(Signal) /\ \A d \in Devices : Same(Tail(pipe), pipe', d)
  BY <1>3, <1>4, <1>5, ShownSame
<1> HIDE DEF Sender
<1>7. /\ DOMAIN th' = Devices
      /\ \A d \in Devices : /\ GoodThread(th'[d]) /\ th'[d].working = th[d].working
                            /\ th'[d].connected = th[d].connected /\ th[d].finished \in Nat
                            /\ d = Sender => th'[d].finished = th[d].finished + 1
                            /\ d # Sender => th'[d].finished = th[d].finished
  BY <1>1, <1>3, <1>4 DEF Objects, GoodThread, ThreadFields
<1>8. Objects'
  BY <1>1, <1>4, <1>6, <1>7 DEF Objects, devices, history, List
<1>9. ASSUME NEW d \in Devices PROVE Well(d)'
  <2>1. Well(d) /\ (Kept(d)' => Kept(d)) /\ worker' = worker /\ out' = out /\ ifc' = ifc
    BY <1>2, <1>4 DEF IInv, Kept, devices, history
  <2>2. Kept(d)' /\ worker[d].pc # "none" => th'[d].connected /\ ifc'[d].desktop
    BY <1>7, <2>1 DEF Well, Working
  <2>3. Head(pipe) # <<d, "done">>
    BY <1>3
  <2>4. Head(pipe) = <<d, "progress">> <=> d = Sender
    BY <1>3
  <2>5. th'[d].finished = th[d].finished + (IF Head(pipe) = <<d, "progress">> THEN 1 ELSE 0)
    BY <1>7, <2>4
  <2> QED BY <1>3, <1>6, <1>7, <2>1, <2>2, <2>3, <2>5, Handled
<1> QED BY <1>8, <1>9 DEF IInv

(* Errors are shown, and change no count. *)
LEMMA ThreadErrorKeeps ==
  ASSUME IInv, OnThreadError
  PROVE  IInv'
<1>1. Objects
  BY DEF IInv
<1>2. Takes("error") /\ ~crashed
  BY DEF OnThreadError, Takes
<1>3. Sender \in Devices /\ Head(pipe) = <<Sender, "error">> /\ pipe \in Seq(Signal) /\ pipe # <<>>
  BY <1>1, <1>2, FromDevice
<1>4. pipe' = Tail(pipe) /\ UNCHANGED <<active, th, ifc, worker, tail, devices, crashed, history>>
  BY DEF OnThreadError
<1>5. pipe' \in Seq(Signal)
  BY <1>3, <1>4
<1>6. Objects'
  BY <1>1, <1>4, <1>5 DEF Objects, devices, history, List
<1>7. ASSUME NEW d \in Devices PROVE Well(d)'
  <2>1. /\ Well(d) /\ (Kept(d)' => Kept(d)) /\ worker' = worker /\ out' = out
        /\ ifc' = ifc /\ th' = th
    BY <1>2, <1>4 DEF IInv, Kept, devices, history
  <2>2. Kept(d)' /\ worker[d].pc # "none" => th'[d].connected /\ ifc'[d].desktop
    BY <2>1 DEF Well, Working
  <2>3. Head(pipe) # <<d, "done">> /\ Head(pipe) # <<d, "progress">>
    BY <1>3
  <2>4. th[d].finished \in Nat
    BY <1>1 DEF Objects, GoodThread
  <2>5. th'[d].finished = th[d].finished + (IF Head(pipe) = <<d, "progress">> THEN 1 ELSE 0)
    BY <2>1, <2>3, <2>4
  <2>6. Same(Tail(pipe), pipe', d)
    BY <1>4 DEF Same
  <2> QED BY <1>3, <2>1, <2>2, <2>3, <2>4, <2>5, <2>6, Handled
<1> QED BY <1>6, <1>7 DEF IInv

LEMMA TreeviewKeeps ==
  ASSUME IInv, TreeviewUpdate
  PROVE  IInv'
<1>1. Objects
  BY DEF IInv
<1>2. /\ ~crashed /\ pipe # <<>> /\ Head(pipe)[2] = "update" /\ pipe' = Tail(pipe)
      /\ crashed' = \E d \in Devices : Compares(th[d]) /\ ~ifc[d].desktop
      /\ th' = [d \in Devices |-> [th[d] EXCEPT !.marker = FALSE]]
      /\ UNCHANGED <<active, ifc, worker, tail, devices, history>>
  BY DEF TreeviewUpdate, Takes
<1>3. pipe \in Seq(Signal) /\ pipe' \in Seq(Signal)
  BY <1>1, <1>2 DEF Objects
<1>4. /\ DOMAIN th' = Devices
      /\ \A d \in Devices : /\ GoodThread(th'[d]) /\ th'[d].working = th[d].working
                            /\ th'[d].connected = th[d].connected /\ th[d].finished \in Nat
                            /\ th'[d].finished = th[d].finished
  BY <1>1, <1>2 DEF Objects, GoodThread, ThreadFields
<1>5. crashed' \in BOOLEAN
  BY <1>2
<1>6. Objects'
  BY <1>1, <1>2, <1>3, <1>4, <1>5 DEF Objects, devices, history, List
<1>7. ASSUME NEW d \in Devices PROVE Well(d)'
  <2>1. Well(d) /\ (Kept(d)' => Kept(d)) /\ worker' = worker /\ out' = out /\ ifc' = ifc
    BY <1>2 DEF IInv, Kept, devices, history
  <2>2. Kept(d)' /\ worker[d].pc # "none" => th'[d].connected /\ ifc'[d].desktop
    BY <1>4, <2>1 DEF Well, Working
  <2>3. Head(pipe) # <<d, "done">> /\ Head(pipe) # <<d, "progress">>
    BY <1>2
  <2>4. th'[d].finished = th[d].finished + (IF Head(pipe) = <<d, "progress">> THEN 1 ELSE 0)
    BY <1>4, <2>3
  <2>5. Same(Tail(pipe), pipe', d)
    BY <1>2 DEF Same
  <2> QED BY <1>2, <1>3, <1>4, <2>1, <2>2, <2>3, <2>4, <2>5, Handled
<1> QED BY <1>6, <1>7 DEF IInv

(* The end of an operation: nothing of it is left in the pipe, and its worker
   is gone. *)
LEMMA ThreadDoneKeeps ==
  ASSUME IInv, OnThreadDone
  PROVE  IInv'
<1> DEFINE t == [th[Sender] EXCEPT !.working = FALSE, !.marker = TRUE]
           leaves == ~t.active /\ t.connected
<1>1. Objects
  BY DEF IInv
<1>2. Takes("done") /\ ~crashed
  BY DEF OnThreadDone, Takes
<1>3. Sender \in Devices /\ Head(pipe) = <<Sender, "done">> /\ pipe \in Seq(Signal) /\ pipe # <<>>
  BY <1>1, <1>2, FromDevice
<1>4. /\ th' = [th EXCEPT ![Sender] = IF leaves THEN Disconnected(t) ELSE t]
      /\ ifc' = [ifc EXCEPT ![Sender] = IF leaves THEN Closed(ifc[Sender]) ELSE ifc[Sender]]
      /\ pipe' = Shown(Tail(pipe)) \/ pipe' = Tail(pipe)
      /\ UNCHANGED <<active, worker, tail, devices, crashed, history>>
  BY DEF OnThreadDone
<1>5. GoodThread(t) /\ ~t.working /\ GoodThread(Disconnected(t)) /\ ~Disconnected(t).working
  BY <1>1, <1>3 DEF Objects, GoodThread, ThreadFields, Disconnected
<1>6. ifc \in [Devices -> Interfaces] /\ Closed(ifc[Sender]) \in Interfaces
  BY <1>1, <1>3 DEF Objects, Interfaces, Closed
<1> HIDE DEF t, leaves, Sender
<1>7. /\ DOMAIN th' = Devices /\ GoodThread(th'[Sender]) /\ ~th'[Sender].working
      /\ \A d \in Devices : d # Sender => th'[d] = th[d] /\ ifc'[d] = ifc[d]
      /\ ifc' \in [Devices -> Interfaces]
  BY <1>1, <1>3, <1>4, <1>5, <1>6 DEF Objects
<1>8. Tail(pipe) \in Seq(Signal)
  BY <1>3
<1>9. pipe' \in Seq(Signal) /\ \A d \in Devices : Same(Tail(pipe), pipe', d)
  BY <1>3, <1>4, <1>8, ShownSame DEF Same
<1>10. Objects'
  BY <1>1, <1>4, <1>7, <1>9 DEF Objects, Interfaces, devices, history, List
<1>11. ASSUME NEW d \in Devices PROVE Well(d)'
  <2>1. Well(d) /\ (Kept(d)' => Kept(d)) /\ worker' = worker /\ out' = out
    BY <1>2, <1>4 DEF IInv, Kept, devices, history
  <2>2. CASE d = Sender
    <3> SUFFICES ASSUME Kept(d)' PROVE Working(d)' /\ Orderly(d)' /\ Counted(d)'
      BY DEF Well
    <3>1. Working(d) /\ OrderIn(pipe, d)
      BY <2>1 DEF Well, Orderly, OrderIn
    <3>2. Progress(pipe', d) = {} /\ Done(pipe', d) = {}
      BY <1>3, <1>9, <2>2, <3>1, TailOfDone DEF Same
    <3>3. 1 \in Done(pipe, d)
      <4>1. 1 \in DOMAIN pipe /\ pipe[1] = Head(pipe)
        BY <1>3
      <4> QED BY <1>3, <2>2, <4>1 DEF Done, SentIn
    <3>4. worker'[d].pc = "none"
      BY <2>1, <3>1, <3>3 DEF Working
    <3> QED BY <3>2, <3>4 DEF Working, Orderly, Counted
  <2>3. CASE d # Sender
    <3>1. th'[d] = th[d] /\ ifc'[d] = ifc[d] /\ th[d].finished \in Nat
      BY <1>1, <1>7, <2>3 DEF Objects, GoodThread
    <3>2. Kept(d)' /\ worker[d].pc # "none" => th'[d].connected /\ ifc'[d].desktop
      BY <2>1, <3>1 DEF Well, Working
    <3>3. Head(pipe) # <<d, "done">> /\ Head(pipe) # <<d, "progress">>
      BY <1>3, <2>3
    <3>4. th'[d].finished = th[d].finished + (IF Head(pipe) = <<d, "progress">> THEN 1 ELSE 0)
      BY <3>1, <3>3
    <3> QED BY <1>3, <1>9, <2>1, <3>1, <3>2, <3>3, <3>4, Handled
  <2> QED BY <2>2, <2>3
<1> QED BY <1>10, <1>11 DEF IInv

-----------------------------------------------------------------------------
(* The workers. *)

LEMMA AppendList ==
  ASSUME NEW n \in Nat, NEW s, List(s, n), Len(s) = n, NEW e
  PROVE  Len(Append(s, e)) = n + 1 /\ List(Append(s, e), n + 1)
<1> DEFINE R == {s[i] : i \in 1..n} \cup {e}
<1>1. s \in Seq(R)
  <2>1. s = [i \in 1..n |-> s[i]]
    BY DEF List
  <2>2. [i \in 1..n |-> s[i]] \in [1..n -> R]
    OBVIOUS
  <2>3. s \in [1..n -> R]
    BY <2>1, <2>2
  <2> QED BY <2>3
<1>2. Append(s, e) \in Seq(R) /\ Len(Append(s, e)) = n + 1
  <2>1. e \in R
    OBVIOUS
  <2> HIDE DEF R
  <2> QED BY <1>1, <2>1
<1>3. Append(s, e) = [i \in 1..(n + 1) |-> Append(s, e)[i]]
  <2> HIDE DEF R
  <2>1. \A t \in Seq(R) : t = [i \in 1..Len(t) |-> t[i]]
    OBVIOUS
  <2> QED BY <1>2, <2>1
<1> QED BY <1>2, <1>3 DEF List

(* What a step of the worker of d leaves alone. *)
Apart(d) ==
    /\ ~crashed /\ worker[d].pc # "none" /\ UNCHANGED <<active, th, ifc, confirmed>>
    /\ DOMAIN worker' = Devices /\ DOMAIN worker'[d] = WorkerFields
    /\ \A c \in Devices \ {d} : worker'[c] = worker[c]
    /\ out' = out \/ \E e : out' = [out EXCEPT ![d] = Append(@, e)]

(* What it does: it fails on an object that is gone; goes on, perhaps with an
   error; counts a record; or ends. *)
Fails == crashed' = TRUE /\ pipe' = pipe
GoesOn(d) ==
    /\ crashed' = crashed /\ out' = out
    /\ pipe' = pipe \/ pipe' = Append(pipe, <<d, "error">>)
    /\ worker'[d].pc = "backup" => worker[d].pc = "backup"
Counts(d) ==
    /\ crashed' = crashed /\ worker'[d].pc # "none"
    /\ \/ pipe' = Append(pipe, <<d, "progress">>)
       \/ pipe' = Append(Append(pipe, <<d, "progress">>), <<d, "error">>)
    /\ worker'[d].pc = "backup" => /\ worker[d].pc = "backup"
                                   /\ \E e : out' = [out EXCEPT ![d] = Append(@, e)]
Finishes(d) ==
    /\ crashed' = crashed /\ worker'[d].pc = "none"
    /\ \/ pipe' = Append(pipe, <<d, "done">>)
       \/ pipe' = Append(Append(pipe, <<d, "error">>), <<d, "done">>)

LEMMA WorkerKeepsIt ==
  ASSUME IInv, NEW d \in Devices, Apart(d), Fails \/ GoesOn(d) \/ Counts(d) \/ Finishes(d)
  PROVE  IInv'
<1>1. Objects
  BY DEF IInv
<1>2. /\ DOMAIN out' = Devices
      /\ \A c \in Devices : Len(out'[c]) \in Nat /\ List(out'[c], Len(out'[c]))
      /\ \A c \in Devices : c # d => out'[c] = out[c]
      /\ (\E e : out' = [out EXCEPT ![d] = Append(@, e)]) => Len(out'[d]) = Len(out[d]) + 1
  <2>0. /\ DOMAIN out = Devices
        /\ \A c \in Devices : Len(out[c]) \in Nat /\ List(out[c], Len(out[c]))
    BY <1>1 DEF Objects
  <2>1. \A e : Len(Append(out[d], e)) = Len(out[d]) + 1 /\ List(Append(out[d], e), Len(out[d]) + 1)
    BY <2>0, AppendList
  <2>2. \A e : out' = [out EXCEPT ![d] = Append(@, e)] =>
                 /\ DOMAIN out' = Devices /\ out'[d] = Append(out[d], e)
                 /\ \A c \in Devices : c # d => out'[c] = out[c]
    BY <2>0
  <2>3. (\E e : out' = [out EXCEPT ![d] = Append(@, e)]) => Len(out'[d]) = Len(out[d]) + 1
    BY <2>1, <2>2
  <2>4. CASE out' = out
    BY <2>0, <2>4, <2>3
  <2>5. ASSUME NEW e, out' = [out EXCEPT ![d] = Append(@, e)] PROVE <1>2!:
    <3>1. /\ DOMAIN out' = Devices /\ out'[d] = Append(out[d], e)
          /\ \A c \in Devices : c # d => out'[c] = out[c]
      BY <2>2, <2>5
    <3>2. Len(out'[d]) = Len(out[d]) + 1 /\ List(out'[d], Len(out[d]) + 1)
      BY <2>1, <3>1
    <3>3. Len(out[d]) + 1 \in Nat
      BY <2>0
    <3>4. \A c \in Devices : Len(out'[c]) \in Nat /\ List(out'[c], Len(out'[c]))
      BY <2>0, <3>1, <3>2, <3>3
    <3> QED BY <2>3, <3>1, <3>4
  <2> QED BY <2>4, <2>5 DEF Apart
<1>3. pipe \in Seq(Signal)
  BY <1>1 DEF Objects
<1>4. /\ pipe' \in Seq(Signal)
      /\ \A c \in Devices : c # d => Same(pipe, pipe', c)
  <2>1. \A p \in Seq(Signal), s \in {"progress", "error", "done"} :
          /\ Append(p, <<d, s>>) \in Seq(Signal)
          /\ \A c \in Devices : c # d => Same(p, Append(p, <<d, s>>), c)
    <3> TAKE p \in Seq(Signal), s \in {"progress", "error", "done"}
    <3>1. <<d, s>> \in Signal
      BY SignalsTyped
    <3>2. Append(p, <<d, s>>) \in Seq(Signal)
      BY <3>1
    <3>3. \A c \in Devices : c # d => Same(p, Append(p, <<d, s>>), c)
      BY SentByOther
    <3> QED BY <3>2, <3>3
  <2>2. \A s, u \in {"progress", "error", "done"} :
          LET q == Append(Append(pipe, <<d, s>>), <<d, u>>)
          IN q \in Seq(Signal) /\ \A c \in Devices : c # d => Same(pipe, q, c)
    <3> SUFFICES ASSUME NEW s \in {"progress", "error", "done"}, NEW u \in {"progress", "error", "done"}
                 PROVE  LET q == Append(Append(pipe, <<d, s>>), <<d, u>>)
                        IN q \in Seq(Signal) /\ \A c \in Devices : c # d => Same(pipe, q, c)
      OBVIOUS
    <3> DEFINE p == Append(pipe, <<d, s>>)
    <3>1. p \in Seq(Signal) /\ \A c \in Devices : c # d => Same(pipe, p, c)
      BY <1>3, <2>1
    <3> HIDE DEF p
    <3>2. Append(p, <<d, u>>) \in Seq(Signal)
          /\ \A c \in Devices : c # d => Same(p, Append(p, <<d, u>>), c)
      BY <2>1, <3>1
    <3> QED BY <3>1, <3>2 DEF p, Same
  <2>3. CASE pipe' = pipe
    BY <1>3, <2>3 DEF Same
  <2>4. CASE \E s \in {"progress", "error", "done"} : pipe' = Append(pipe, <<d, s>>)
    BY <1>3, <2>1, <2>4
  <2>5. CASE \E s, u \in {"progress", "error", "done"} :
               pipe' = Append(Append(pipe, <<d, s>>), <<d, u>>)
    BY <2>2, <2>5
  <2> QED BY <2>3, <2>4, <2>5 DEF Fails, GoesOn, Counts, Finishes
<1>5. Objects'
  <2>1. crashed' \in BOOLEAN
    BY <1>1 DEF Objects, Fails, GoesOn, Counts, Finishes
  <2> QED BY <1>1, <1>2, <1>4, <2>1 DEF Objects, Apart
<1>6. ASSUME NEW c \in Devices PROVE Well(c)'
  <2>1. Well(c) /\ (Kept(c)' => Kept(c)) /\ th' = th /\ ifc' = ifc
    BY DEF IInv, Kept, Apart
  <2>2. CASE Fails
    BY <2>2 DEF Fails, Well, Kept
  <2>3. CASE c # d
    <3>1. worker'[c] = worker[c] /\ out'[c] = out[c] /\ Same(pipe, pipe', c)
      BY <1>2, <1>4, <2>3 DEF Apart
    <3>2. Kept(c)' /\ worker'[c].pc # "none" => th'[c].connected /\ ifc'[c].desktop
      BY <2>1, <3>1 DEF Well, Working
    <3> QED BY <2>1, <3>1, <3>2, Undisturbed
  <2>4. worker[d].pc # "none" /\ th[d].finished \in Nat
    BY <1>1 DEF Apart, Objects, GoodThread
  <2>5. CASE c = d /\ GoesOn(d)
    <3>1. Same(pipe, pipe', d)
      <4>1. CASE pipe' = pipe
        BY <4>1 DEF Same
      <4>2. CASE pipe' = Append(pipe, <<d, "error">>)
        BY <1>3, <4>2, SentByOther
      <4> QED BY <2>5, <4>1, <4>2 DEF GoesOn
    <3>2. Kept(d)' => th'[d].connected /\ ifc'[d].desktop
      BY <2>1, <2>4, <2>5 DEF Well, Working
    <3>3. out' = out /\ (worker'[d].pc = "backup" => worker[d].pc = "backup")
      BY <2>5 DEF GoesOn
    <3> QED BY <2>1, <2>4, <2>5, <3>1, <3>2, <3>3, Undisturbed
  <2>6. CASE c = d /\ Counts(d)
    <3>1. worker'[d].pc = "backup" => worker[d].pc = "backup" /\ Len(out'[d]) = Len(out[d]) + 1
      BY <1>2, <2>6 DEF Counts
    <3>2. /\ worker'[d].pc # "none"
          /\ \/ pipe' = Append(pipe, <<d, "progress">>)
             \/ pipe' = Append(Append(pipe, <<d, "progress">>), <<d, "error">>)
      BY <2>6 DEF Counts
    <3> QED BY <1>3, <2>1, <2>4, <2>6, <3>1, <3>2, WritesRecord
  <2>7. CASE c = d /\ Finishes(d)
    <3>1. /\ worker'[d].pc = "none"
          /\ \/ pipe' = Append(pipe, <<d, "done">>)
             \/ pipe' = Append(Append(pipe, <<d, "error">>), <<d, "done">>)
      BY <2>7 DEF Finishes
    <3> QED BY <1>3, <2>1, <2>4, <2>7, <3>1, SaysDone
  <2> QED BY <2>2, <2>3, <2>5, <2>6, <2>7
<1> QED BY <1>5, <1>6 DEF IInv

(* Every signal goes through the dispatchers, or uses one that is gone. *)
LEMMA SignalsDo ==
  ASSUME Objects, ~crashed, NEW d \in Devices
  PROVE  /\ \A s \in {"progress", "error", "done"} :
              Signals(d, <<s>>) => Fails \/ (crashed' = crashed /\ pipe' = Append(pipe, <<d, s>>))
         /\ \A s, u \in {"progress", "error", "done"} :
              Signals(d, <<s, u>>) =>
                  Fails \/ (crashed' = crashed /\ pipe' = Append(Append(pipe, <<d, s>>), <<d, u>>))
<1>1. pipe \in Seq(Signal)
  BY DEF Objects
<1>2. ASSUME NEW ss, Signals(d, ss)
      PROVE  Fails \/ (crashed' = crashed /\ pipe' = pipe \o Sent(d, ss))
  BY <1>2 DEF Signals, Sent, Fails
<1>3. ASSUME NEW s \in {"progress", "error", "done"}, Signals(d, <<s>>)
      PROVE  Fails \/ (crashed' = crashed /\ pipe' = Append(pipe, <<d, s>>))
  BY <1>1, <1>2, <1>3, SendOne
<1>4. ASSUME NEW s \in {"progress", "error", "done"}, NEW u \in {"progress", "error", "done"},
             Signals(d, <<s, u>>)
      PROVE  Fails \/ (crashed' = crashed /\ pipe' = Append(Append(pipe, <<d, s>>), <<d, u>>))
  <2>1. pipe \o Sent(d, <<s, u>>) = Append(Append(pipe, <<d, s>>), <<d, u>>)
    BY <1>1, SendTwo
  <2>2. Fails \/ (crashed' = crashed /\ pipe' = pipe \o Sent(d, <<s, u>>))
    BY <1>2, <1>4
  <2> QED BY <2>1, <2>2
<1> QED BY <1>3, <1>4

LEMMA EndsDo ==
  ASSUME Objects, NEW d \in Devices, NEW failed \in BOOLEAN, ~crashed, worker[d].pc # "none",
         Ends(d, failed), UNCHANGED <<active, th, ifc, confirmed>>, UNCHANGED out
  PROVE  Apart(d) /\ (Fails \/ Finishes(d))
<1>1. worker' = [worker EXCEPT ![d] = Idle]
  BY DEF Ends
<1>2. DOMAIN Idle = WorkerFields /\ Idle.pc = "none"
  BY DEF Idle, WorkerFields
<1>3. DOMAIN worker = Devices
  BY DEF Objects
<1>4. /\ DOMAIN worker' = Devices /\ worker'[d] = Idle
      /\ \A c \in Devices \ {d} : worker'[c] = worker[c]
  BY <1>1, <1>3
<1>5. Apart(d)
  BY <1>2, <1>4 DEF Apart
<1>6. Signals(d, <<"error", "done">>) \/ Signals(d, <<"done">>)
  BY DEF Ends
<1>7. \/ Fails
      \/ crashed' = crashed /\ pipe' = Append(pipe, <<d, "done">>)
      \/ crashed' = crashed /\ pipe' = Append(Append(pipe, <<d, "error">>), <<d, "done">>)
  BY <1>6, SignalsDo
<1>8. worker'[d].pc = "none"
  BY <1>2, <1>4
<1>9. Fails \/ Finishes(d)
  BY <1>7, <1>8 DEF Finishes
<1> QED BY <1>5, <1>9

(* A worker whose record changes in some fields. *)
LEMMA WorkerFieldsKept ==
  ASSUME Objects, NEW d \in Devices, NEW x, DOMAIN x = WorkerFields,
         worker' = [worker EXCEPT ![d] = x]
  PROVE  /\ DOMAIN worker' = Devices /\ DOMAIN worker'[d] = WorkerFields /\ worker'[d] = x
         /\ \A c \in Devices \ {d} : worker'[c] = worker[c]
<1>1. DOMAIN worker = Devices
  BY DEF Objects
<1> QED BY <1>1

LEMMA BackupThreadDoes ==
  ASSUME Objects, NEW d \in Devices, BackupThread(d)
  PROVE  Apart(d) /\ (Fails \/ GoesOn(d) \/ Counts(d) \/ Finishes(d))
<1> DEFINE b == worker[d].builder
<1>1. ~crashed /\ worker[d].pc = "backup" /\ UNCHANGED <<active, th, ifc, confirmed>>
  BY DEF BackupThread, At, WorkerKeeps
<1>2. \/ crashed' = TRUE /\ UNCHANGED <<worker, tail, pipe, out, errors>>
      \/ Ends(d, FALSE) /\ UNCHANGED out
      \/ Ends(d, TRUE) /\ UNCHANGED out
      \/ \E n \in {FetchFromDevice(data[d], b)} :
            /\ worker' = [worker EXCEPT ![d].builder = n]
            /\ IF n.at = 0 THEN UNCHANGED <<out, pipe, crashed>>
               ELSE ParseRead(d, <<DbList[n.cur], n.at>>)
  BY Zenon DEF BackupThread
<1>3. DOMAIN worker = Devices /\ \A c \in Devices : DOMAIN worker[c] = WorkerFields
  BY DEF Objects
<1>4. CASE crashed' = TRUE /\ UNCHANGED <<worker, tail, pipe, out, errors>>
  BY <1>1, <1>3, <1>4 DEF Apart, Fails
<1>5. CASE Ends(d, FALSE) /\ UNCHANGED out
  BY <1>1, <1>5, EndsDo
<1>6. CASE Ends(d, TRUE) /\ UNCHANGED out
  BY <1>1, <1>6, EndsDo
<1>7. ASSUME NEW n, worker' = [worker EXCEPT ![d].builder = n],
             IF n.at = 0 THEN UNCHANGED <<out, pipe, crashed>>
             ELSE ParseRead(d, <<DbList[n.cur], n.at>>)
      PROVE  Apart(d) /\ (Fails \/ GoesOn(d) \/ Counts(d))
  <2> DEFINE x == [worker[d] EXCEPT !.builder = n]
  <2>1. worker' = [worker EXCEPT ![d] = x] /\ DOMAIN x = WorkerFields /\ x.pc = "backup"
    BY <1>1, <1>3, <1>7 DEF WorkerFields
  <2> HIDE DEF x
  <2>2. /\ DOMAIN worker' = Devices /\ DOMAIN worker'[d] = WorkerFields /\ worker'[d].pc = "backup"
        /\ \A c \in Devices \ {d} : worker'[c] = worker[c]
    BY <2>1, WorkerFieldsKept
  <2>3. CASE n.at = 0
    <3>1. UNCHANGED <<out, pipe, crashed>>
      BY <1>7, <2>3
    <3> QED BY <1>1, <2>2, <3>1 DEF Apart, GoesOn
  <2>4. CASE n.at # 0
    <3>1. \E e : out' = [out EXCEPT ![d] = Append(@, e)]
      BY <1>7, <2>4 DEF ParseRead
    <3>2. Signals(d, <<"progress">>)
      BY <1>7, <2>4 DEF ParseRead
    <3>3. Fails \/ (crashed' = crashed /\ pipe' = Append(pipe, <<d, "progress">>))
      BY <1>1, <3>2, SignalsDo
    <3>4. Apart(d)
      BY <1>1, <2>2, <3>1 DEF Apart
    <3>5. Fails \/ Counts(d)
      BY <1>1, <2>2, <3>1, <3>3 DEF Counts
    <3> QED BY <3>4, <3>5
  <2> QED BY <2>3, <2>4
<1> QED BY <1>2, <1>4, <1>5, <1>6, <1>7, Zenon

LEMMA BackupFailsDoes ==
  ASSUME Objects, NEW d \in Devices, BackupFails(d)
  PROVE  Apart(d) /\ (Fails \/ Finishes(d))
<1>1. ~crashed /\ worker[d].pc = "backup" /\ UNCHANGED <<active, th, ifc, confirmed>>
      /\ UNCHANGED out /\ Ends(d, TRUE)
  BY DEF BackupFails, At, WorkerKeeps
<1> QED BY <1>1, EndsDo

LEMMA RestoreLookDoes ==
  ASSUME Objects, NEW d \in Devices, RestoreLook(d)
  PROVE  Apart(d) /\ (Fails \/ GoesOn(d) \/ Finishes(d))
<1>1. ~crashed /\ worker[d].pc = "look" /\ UNCHANGED <<active, th, ifc, confirmed>> /\ UNCHANGED out
  BY DEF RestoreLook, At, WorkerKeeps
<1>2. \/ Ends(d, FALSE) \/ Ends(d, TRUE)
      \/ \E q : /\ worker' = [worker EXCEPT ![d].rd = q, ![d].db = q.db,
                                            ![d].pc = IF HasMeta(q) THEN "clear" ELSE "look"]
                /\ UNCHANGED <<tail, pipe, errors, crashed>>
  BY DEF RestoreLook
<1>3. DOMAIN worker = Devices /\ \A c \in Devices : DOMAIN worker[c] = WorkerFields
  BY DEF Objects
<1>4. CASE Ends(d, FALSE)
  BY <1>1, <1>4, EndsDo
<1>5. CASE Ends(d, TRUE)
  BY <1>1, <1>5, EndsDo
<1>6. ASSUME NEW q, worker' = [worker EXCEPT ![d].rd = q, ![d].db = q.db,
                                    ![d].pc = IF HasMeta(q) THEN "clear" ELSE "look"],
             UNCHANGED <<tail, pipe, errors, crashed>>
      PROVE  Apart(d) /\ GoesOn(d)
  <2> DEFINE pc == IF HasMeta(q) THEN "clear" ELSE "look"
             x == [worker[d] EXCEPT !.rd = q, !.db = q.db, !.pc = pc]
  <2>1. pc # "backup"
    OBVIOUS
  <2> HIDE DEF pc
  <2>2. worker' = [worker EXCEPT ![d] = x] /\ DOMAIN x = WorkerFields /\ x.pc = pc
    BY <1>3, <1>6 DEF WorkerFields, pc
  <2> HIDE DEF x
  <2>3. /\ DOMAIN worker' = Devices /\ DOMAIN worker'[d] = WorkerFields /\ worker'[d].pc # "backup"
        /\ \A c \in Devices \ {d} : worker'[c] = worker[c]
    BY <2>1, <2>2, WorkerFieldsKept
  <2> QED BY <1>1, <1>6, <2>3 DEF Apart, GoesOn
<1> QED BY <1>2, <1>4, <1>5, <1>6

LEMMA SkipsDBDoes ==
  ASSUME Objects, NEW d \in Devices, NEW rd, ~crashed, worker[d].pc # "none",
         SkipsDB(d, rd), UNCHANGED <<active, th, ifc, confirmed>>, UNCHANGED out
  PROVE  Apart(d) /\ (Fails \/ GoesOn(d))
<1> DEFINE q == SkipCurrentDB(file[d], RestoreFilter, rd)
           x == [worker[d] EXCEPT !.pc = "look", !.rd = q]
<1>1. worker' = [worker EXCEPT ![d].pc = "look", ![d].rd = q] /\ Signals(d, <<"error">>)
  BY DEF SkipsDB
<1> HIDE DEF q
<1>2. DOMAIN worker = Devices /\ DOMAIN worker[d] = WorkerFields
  BY DEF Objects
<1>3. worker' = [worker EXCEPT ![d] = x] /\ DOMAIN x = WorkerFields /\ x.pc = "look"
  BY <1>1, <1>2 DEF WorkerFields
<1> HIDE DEF x
<1>4. /\ DOMAIN worker' = Devices /\ DOMAIN worker'[d] = WorkerFields /\ worker'[d].pc = "look"
      /\ \A c \in Devices \ {d} : worker'[c] = worker[c]
  BY <1>3, WorkerFieldsKept
<1>5. Fails \/ (crashed' = crashed /\ pipe' = Append(pipe, <<d, "error">>))
  BY <1>1, SignalsDo
<1>6. Apart(d)
  BY <1>4 DEF Apart
<1>7. Fails \/ GoesOn(d)
  BY <1>4, <1>5 DEF GoesOn
<1> QED BY <1>6, <1>7

LEMMA RestoreClearDoes ==
  ASSUME Objects, NEW d \in Devices, NEW refuse \in BOOLEAN, RestoreClear(d, refuse)
  PROVE  Apart(d) /\ (Fails \/ GoesOn(d))
<1>1. ~crashed /\ worker[d].pc = "clear" /\ UNCHANGED <<active, th, ifc, confirmed>> /\ UNCHANGED out
  BY DEF RestoreClear, At, WorkerKeeps
<1>2. \/ crashed' = TRUE /\ UNCHANGED <<worker, pipe>>
      \/ SkipsDB(d, worker[d].rd)
      \/ worker' = [worker EXCEPT ![d].pc = "save"] /\ UNCHANGED <<pipe, crashed>>
  BY DEF RestoreClear
<1>3. DOMAIN worker = Devices /\ \A c \in Devices : DOMAIN worker[c] = WorkerFields
  BY DEF Objects
<1>4. CASE crashed' = TRUE /\ UNCHANGED <<worker, pipe>>
  BY <1>1, <1>3, <1>4 DEF Apart, Fails
<1>5. CASE SkipsDB(d, worker[d].rd)
  BY <1>1, <1>5, SkipsDBDoes
<1>6. CASE worker' = [worker EXCEPT ![d].pc = "save"] /\ UNCHANGED <<pipe, crashed>>
  <2> DEFINE x == [worker[d] EXCEPT !.pc = "save"]
  <2>1. worker' = [worker EXCEPT ![d] = x] /\ DOMAIN x = WorkerFields /\ x.pc = "save"
    BY <1>3, <1>6 DEF WorkerFields
  <2> HIDE DEF x
  <2>2. /\ DOMAIN worker' = Devices /\ DOMAIN worker'[d] = WorkerFields /\ worker'[d].pc = "save"
        /\ \A c \in Devices \ {d} : worker'[c] = worker[c]
    BY <2>1, WorkerFieldsKept
  <2> QED BY <1>1, <1>6, <2>2 DEF Apart, GoesOn
<1> QED BY <1>2, <1>4, <1>5, <1>6

LEMMA RestoreSaveDoes ==
  ASSUME Objects, NEW d \in Devices, NEW refuse \in BOOLEAN, RestoreSave(d, refuse)
  PROVE  Apart(d) /\ (Fails \/ GoesOn(d) \/ Counts(d) \/ Finishes(d))
<1>1. ~crashed /\ worker[d].pc = "save" /\ UNCHANGED <<active, th, ifc, confirmed>> /\ UNCHANGED out
  BY DEF RestoreSave, At, WorkerKeeps
<1>2. \/ crashed' = TRUE /\ UNCHANGED <<worker, pipe>>
      \/ \E y : worker' = [worker EXCEPT ![d].rd = y] /\ Signals(d, <<"progress">>)
      \/ \E y : worker' = [worker EXCEPT ![d].pc = "look", ![d].rd = y]
                /\ Signals(d, <<"progress", "error">>)
      \/ \E y : worker' = [worker EXCEPT ![d].pc = "look", ![d].rd = y]
                /\ UNCHANGED <<pipe, crashed>>
      \/ Ends(d, TRUE)
  BY DEF RestoreSave
<1>3. DOMAIN worker = Devices /\ \A c \in Devices : DOMAIN worker[c] = WorkerFields
  BY DEF Objects
<1>4. CASE crashed' = TRUE /\ UNCHANGED <<worker, pipe>>
  BY <1>1, <1>3, <1>4 DEF Apart, Fails
<1>5. CASE Ends(d, TRUE)
  BY <1>1, <1>5, EndsDo
<1>6. ASSUME NEW y, worker' = [worker EXCEPT ![d].rd = y], Signals(d, <<"progress">>)
      PROVE  Apart(d) /\ (Fails \/ Counts(d))
  <2> DEFINE x == [worker[d] EXCEPT !.rd = y]
  <2>1. worker' = [worker EXCEPT ![d] = x] /\ DOMAIN x = WorkerFields /\ x.pc = "save"
    BY <1>1, <1>3, <1>6 DEF WorkerFields
  <2> HIDE DEF x
  <2>2. /\ DOMAIN worker' = Devices /\ DOMAIN worker'[d] = WorkerFields /\ worker'[d].pc = "save"
        /\ \A c \in Devices \ {d} : worker'[c] = worker[c]
    BY <2>1, WorkerFieldsKept
  <2>3. Fails \/ (crashed' = crashed /\ pipe' = Append(pipe, <<d, "progress">>))
    BY <1>1, <1>6, SignalsDo
  <2>4. Apart(d)
    BY <1>1, <2>2 DEF Apart
  <2>5. Fails \/ Counts(d)
    BY <2>2, <2>3 DEF Counts
  <2> QED BY <2>4, <2>5
<1>7. ASSUME NEW y, worker' = [worker EXCEPT ![d].pc = "look", ![d].rd = y]
      PROVE  Apart(d) /\ worker'[d].pc = "look"
  <2> DEFINE x == [worker[d] EXCEPT !.pc = "look", !.rd = y]
  <2>1. worker' = [worker EXCEPT ![d] = x] /\ DOMAIN x = WorkerFields /\ x.pc = "look"
    BY <1>3, <1>7 DEF WorkerFields
  <2> HIDE DEF x
  <2>2. /\ DOMAIN worker' = Devices /\ DOMAIN worker'[d] = WorkerFields /\ worker'[d].pc = "look"
        /\ \A c \in Devices \ {d} : worker'[c] = worker[c]
    BY <2>1, WorkerFieldsKept
  <2> QED BY <1>1, <2>2 DEF Apart
<1>8. ASSUME NEW y, worker' = [worker EXCEPT ![d].pc = "look", ![d].rd = y],
             Signals(d, <<"progress", "error">>)
      PROVE  Apart(d) /\ (Fails \/ Counts(d))
  <2>1. Apart(d) /\ worker'[d].pc = "look"
    BY <1>7, <1>8
  <2>2. \/ Fails
        \/ crashed' = crashed
           /\ pipe' = Append(Append(pipe, <<d, "progress">>), <<d, "error">>)
    BY <1>1, <1>8, SignalsDo
  <2> QED BY <2>1, <2>2 DEF Counts
<1>9. ASSUME NEW y, worker' = [worker EXCEPT ![d].pc = "look", ![d].rd = y],
             UNCHANGED <<pipe, crashed>>
      PROVE  Apart(d) /\ GoesOn(d)
  <2>1. Apart(d) /\ worker'[d].pc = "look"
    BY <1>7, <1>9
  <2> QED BY <1>1, <1>9, <2>1 DEF GoesOn
<1> QED BY <1>2, <1>4, <1>5, <1>6, <1>8, <1>9, Zenon

(* The last instructions of a worker only take its dispatchers away. *)
LEMMA InvalidateKeeps ==
  ASSUME IInv, NEW s \in Devices, Invalidate(s)
  PROVE  IInv'
<1>1. Objects
  BY DEF IInv
<1>2. /\ UNCHANGED <<active, th, worker, pipe, devices, crashed, history>>
      /\ \E y \in {"invalid", "partly"} : ifc' = [ifc EXCEPT ![s].comm = y]
  <2>1. ifc' = [ifc EXCEPT ![s].comm =
                  IF tail[s] = "partly" /\ @ = "partly" THEN "invalid" ELSE "partly"]
    BY DEF Invalidate
  <2>2. \E y \in {"invalid", "partly"} : ifc' = [ifc EXCEPT ![s].comm = y]
    BY <2>1
  <2> QED BY <2>2 DEF Invalidate
<1>3. ifc' \in [Devices -> Interfaces] /\ \A d \in Devices : ifc'[d].desktop = ifc[d].desktop
  BY <1>1, <1>2 DEF Objects, Interfaces
<1>4. Objects'
  BY <1>1, <1>2, <1>3 DEF Objects, Interfaces, devices, history, List
<1>5. ASSUME NEW d \in Devices PROVE Well(d)'
  <2>1. Well(d) /\ Kept(d)' = Kept(d) /\ worker' = worker /\ out' = out /\ th' = th /\ pipe' = pipe
    BY <1>2 DEF IInv, Kept, devices, history
  <2> QED BY <1>3, <2>1 DEF Well, Working, Orderly, Counted
<1> QED BY <1>4, <1>5 DEF IInv

-----------------------------------------------------------------------------
LEMMA InitIInv == Init => IInv
<1> SUFFICES ASSUME Init PROVE IInv
  OBVIOUS
<1>1. /\ th = [d \in Devices |-> NewThread(FALSE, FALSE)] /\ ifc = [d \in Devices |-> NewInterface]
      /\ worker = [d \in Devices |-> Idle] /\ pipe = <<>> /\ active = None /\ crashed = FALSE
      /\ out = [d \in Devices |-> <<>>] /\ confirmed = {}
  BY DEF Init
<1>2. /\ GoodThread(NewThread(FALSE, FALSE)) /\ ~NewThread(FALSE, FALSE).working
      /\ DOMAIN Idle = WorkerFields /\ Idle.pc = "none"
      /\ NewInterface \in Interfaces
  BY DEF NewThread, GoodThread, ThreadFields, Idle, WorkerFields, NewInterface, Interfaces
<1>3. Len(<<>>) = 0 /\ List(<<>>, 0)
  BY DEF List
<1>4. pipe \in Seq(Signal) /\ \A d : Progress(pipe, d) = {} /\ Done(pipe, d) = {}
  BY <1>1 DEF Progress, Done, SentIn
<1>5. /\ DOMAIN th = Devices /\ \A d \in Devices : GoodThread(th[d]) /\ ~th[d].working
      /\ DOMAIN worker = Devices
      /\ \A d \in Devices : DOMAIN worker[d] = WorkerFields /\ worker[d].pc = "none"
      /\ DOMAIN out = Devices
      /\ \A d \in Devices : Len(out[d]) \in Nat /\ List(out[d], Len(out[d]))
      /\ ifc \in [Devices -> Interfaces]
  BY <1>1, <1>2, <1>3
<1>6. Objects
  BY <1>1, <1>4, <1>5 DEF Objects, Interfaces
<1>7. ASSUME NEW d \in Devices PROVE Well(d)
  BY <1>4, <1>5 DEF Well, Working, Orderly, Counted
<1> QED BY <1>6, <1>7 DEF IInv

LEMMA StepIInv == IInv /\ [Next]_vars => IInv'
<1> SUFFICES ASSUME IInv, [Next]_vars PROVE IInv'
  OBVIOUS
<1>0. Objects
  BY DEF IInv
<1>1. ASSUME NEW s \in Devices \cup {None}, OnDeviceChange(s) PROVE IInv'
  BY <1>1, DeviceChangeKeeps
<1>2. ASSUME NEW d \in Devices, OnDisconnect(d) PROVE IInv'
  BY <1>2, DisconnectKeeps
<1>3. ASSUME NEW d \in Devices, OnConfig(d) PROVE IInv'
  BY <1>3, ConfigKeeps
<1>4. ASSUME NEW d \in Devices, NEW c \in Claims, OnBackup(d, c) PROVE IInv'
  BY <1>4, StartsKeeps DEF OnBackup
<1>5. ASSUME NEW d \in Devices, NEW a \in Archives, NEW b \in Archives, OnRestore(d, a, b)
      PROVE  IInv'
  BY <1>5, StartsKeeps DEF OnRestore
<1>10. ASSUME NEW d \in Devices, NEW a \in Archives, RestoreThrows(d, a) PROVE IInv'
  BY <1>10, RestoreThrowsKeeps
<1>6. CASE Scan
  BY <1>6, ScanKeeps
<1>7. CASE SignalStep
  BY <1>7, ThreadProgressKeeps, ThreadErrorKeeps, ThreadDoneKeeps, TreeviewKeeps DEF SignalStep
<1>8. ASSUME NEW d \in Devices, WorkerStep(d) PROVE IInv'
  <2>1. CASE BackupThread(d)
    BY <1>0, <2>1, BackupThreadDoes, WorkerKeepsIt
  <2>2. CASE BackupFails(d)
    BY <1>0, <2>2, BackupFailsDoes, WorkerKeepsIt
  <2>3. CASE RestoreLook(d)
    BY <1>0, <2>3, RestoreLookDoes, WorkerKeepsIt
  <2>4. CASE Invalidate(d)
    BY <2>4, InvalidateKeeps
  <2>5. ASSUME NEW refuse \in BOOLEAN, RestoreClear(d, refuse) PROVE IInv'
    BY <1>0, <2>5, RestoreClearDoes, WorkerKeepsIt
  <2>6. ASSUME NEW refuse \in BOOLEAN, RestoreSave(d, refuse) PROVE IInv'
    BY <1>0, <2>6, RestoreSaveDoes, WorkerKeepsIt
  <2> QED BY <1>8, <2>1, <2>2, <2>3, <2>4, <2>5, <2>6, Zenon DEF WorkerStep
<1>9. CASE UNCHANGED vars
  <2>1. UNCHANGED <<active, th, ifc, worker, pipe, out, crashed, confirmed>>
    BY <1>9 DEF vars
  <2>2. Objects'
    BY <1>0, <2>1 DEF Objects, List
  <2>3. ASSUME NEW d \in Devices PROVE Well(d)'
    <3>1. Well(d)
      BY DEF IInv
    <3> QED BY <2>1, <3>1 DEF Well, Kept, Working, Orderly, Counted
  <2> QED BY <2>2, <2>3 DEF IInv
<1> QED BY <1>1, <1>2, <1>3, <1>4, <1>5, <1>6, <1>7, <1>8, <1>9, <1>10, Zenon DEF Next, UserStep

LEMMA Invariant == Spec => []IInv
  BY InitIInv, StepIInv, PTL DEF Spec

(* Whatever the user selects, starts or scans while a worker runs, and whatever
   signals of it are still in the pipe, the Desktop object that the worker uses
   exists, unless the user gave the device up (Thread.cc:147,
   DeviceIface.cc:250). *)
THEOREM ObjectsOutliveWorkers == Spec => []DesktopWhileWorking
<1>1. IInv => DesktopWhileWorking
  BY DEF IInv, Well, Kept, Working, DesktopWhileWorking, Running
<1> QED BY <1>1, Invariant, PTL

(* The progress that is shown, with the progress still in the pipe, is what this
   backup wrote to the archive: no signal is lost, counted twice or left from an
   earlier operation (Thread.cc:210). *)
THEOREM ProgressIsExact == Spec => []ProgressExact
<1>1. IInv => ProgressExact
  BY DEF IInv, Well, Kept, Counted, ProgressExact, Running, Pending, Progress, SentIn
<1> QED BY <1>1, Invariant, PTL

-----------------------------------------------------------------------------
(* What a worker has read or written: the second invariant, on top of the
   first one.  It does not depend on the pipe or on the objects. *)

(* A device has a place for each record. *)
Places(dev) == \A n \in DOMAIN dev : DOMAIN dev[n] \subseteq Nat \ {0}

Stock == DOMAIN data = Devices /\ DOMAIN errors = Devices /\ DOMAIN file = Devices

(* The builder b has gone past place i of the k-th database. *)
Behind(b, k, i) ==
    \/ k < b.cur
    \/ k = b.cur /\ b.started /\ (b.busy => i <= b.at)
Have(dev) == UNION {{n} \X DOMAIN dev[n] : n \in Listed \cap DOMAIN dev}
Passed(dev, b) ==
    {r \in Have(dev) : \E k \in 1..Len(DbList) : r[1] = DbList[k] /\ Behind(b, k, r[2])}

BuilderFields == {"dbs", "cur", "started", "busy", "at"}
GoodBuilder(dev, b) ==
    /\ DOMAIN b = BuilderFields /\ b.dbs = DbList
    /\ b.cur \in Nat \ {0} /\ b.started \in BOOLEAN /\ b.busy \in BOOLEAN /\ b.at \in Nat
    /\ b.busy => b.started /\ b.at # 0
    /\ b.started => b.cur <= Len(DbList)
    /\ ~b.started => b.cur = 1
    /\ \A k \in 1..Len(DbList) :
          k < b.cur \/ (k = b.cur /\ b.started) => DbList[k] \in DOMAIN dev

(* A list holds each member of the set S once. *)
Lists(s, S) ==
    /\ {s[k] : k \in DOMAIN s} = S
    /\ \A j, k \in DOMAIN s : j # k => s[j] # s[k]

(* The records of database n in the archive a, and those of the selected ones. *)
Of(a, n) == {k \in 1..Len(a.entries) : SplitTarPath(a.entries[k]) /\ a.entries[k].db = n}
Selected(a) == {k \in 1..Len(a.entries) : SplitTarPath(a.entries[k]) /\ a.entries[k].db \in Listed}

(* The ones that the reader r has given or skipped. *)
Past(a, r) == {k \in Selected(a) : k < r.pos \/ (k = r.pos /\ r.state \notin {"NEXT", "DBEND"})}

ReaderFields == {"state", "pos", "db", "held", "meta", "threw"}
Loaded(a, r) == r.pos \in Selected(a) /\ r.db = a.entries[r.pos].db /\ r.held = r.pos
GoodReader(a, r) ==
    /\ DOMAIN r = ReaderFields /\ r.pos \in 0..Len(a.entries)
    /\ r.state \in {"EMPTY", "NEXT", "EOF"}
    /\ r.state = "NEXT" => Loaded(a, r)
    /\ r.state = "EMPTY" /\ r # New => r.pos \in Selected(a) /\ r.db = a.entries[r.pos].db
    /\ r.state = "EOF" => r.pos = Len(a.entries)

(* Every database, except the one that is being written, is wholly before the
   reader or wholly after it; those before it are on the device or reported. *)
Kind(a, r, n) == Of(a, n) \subseteq Past(a, r) \/ Of(a, n) \cap Past(a, r) = {}
Restored(a, dev, n) == n \in DOMAIN dev /\ Vals(dev[n]) = Of(a, n)
Level(a, r, dev, bad, now) ==
    \A n \in Listed \ now :
        /\ Kind(a, r, n)
        /\ n \notin bad /\ Of(a, n) # {} /\ Of(a, n) \subseteq Past(a, r) => Restored(a, dev, n)

Looking(a, r, dev, bad) == GoodReader(a, r) /\ (r.state = "EMPTY" => r = New) /\ Level(a, r, dev, bad, {})
Saving(a, r, n, dev, bad) ==
    /\ GoodReader(a, r) /\ r.state \in {"NEXT", "EMPTY"} /\ r # New /\ r.db = n
    /\ n \in DOMAIN dev /\ Vals(dev[n]) = Of(a, n) \cap Past(a, r)
    /\ \E m \in Nat : DOMAIN dev[n] = 1..m
    /\ Level(a, r, dev, bad, {n})

AllRestored(a, dev, bad) ==
    \A n \in Listed \ bad : Of(a, n) # {} => Restored(a, dev, n)

Story(d) ==
    d \notin confirmed =>
        /\ Places(data[d])
        /\ worker[d].pc # "none" => th[d].working
        /\ worker[d].pc = "backup" =>
              /\ th[d].op = "BACKUP" /\ GoodBuilder(data[d], worker[d].builder)
              /\ Lists(out[d], Passed(data[d], worker[d].builder))
        /\ worker[d].pc \in {"look", "clear", "save"} =>
              /\ th[d].op = "RESTORE" /\ file[d] \in Archives
              /\ worker[d].pc # "save" => Looking(file[d], worker[d].rd, data[d], errors[d])
              /\ worker[d].pc = "clear" => worker[d].rd.state = "NEXT"
                                           /\ worker[d].db = worker[d].rd.db
              /\ worker[d].pc = "save" =>
                    Saving(file[d], worker[d].rd, worker[d].db, data[d], errors[d])
        /\ worker[d].pc = "none" /\ th[d].op = "BACKUP" /\ errors[d] = {} => Complete(d)
        /\ worker[d].pc = "none" /\ th[d].op = "RESTORE" /\ None \notin errors[d] =>
              AllRestored(file[d], data[d], errors[d])
        /\ worker[d].pc \in {"none", "backup", "look", "clear", "save"}

Stories == Stock /\ \A d \in Devices : Story(d)

-----------------------------------------------------------------------------
(* The reader, under the filter of the backup program. *)

LEMMA LeastOf ==
    \A S \in SUBSET Nat : S # {} => Min(S) \in S /\ \A i \in S : Min(S) <= i
<1> SUFFICES ASSUME NEW S \in SUBSET Nat, S # {}
             PROVE  Min(S) \in S /\ \A i \in S : Min(S) <= i
  OBVIOUS
<1>1. PICK x \in S : \A y \in S : ~(<<y, x>> \in OpToRel(<, Nat))
  BY NatLessThanWellFounded, WFMin
<1>2. \A y \in S : x <= y
  <2> TAKE y \in S
  <2>1. ~(y < x)
    BY <1>1 DEF OpToRel
  <2> QED BY <2>1
<1> QED BY <1>2 DEF Min

LEMMA SelectedFacts ==
  ASSUME NEW a \in Archives
  PROVE  /\ Len(a.entries) \in Nat /\ Selected(a) \subseteq 1..Len(a.entries)
         /\ Selected(a) \in SUBSET Nat
         /\ \A k \in Selected(a) : /\ SplitTarPath(a.entries[k]) /\ a.entries[k].db \in Listed
                                    /\ a.entries[k].db # NoName /\ k \in Of(a, a.entries[k].db)
         /\ \A n \in Listed : Of(a, n) \subseteq Selected(a)
<1>1. Len(a.entries) \in Nat
  BY ArchivesAssumption
<1>2. Selected(a) \subseteq 1..Len(a.entries)
  BY DEF Selected
<1>3. Selected(a) \in SUBSET Nat
  BY <1>1, <1>2
<1> QED BY <1>1, <1>2, <1>3 DEF Selected, Of, SplitTarPath

(* The search loop stops at the first selected record after the position. *)
Ahead(a, r) == {k \in Selected(a) : k > r.pos}

LEMMA HitsAre ==
  ASSUME NEW a \in Archives, NEW r, r.pos \in 0..Len(a.entries), r.db \in Listed \cup {NoName}
  PROVE  {i \in (r.pos + 1)..Len(a.entries) : Found(a, RestoreFilter, r, i)} = Ahead(a, r)
<1>1. Len(a.entries) \in Nat /\ r.pos \in Nat
  BY SelectedFacts
<1>2. \A n : IsSelected(RestoreFilter, n) <=> n \in Listed
  BY DEF IsSelected, RestoreFilter
<1>3. \A i \in 1..Len(a.entries) : Found(a, RestoreFilter, r, i) <=> i \in Selected(a)
  BY <1>2 DEF Found, Selected, SplitTarPath
<1>4. \A i : i \in (r.pos + 1)..Len(a.entries) <=> i \in 1..Len(a.entries) /\ i > r.pos
  BY <1>1
<1>5. \A i : i \in Ahead(a, r) => i \in 1..Len(a.entries)
  BY SelectedFacts DEF Ahead
<1> QED BY <1>3, <1>4, <1>5 DEF Ahead

(* What Retrieve finds when nothing is loaded. *)
Finds(a, r, q) ==
    /\ DOMAIN q = ReaderFields
    /\ Ahead(a, r) # {} =>
          /\ q.pos \in Ahead(a, r) /\ \A k \in Ahead(a, r) : q.pos <= k
          /\ q.db = a.entries[q.pos].db /\ q.held = q.pos /\ ~Throws(r, q)
          /\ q.state = IF q.db = r.db \/ r.db = NoName THEN "NEXT" ELSE "DBEND"
    /\ Ahead(a, r) = {} =>
          Throws(r, q) \/ (~Throws(r, q) /\ q.state = "EOF" /\ q.pos = Len(a.entries))

LEMMA RetrieveFinds ==
  ASSUME NEW a \in Archives, NEW r, GoodReader(a, r), r.state = "EMPTY",
         NEW q, q = Retrieve(a, RestoreFilter, r, TRUE)
  PROVE  Finds(a, r, q)
<1>1. r.pos \in 0..Len(a.entries) /\ DOMAIN r = ReaderFields
  BY DEF GoodReader
<1>2. r.db \in Listed \cup {NoName}
  BY SelectedFacts DEF GoodReader, New
<1>3. PICK i : i = Min(Ahead(a, r))
  OBVIOUS
<1>4. {j \in (r.pos + 1)..Len(a.entries) : Found(a, RestoreFilter, r, j)} = Ahead(a, r)
  BY <1>1, <1>2, HitsAre
<1>5. CASE Ahead(a, r) # {}
  <2>1. i \in Ahead(a, r) /\ \A k \in Ahead(a, r) : i <= k
    <3>1. Ahead(a, r) \in SUBSET Nat
      BY SelectedFacts DEF Ahead
    <3> QED BY <1>3, <1>5, <3>1, LeastOf
  <2>2. PICK st : st = IF a.entries[i].db = r.db \/ r.db = NoName THEN "NEXT" ELSE "DBEND"
    OBVIOUS
  <2>3. q = [r EXCEPT !.state = st, !.pos = i, !.db = a.entries[i].db, !.meta = i, !.held = i]
    BY <1>3, <1>4, <1>5, <2>2 DEF Retrieve
  <2>4. /\ DOMAIN q = ReaderFields /\ q.pos = i /\ q.db = a.entries[i].db /\ q.held = i
        /\ q.state = st /\ q.threw = r.threw
    BY <1>1, <2>3 DEF ReaderFields
  <2> QED BY <1>5, <2>1, <2>2, <2>4 DEF Throws, Finds
<1>6. CASE Ahead(a, r) = {} /\ a.torn /\ ~r.threw
  <2>1. q = [r EXCEPT !.state = LeftState(a, r), !.pos = Len(a.entries), !.threw = TRUE, !.held = 0]
    BY <1>4, <1>6 DEF Retrieve
  <2>2. DOMAIN q = ReaderFields /\ q.threw = TRUE
    BY <1>1, <2>1 DEF ReaderFields
  <2> QED BY <1>6, <2>2 DEF Throws, Finds
<1>7. CASE Ahead(a, r) = {} /\ ~(a.torn /\ ~r.threw)
  <2>1. q = [r EXCEPT !.state = "EOF", !.pos = Len(a.entries), !.held = 0]
    BY <1>4, <1>7 DEF Retrieve
  <2>2. DOMAIN q = ReaderFields /\ q.threw = r.threw /\ q.state = "EOF" /\ q.pos = Len(a.entries)
    BY <1>1, <2>1 DEF ReaderFields
  <2> QED BY <1>7, <2>2 DEF Throws, Finds
<1> QED BY <1>5, <1>6, <1>7

(* What a reader in state NEXT, and one that has given its record, have behind
   them. *)
LEMMA PastIs ==
  ASSUME NEW a \in Archives, NEW r, r.pos \in Nat
  PROVE  /\ r.state \in {"NEXT", "DBEND"} => Past(a, r) = {k \in Selected(a) : k < r.pos}
         /\ r.state \in {"EMPTY", "EOF"} => Past(a, r) = {k \in Selected(a) : k <= r.pos}
<1>1. Selected(a) \in SUBSET Nat
  BY SelectedFacts
<1>2. \A k \in Nat : k <= r.pos <=> k < r.pos \/ k = r.pos
  OBVIOUS
<1> QED BY <1>1, <1>2 DEF Past

(* Nothing but records of database n is between p and q, which is the first of
   another database: then all of n is before q, and what is before p stays the
   same for the others. *)
LEMMA NextDatabase ==
  ASSUME NEW a \in Archives, NEW n \in Listed, NEW p \in Of(a, n),
         NEW q \in Selected(a), p < q, a.entries[q].db # n,
         \A k \in Selected(a) : p < k /\ k < q => a.entries[k].db = n
  PROVE  /\ Of(a, n) \subseteq {k \in Selected(a) : k < q}
         /\ \A m \in Listed \ {n} : \A k \in Of(a, m) : k < q <=> k < p
<1>1. /\ Of(a, n) \subseteq Selected(a) /\ Selected(a) \subseteq 1..Len(a.entries)
      /\ Len(a.entries) \in Nat /\ Selected(a) \in SUBSET Nat
  BY SelectedFacts
<1>2. ASSUME NEW k \in Of(a, n) PROVE k < q
  <2> SUFFICES ASSUME ~(k < q) PROVE FALSE
    OBVIOUS
  <2>1. k \in Nat /\ q \in Nat /\ k # q /\ q < k
    BY <1>1 DEF Of
  <2>2. p \in 1..Len(a.entries) /\ q \in 1..Len(a.entries) /\ k \in 1..Len(a.entries)
    BY <1>1
  <2>3. \A x \in {p, q, k} : SplitTarPath(a.entries[x])
    BY <1>1, SelectedFacts
  <2>4. a.entries[p].db = n /\ a.entries[k].db = n
    BY DEF Of
  <2> QED BY <2>1, <2>2, <2>3, <2>4, ArchivesAssumption
<1>3. ASSUME NEW m \in Listed \ {n}, NEW k \in Of(a, m) PROVE k < q <=> k < p
  <2>1. k \in Selected(a) /\ a.entries[k].db = m
    BY SelectedFacts DEF Of
  <2>2. k # p
    BY <2>1 DEF Of
  <2>3. k \in Nat /\ p \in Nat /\ q \in Nat
    BY <1>1, <2>1
  <2>4. ~(p < k /\ k < q)
    BY <2>1
  <2> QED BY <2>2, <2>3, <2>4
<1> QED BY <1>1, <1>2, <1>3

(* Nothing but records of n is after p. *)
LEMMA LastDatabase ==
  ASSUME NEW a \in Archives, NEW n \in Listed, NEW p \in Of(a, n),
         \A k \in Selected(a) : p < k => a.entries[k].db = n
  PROVE  \A m \in Listed \ {n} : \A k \in Of(a, m) : k < p
<1> SUFFICES ASSUME NEW m \in Listed \ {n}, NEW k \in Of(a, m) PROVE k < p
  OBVIOUS
<1>1. k \in Selected(a) /\ a.entries[k].db = m /\ p \in Selected(a)
  BY SelectedFacts DEF Of
<1>2. k # p /\ ~(p < k)
  BY <1>1 DEF Of
<1>3. k \in Nat /\ p \in Nat
  BY <1>1, SelectedFacts
<1> QED BY <1>2, <1>3

(* The reader is inside database n: the next record of it is loaded, or its
   last one was given. *)
Inside(a, r, n) == GoodReader(a, r) /\ r.state \in {"NEXT", "EMPTY"} /\ r # New /\ r.db = n

(* The reader q stands where database n is over for the reader r. *)
Leaves(a, r, q, n) ==
    /\ GoodReader(a, q) /\ q.state \in {"NEXT", "EOF"}
    /\ Of(a, n) \subseteq Past(a, q)
    /\ \A m \in Listed \ {n} : Of(a, m) \cap Past(a, q) = Of(a, m) \cap Past(a, r)

LEMMA InsideFacts ==
  ASSUME NEW a \in Archives, NEW r, NEW n, Inside(a, r, n)
  PROVE  /\ r.pos \in Of(a, n) /\ r.pos \in Selected(a) /\ n \in Listed /\ n # NoName
         /\ r.pos \in Nat /\ DOMAIN r = ReaderFields
         /\ \A m \in Listed \ {n} : Of(a, m) \cap Past(a, r) = {k \in Of(a, m) : k < r.pos}
<1>1. r.pos \in Selected(a) /\ n = a.entries[r.pos].db /\ DOMAIN r = ReaderFields
  BY DEF Inside, GoodReader, Loaded
<1>2. r.pos \in Of(a, n) /\ n \in Listed /\ n # NoName /\ r.pos \in Nat
  BY <1>1, SelectedFacts
<1>3. ASSUME NEW m \in Listed \ {n} PROVE Of(a, m) \cap Past(a, r) = {k \in Of(a, m) : k < r.pos}
  <2>1. Of(a, m) \subseteq Selected(a)
    BY SelectedFacts
  <2>2. r.pos \notin Of(a, m)
    BY <1>1 DEF Of
  <2> QED BY <2>1, <2>2 DEF Past
<1> QED BY <1>1, <1>2, <1>3

(* Where a reader has to stand to have left n. *)
LEMMA LeavesToNext ==
  ASSUME NEW a \in Archives, NEW r, NEW n, Inside(a, r, n),
         NEW q, DOMAIN q = ReaderFields, q.state = "NEXT", Loaded(a, q), r.pos < q.pos, q.db # n,
         \A k \in Selected(a) : r.pos < k /\ k < q.pos => a.entries[k].db = n
  PROVE  Leaves(a, r, q, n)
<1>1. /\ r.pos \in Of(a, n) /\ n \in Listed /\ r.pos \in Nat
      /\ \A m \in Listed \ {n} : Of(a, m) \cap Past(a, r) = {k \in Of(a, m) : k < r.pos}
  BY InsideFacts
<1>2. q.pos \in Selected(a) /\ a.entries[q.pos].db # n
  BY DEF Loaded
<1>3. /\ Of(a, n) \subseteq {k \in Selected(a) : k < q.pos}
      /\ \A m \in Listed \ {n} : \A k \in Of(a, m) : k < q.pos <=> k < r.pos
  BY <1>1, <1>2, NextDatabase
<1>4. Selected(a) \subseteq 1..Len(a.entries) /\ Len(a.entries) \in Nat
  BY SelectedFacts
<1>5. q.pos \in 0..Len(a.entries) /\ q.pos \in Nat
  BY <1>2, <1>4
<1>6. GoodReader(a, q)
  BY <1>5 DEF GoodReader
<1>7. Past(a, q) = {k \in Selected(a) : k < q.pos}
  BY <1>5, PastIs
<1>8. \A m \in Listed : Of(a, m) \subseteq Selected(a)
  BY SelectedFacts
<1> QED BY <1>1, <1>3, <1>6, <1>7, <1>8 DEF Leaves

LEMMA LeavesToEnd ==
  ASSUME NEW a \in Archives, NEW r, NEW n, Inside(a, r, n),
         NEW q, DOMAIN q = ReaderFields, q.state = "EOF", q.pos = Len(a.entries),
         \A k \in Selected(a) : r.pos < k => a.entries[k].db = n
  PROVE  Leaves(a, r, q, n)
<1>1. /\ r.pos \in Of(a, n) /\ n \in Listed /\ r.pos \in Nat
      /\ \A m \in Listed \ {n} : Of(a, m) \cap Past(a, r) = {k \in Of(a, m) : k < r.pos}
  BY InsideFacts
<1>2. \A m \in Listed \ {n} : \A k \in Of(a, m) : k < r.pos
  BY <1>1, LastDatabase
<1>3. Selected(a) \subseteq 1..Len(a.entries) /\ Len(a.entries) \in Nat
  BY SelectedFacts
<1>4. GoodReader(a, q)
  BY <1>3 DEF GoodReader
<1>5. Past(a, q) = Selected(a)
  BY <1>3, PastIs
<1>6. \A m \in Listed : Of(a, m) \subseteq Selected(a)
  BY SelectedFacts
<1> QED BY <1>1, <1>2, <1>4, <1>5, <1>6 DEF Leaves

(* What looking ahead from inside n, with nothing loaded, comes to. *)
LEMMA AheadOf ==
  ASSUME NEW a \in Archives, NEW r, NEW n, Inside(a, r, n), r.state = "EMPTY",
         NEW q, q = Retrieve(a, RestoreFilter, r, TRUE)
  PROVE  /\ DOMAIN q = ReaderFields
         /\ \/ /\ ~Throws(r, q) /\ q.state = "NEXT" /\ Loaded(a, q) /\ q.db = n
               /\ r.pos < q.pos /\ \A k \in Selected(a) : r.pos < k => q.pos <= k
            \/ /\ ~Throws(r, q) /\ q.state = "DBEND" /\ Loaded(a, q) /\ q.db # n
               /\ r.pos < q.pos /\ \A k \in Selected(a) : r.pos < k => q.pos <= k
            \/ /\ ~Throws(r, q) /\ q.state = "EOF" /\ q.pos = Len(a.entries)
               /\ \A k \in Selected(a) : ~(r.pos < k)
            \/ Throws(r, q) /\ \A k \in Selected(a) : ~(r.pos < k)
<1>1. GoodReader(a, r) /\ r.db = n
  BY DEF Inside
<1>2. n # NoName /\ r.pos \in Nat
  BY InsideFacts
<1>3. Selected(a) \in SUBSET Nat
  BY SelectedFacts
<1>4. \A k \in Selected(a) : k \in Ahead(a, r) <=> r.pos < k
  BY <1>2, <1>3 DEF Ahead
<1>5. Ahead(a, r) \subseteq Selected(a)
  BY DEF Ahead
<1>6. Finds(a, r, q)
  BY <1>1, RetrieveFinds
<1>7. CASE Ahead(a, r) # {}
  <2>1. Loaded(a, q) /\ r.pos < q.pos
    BY <1>4, <1>5, <1>6, <1>7 DEF Loaded, Finds
  <2> QED BY <1>1, <1>2, <1>4, <1>6, <1>7, <2>1 DEF Finds
<1>8. CASE Ahead(a, r) = {}
  BY <1>4, <1>6, <1>8 DEF Finds
<1>9. DOMAIN q = ReaderFields
  BY <1>6 DEF Finds
<1> QED BY <1>7, <1>8, <1>9

(* BuildRecord gives the next record of n, or leaves n when all of it was
   given. *)
LEMMA BuildRecordDoes ==
  ASSUME NEW a \in Archives, NEW r, NEW n, Inside(a, r, n),
         NEW f, f = BuildRecord(a, RestoreFilter, r)
  PROVE  /\ f.ret = "true" =>
               /\ Inside(a, f.obj, n) /\ f.rec.data \in Of(a, n)
               /\ Past(a, f.obj) = Past(a, r) \cup {f.rec.data}
         /\ f.ret = "false" => Leaves(a, r, f.obj, n) /\ Of(a, n) \subseteq Past(a, r)
<1>1. PICK q : q = Retrieve(a, RestoreFilter, r, TRUE)
  OBVIOUS
<1>2. f = Deliver(r, q, q.held)
  BY <1>1 DEF BuildRecord
<1>3. /\ r.pos \in Of(a, n) /\ r.pos \in Selected(a) /\ n \in Listed /\ n # NoName
      /\ r.pos \in Nat /\ DOMAIN r = ReaderFields
  BY InsideFacts
<1>4. Selected(a) \in SUBSET Nat /\ Selected(a) \subseteq 1..Len(a.entries) /\ Len(a.entries) \in Nat
  BY SelectedFacts
<1>5. ASSUME ~Throws(r, q), q.state = "NEXT", DOMAIN q = ReaderFields, Loaded(a, q), q.db = n,
             Past(a, r) = {k \in Selected(a) : k < q.pos}
      PROVE  /\ f.ret = "true" /\ Inside(a, f.obj, n) /\ f.rec.data \in Of(a, n)
             /\ Past(a, f.obj) = Past(a, r) \cup {f.rec.data}
  <2>1. f = Record(q, q.held)
    BY <1>2, <1>5 DEF Deliver
  <2>2. PICK o : o = [q EXCEPT !.state = "EMPTY"]
    OBVIOUS
  <2>3. f.ret = "true" /\ f.obj = o /\ f.rec.data = q.pos
    BY <1>5, <2>1, <2>2 DEF Record, Loaded
  <2>4. o.state = "EMPTY" /\ o.pos = q.pos /\ o.db = q.db /\ DOMAIN o = ReaderFields
    BY <1>5, <2>2 DEF ReaderFields
  <2>5. q.pos \in Selected(a) /\ q.db = a.entries[q.pos].db /\ q.pos \in 1..Len(a.entries)
        /\ q.pos \in Nat /\ q.pos # 0
    BY <1>4, <1>5 DEF Loaded
  <2>6. o # New
    BY <2>4, <2>5 DEF New
  <2>7. Inside(a, o, n)
    BY <1>5, <2>4, <2>5, <2>6 DEF Inside, GoodReader
  <2>8. Past(a, o) = {k \in Selected(a) : k <= q.pos}
    BY <2>4, <2>5, PastIs
  <2>9. Past(a, o) = Past(a, r) \cup {q.pos}
    <3>1. \A k \in Selected(a) : k <= q.pos <=> k < q.pos \/ k = q.pos
      BY <1>4, <2>5
    <3> QED BY <1>5, <2>5, <2>8, <3>1
  <2>10. q.pos \in Of(a, n)
    BY <1>5, <2>5, SelectedFacts
  <2> QED BY <2>3, <2>7, <2>9, <2>10
<1>6. CASE r.state = "NEXT"
  <2>1. q = r /\ ~Throws(r, q)
    BY <1>1, <1>6 DEF Retrieve, Throws
  <2>2. Loaded(a, r) /\ r.db = n
    BY <1>6 DEF Inside, GoodReader
  <2>3. Past(a, r) = {k \in Selected(a) : k < q.pos}
    BY <1>3, <1>6, <2>1, PastIs
  <2> QED BY <1>3, <1>5, <1>6, <2>1, <2>2, <2>3
<1>7. CASE r.state = "EMPTY"
  <2>0. Past(a, r) = {k \in Selected(a) : k <= r.pos}
    BY <1>3, <1>7, PastIs
  <2>1. DOMAIN q = ReaderFields
    BY <1>1, <1>7, AheadOf
  <2>2. CASE /\ ~Throws(r, q) /\ q.state = "NEXT" /\ Loaded(a, q) /\ q.db = n
             /\ r.pos < q.pos /\ \A k \in Selected(a) : r.pos < k => q.pos <= k
    <3>1. q.pos \in Nat
      BY <1>4, <2>2 DEF Loaded
    <3>2. \A k \in Selected(a) : k <= r.pos <=> k < q.pos
      BY <1>3, <1>4, <2>2, <3>1
    <3> QED BY <1>5, <2>0, <2>1, <2>2, <3>2
  <2>3. CASE /\ ~Throws(r, q) /\ q.state = "DBEND" /\ Loaded(a, q) /\ q.db # n
             /\ r.pos < q.pos /\ \A k \in Selected(a) : r.pos < k => q.pos <= k
    <3>1. PICK o : o = [q EXCEPT !.state = "NEXT"]
      OBVIOUS
    <3>2. f.ret = "false" /\ f.obj = o
      BY <1>2, <2>3, <3>1 DEF Deliver, Nothing
    <3>3. /\ o.state = "NEXT" /\ o.pos = q.pos /\ o.db = q.db /\ o.held = q.held
          /\ DOMAIN o = ReaderFields
      BY <2>1, <3>1 DEF ReaderFields
    <3>4. Loaded(a, o) /\ q.pos \in Nat
      BY <1>4, <2>3, <3>3 DEF Loaded
    <3>5. \A k \in Selected(a) : r.pos < k /\ k < o.pos => a.entries[k].db = n
      BY <1>4, <2>3, <3>3, <3>4
    <3>6. Leaves(a, r, o, n)
      BY <2>3, <3>3, <3>4, <3>5, LeavesToNext
    <3>7. Past(a, o) = {k \in Selected(a) : k < q.pos}
      BY <3>3, <3>4, PastIs
    <3>8. \A k \in Selected(a) : k < q.pos => k <= r.pos
      BY <1>3, <1>4, <2>3, <3>4
    <3>9. Of(a, n) \subseteq Past(a, r)
      BY <2>0, <3>6, <3>7, <3>8 DEF Leaves
    <3> QED BY <3>2, <3>6, <3>9
  <2>4. CASE /\ ~Throws(r, q) /\ q.state = "EOF" /\ q.pos = Len(a.entries)
             /\ \A k \in Selected(a) : ~(r.pos < k)
    <3>1. f.ret = "false" /\ f.obj = q
      BY <1>2, <2>4 DEF Deliver, Nothing
    <3>2. Leaves(a, r, q, n)
      BY <2>1, <2>4, LeavesToEnd
    <3>3. Past(a, r) = Selected(a) /\ Of(a, n) \subseteq Selected(a)
      BY <1>3, <1>4, <2>0, <2>4, SelectedFacts
    <3> QED BY <3>1, <3>2, <3>3
  <2>5. CASE Throws(r, q)
    BY <1>2, <2>5 DEF Deliver, Nothing
  <2> QED BY <1>1, <1>7, <2>2, <2>3, <2>4, <2>5, AheadOf
<1> QED BY <1>6, <1>7 DEF Inside

(* SkipCurrentDB leaves n, whatever of it was read. *)
LEMMA SkipDoes ==
  ASSUME NEW a \in Archives, NEW r, NEW n, Inside(a, r, n)
  PROVE  Leaves(a, r, SkipCurrentDB(a, RestoreFilter, r), n)
<1>1. PICK q, s, z : /\ q = Retrieve(a, RestoreFilter, r, TRUE)
                     /\ s = SkipLoop(a, RestoreFilter, r)
                     /\ z = SkipCurrentDB(a, RestoreFilter, r)
  OBVIOUS
<1> SUFFICES Leaves(a, r, z, n)
  BY <1>1
<1>2. PICK others : others = {i \in (q.pos + 1)..Len(a.entries) :
                                 Found(a, RestoreFilter, q, i) /\ a.entries[i].db # q.db}
  OBVIOUS
<1>3. z = IF s.state = "DBEND" THEN [s EXCEPT !.state = "NEXT"] ELSE s
  BY <1>1 DEF SkipCurrentDB
<1>4. /\ r.pos \in Of(a, n) /\ r.pos \in Selected(a) /\ n \in Listed /\ n # NoName
      /\ r.pos \in Nat /\ DOMAIN r = ReaderFields
  BY InsideFacts
<1>5. Selected(a) \in SUBSET Nat /\ Selected(a) \subseteq 1..Len(a.entries) /\ Len(a.entries) \in Nat
  BY SelectedFacts
<1>6. ASSUME ~Throws(r, q), q.state = "NEXT", DOMAIN q = ReaderFields, Loaded(a, q), q.db = n,
             r.pos <= q.pos, \A k \in Selected(a) : r.pos < k => q.pos <= k
      PROVE  Leaves(a, r, z, n)
  <2>1. q.pos \in Selected(a) /\ q.pos \in 0..Len(a.entries) /\ q.pos \in Nat
    BY <1>5, <1>6 DEF Loaded
  <2>2. others = {i \in Ahead(a, q) : a.entries[i].db # n}
    <3>1. {i \in (q.pos + 1)..Len(a.entries) : Found(a, RestoreFilter, q, i)} = Ahead(a, q)
      BY <1>4, <1>6, <2>1, HitsAre
    <3> QED BY <1>2, <1>6, <3>1
  <2>3. \A i \in others : i \in Selected(a) /\ q.pos < i /\ a.entries[i].db # n
    BY <1>5, <2>1, <2>2 DEF Ahead
  <2>4. \A i \in Selected(a) : q.pos < i /\ i \notin others => a.entries[i].db = n
    BY <1>5, <2>1, <2>2 DEF Ahead
  <2>5. a.entries[q.pos].db = n
    BY <1>6 DEF Loaded
  <2>6. CASE others # {}
    <3>1. PICK m : m = Min(others)
      OBVIOUS
    <3>2. m \in others /\ \A i \in others : m <= i
      <4>1. others \in SUBSET Nat
        BY <1>5, <2>3
      <4> QED BY <2>6, <3>1, <4>1, LeastOf
    <3>3. s = [q EXCEPT !.state = "DBEND", !.pos = m, !.held = m, !.meta = m,
                        !.db = a.entries[m].db]
      BY <1>1, <1>2, <1>6, <2>6, <3>1 DEF SkipLoop
    <3>4. /\ s.state = "DBEND" /\ s.pos = m /\ s.held = m /\ s.db = a.entries[m].db
          /\ DOMAIN s = ReaderFields
      BY <1>6, <3>3 DEF ReaderFields
    <3>5. z = [s EXCEPT !.state = "NEXT"]
      BY <1>3, <3>4
    <3>6. /\ z.state = "NEXT" /\ z.pos = m /\ z.held = m /\ z.db = a.entries[m].db
          /\ DOMAIN z = ReaderFields
      BY <3>4, <3>5 DEF ReaderFields
    <3>7. Loaded(a, z) /\ z.db # n /\ m \in Nat /\ r.pos < z.pos
      BY <1>4, <1>5, <1>6, <2>1, <2>3, <3>2, <3>6 DEF Loaded
    <3>8. \A k \in Selected(a) : r.pos < k /\ k < z.pos => a.entries[k].db = n
      <4> SUFFICES ASSUME NEW k \in Selected(a), r.pos < k, k < m PROVE a.entries[k].db = n
        BY <3>6
      <4>1. q.pos <= k /\ k \in Nat
        BY <1>5, <1>6
      <4>2. k = q.pos \/ (q.pos < k /\ k \notin others)
        BY <2>1, <3>2, <3>7, <4>1
      <4> QED BY <2>4, <2>5, <4>2
    <3> QED BY <3>6, <3>7, <3>8, LeavesToNext
  <2>7. CASE others = {}
    <3>1. s = [q EXCEPT !.state = "EOF", !.pos = Len(a.entries)]
      BY <1>1, <1>2, <1>6, <2>7 DEF SkipLoop
    <3>2. s.state = "EOF" /\ s.pos = Len(a.entries) /\ DOMAIN s = ReaderFields
      BY <1>6, <3>1 DEF ReaderFields
    <3>3. \A k \in Selected(a) : r.pos < k => a.entries[k].db = n
      <4> SUFFICES ASSUME NEW k \in Selected(a), r.pos < k PROVE a.entries[k].db = n
        OBVIOUS
      <4>1. q.pos <= k /\ k \in Nat
        BY <1>5, <1>6
      <4>2. k = q.pos \/ q.pos < k
        BY <2>1, <4>1
      <4> QED BY <2>4, <2>5, <2>7, <4>2
    <3>4. z = s
      BY <1>3, <3>2
    <3> QED BY <3>2, <3>3, <3>4, LeavesToEnd
  <2> QED BY <2>6, <2>7
<1>7. CASE r.state = "NEXT"
  <2>1. q = r /\ ~Throws(r, q)
    BY <1>1, <1>7 DEF Retrieve, Throws
  <2>2. Loaded(a, r) /\ r.db = n
    BY <1>7 DEF Inside, GoodReader
  <2>3. r.pos <= r.pos /\ \A k \in Selected(a) : r.pos < k => r.pos <= k
    BY <1>4, <1>5
  <2>4. /\ q.state = "NEXT" /\ DOMAIN q = ReaderFields /\ Loaded(a, q) /\ q.db = n
        /\ r.pos <= q.pos /\ \A k \in Selected(a) : r.pos < k => q.pos <= k
    BY <1>4, <1>7, <2>1, <2>2, <2>3
  <2> QED BY <1>6, <2>1, <2>4
<1>8. CASE r.state = "EMPTY"
  <2>1. DOMAIN q = ReaderFields
    BY <1>1, <1>8, AheadOf
  <2>2. CASE /\ ~Throws(r, q) /\ q.state = "NEXT" /\ Loaded(a, q) /\ q.db = n
             /\ r.pos < q.pos /\ \A k \in Selected(a) : r.pos < k => q.pos <= k
    <3>1. q.pos \in Nat
      BY <1>5, <2>2 DEF Loaded
    <3>2. r.pos <= q.pos
      BY <1>4, <2>2, <3>1
    <3> QED BY <1>1, <1>6, <2>1, <2>2, <3>2
  <2>3. CASE /\ ~Throws(r, q) /\ q.state = "DBEND" /\ Loaded(a, q) /\ q.db # n
             /\ r.pos < q.pos /\ \A k \in Selected(a) : r.pos < k => q.pos <= k
    <3>1. s = q
      BY <1>1, <2>3 DEF SkipLoop
    <3>2. z = [q EXCEPT !.state = "NEXT"]
      BY <1>3, <2>3, <3>1
    <3>3. /\ z.state = "NEXT" /\ z.pos = q.pos /\ z.db = q.db /\ z.held = q.held
          /\ DOMAIN z = ReaderFields
      BY <2>1, <3>2 DEF ReaderFields
    <3>4. Loaded(a, z) /\ q.pos \in Nat
      BY <1>5, <2>3, <3>3 DEF Loaded
    <3>5. \A k \in Selected(a) : r.pos < k /\ k < z.pos => a.entries[k].db = n
      BY <1>5, <2>3, <3>3, <3>4
    <3> QED BY <2>3, <3>3, <3>4, <3>5, LeavesToNext
  <2>4. CASE (Throws(r, q) \/ q.state = "EOF") /\ \A k \in Selected(a) : ~(r.pos < k)
    <3>1. s = [q EXCEPT !.state = "EOF", !.pos = Len(a.entries)]
      BY <1>1, <1>2, <2>4 DEF SkipLoop
    <3>2. s.state = "EOF" /\ s.pos = Len(a.entries) /\ DOMAIN s = ReaderFields
      BY <2>1, <3>1 DEF ReaderFields
    <3>3. z = s
      BY <1>3, <3>2
    <3> QED BY <1>1, <2>4, <3>2, <3>3, LeavesToEnd
  <2> QED BY <1>1, <1>8, <2>2, <2>3, <2>4, AheadOf
<1> QED BY <1>7, <1>8 DEF Inside

-----------------------------------------------------------------------------
(* The databases while they are restored. *)

(* A database that was cleared is filled from the first place on. *)
LEMMA AddRecordAdds ==
  ASSUME NEW t, NEW m \in Nat, DOMAIN t = 1..m, NEW id, NEW val
  PROVE  /\ DOMAIN AddRecord(t, id, val) = 1..(m + 1)
         /\ Vals(AddRecord(t, id, val)) = Vals(t) \cup {val}
<1>1. NextIndex(t) = m + 1
  <2>1. CASE m = 0
    <3>1. DOMAIN t = {}
      BY <2>1
    <3> QED BY <2>1, <3>1 DEF NextIndex
  <2>2. CASE m # 0
    <3>1. m \in 1..m /\ \A y \in 1..m : m >= y
      BY <2>2
    <3>2. \A x \in 1..m : (\A y \in 1..m : x >= y) => x = m
      BY <3>1
    <3>3. Max(1..m) = m
      BY <3>1, <3>2 DEF Max
    <3>4. 1..m # {}
      BY <3>1
    <3> QED BY <3>3, <3>4 DEF NextIndex
  <2> QED BY <2>1, <2>2
<1>2. 1..m \cup {m + 1} = 1..(m + 1) /\ m + 1 \notin 1..m
  OBVIOUS
<1>3. PICK u : u = AddRecord(t, id, val)
  OBVIOUS
<1>4. DOMAIN u = 1..(m + 1)
  BY <1>1, <1>2, <1>3 DEF AddRecord
<1>5. /\ \A i \in 1..m : u[i] = t[i]
      /\ u[m + 1] = Stored(id, val)
  BY <1>1, <1>2, <1>3 DEF AddRecord
<1>6. Stored(id, val).val = val
  BY DEF Stored
<1>7. Vals(u) = Vals(t) \cup {val}
  BY <1>2, <1>4, <1>5, <1>6 DEF Vals
<1> QED BY <1>3, <1>4, <1>7

LEMMA ClearDatabaseClears ==
  ASSUME NEW t
  PROVE  DOMAIN ClearDatabase(t) = 1..0 /\ Vals(ClearDatabase(t)) = {}
  BY DEF ClearDatabase, Vals

(* The reader has left n, which is on the device or was reported. *)
LEMMA LevelAfter ==
  ASSUME NEW a, NEW r, NEW q, NEW dev, NEW bad, NEW worse, NEW n,
         Level(a, r, dev, bad, {n}), Leaves(a, r, q, n), bad \subseteq worse,
         n \in worse \/ Restored(a, dev, n)
  PROVE  Level(a, q, dev, worse, {})
<1> SUFFICES ASSUME NEW m \in Listed
             PROVE  /\ Kind(a, q, m)
                    /\ m \notin worse /\ Of(a, m) # {} /\ Of(a, m) \subseteq Past(a, q)
                          => Restored(a, dev, m)
  BY DEF Level
<1>1. CASE m = n
  BY <1>1 DEF Leaves, Kind
<1>2. CASE m # n
  <2>1. Of(a, m) \cap Past(a, q) = Of(a, m) \cap Past(a, r)
    BY <1>2 DEF Leaves
  <2>2. /\ Kind(a, r, m)
        /\ m \notin bad /\ Of(a, m) # {} /\ Of(a, m) \subseteq Past(a, r) => Restored(a, dev, m)
    BY <1>2 DEF Level
  <2> QED BY <2>1, <2>2 DEF Kind
<1> QED BY <1>1, <1>2

(* A record of n was given, and only n has changed on the device. *)
LEMMA LevelDuring ==
  ASSUME NEW a, NEW r, NEW q, NEW dev, NEW new, NEW bad, NEW n,
         Level(a, r, dev, bad, {n}),
         \A m \in Listed \ {n} : Of(a, m) \cap Past(a, q) = Of(a, m) \cap Past(a, r),
         DOMAIN new = DOMAIN dev, \A m \in DOMAIN dev : m # n => new[m] = dev[m]
  PROVE  Level(a, q, new, bad, {n})
<1> SUFFICES ASSUME NEW m \in Listed \ {n}
             PROVE  /\ Kind(a, q, m)
                    /\ m \notin bad /\ Of(a, m) # {} /\ Of(a, m) \subseteq Past(a, q)
                          => Restored(a, new, m)
  BY DEF Level
<1>1. Of(a, m) \cap Past(a, q) = Of(a, m) \cap Past(a, r)
  OBVIOUS
<1>2. /\ Kind(a, r, m)
      /\ m \notin bad /\ Of(a, m) # {} /\ Of(a, m) \subseteq Past(a, r) => Restored(a, dev, m)
  BY DEF Level
<1>3. Restored(a, dev, m) => Restored(a, new, m)
  BY DEF Restored
<1> QED BY <1>1, <1>2, <1>3 DEF Kind

LEMMA OthersApart ==
  ASSUME NEW a, NEW n, NEW m, m # n, NEW i \in Of(a, n), NEW S
  PROVE  Of(a, m) \cap (S \cup {i}) = Of(a, m) \cap S
  BY DEF Of

LEMMA LevelOne ==
  ASSUME NEW a, NEW r, NEW dev, NEW bad, NEW n, Level(a, r, dev, bad, {})
  PROVE  Level(a, r, dev, bad, {n})
  BY DEF Level

(* The steps of the worker, on one device. *)
LEMMA LookStarts ==
  ASSUME NEW a \in Archives, NEW dev, NEW bad
  PROVE  Looking(a, New, dev, bad)
<1>1. Len(a.entries) \in Nat /\ \A n \in Listed : Of(a, n) \subseteq Selected(a)
  BY SelectedFacts
<1>2. Selected(a) \subseteq 1..Len(a.entries)
  BY SelectedFacts
<1>3. /\ New.state = "EMPTY" /\ New.pos = 0 /\ DOMAIN New = ReaderFields
  BY DEF New, ReaderFields
<1>4. GoodReader(a, New)
  BY <1>1, <1>3 DEF GoodReader
<1>5. Past(a, New) = {}
  BY <1>1, <1>2, <1>3 DEF Past
<1>6. Level(a, New, dev, bad, {})
  BY <1>5 DEF Level, Kind
<1> QED BY <1>4, <1>6 DEF Looking

LEMMA LookGoesOn ==
  ASSUME NEW a \in Archives, NEW r, NEW dev, NEW bad, Looking(a, r, dev, bad),
         NEW q, q = GetNextMeta(a, RestoreFilter, r), ~Throws(r, q)
  PROVE  Looking(a, q, dev, bad)
<1>1. CASE r.state # "EMPTY"
  <2>1. q = r
    BY <1>1 DEF GetNextMeta, Retrieve
  <2> QED BY <2>1
<1>2. CASE r.state = "EMPTY"
  <2>1. GoodReader(a, r) /\ r = New
    BY <1>2 DEF Looking
  <2>2. Finds(a, r, q)
    BY <1>2, <2>1, RetrieveFinds DEF GetNextMeta
  <2>3. r.pos = 0 /\ r.db = NoName
    BY <2>1 DEF New
  <2>4. /\ Len(a.entries) \in Nat /\ \A n \in Listed : Of(a, n) \subseteq Selected(a)
        /\ Selected(a) \subseteq 1..Len(a.entries)
    BY SelectedFacts
  <2>5. Ahead(a, r) = Selected(a)
    BY <2>3, <2>4 DEF Ahead
  <2>6. CASE Selected(a) # {}
    <3>1. /\ DOMAIN q = ReaderFields /\ q.state = "NEXT" /\ q.pos \in Selected(a)
          /\ q.db = a.entries[q.pos].db /\ q.held = q.pos
          /\ \A k \in Selected(a) : q.pos <= k
      BY <2>2, <2>3, <2>5, <2>6 DEF Finds
    <3>2. q.pos \in 0..Len(a.entries)
      BY <2>4, <3>1
    <3>3. GoodReader(a, q)
      BY <3>1, <3>2 DEF GoodReader, Loaded
    <3>4. Past(a, q) = {}
      BY <2>4, <3>1 DEF Past
    <3>5. Level(a, q, dev, bad, {})
      BY <3>4 DEF Level, Kind
    <3> QED BY <3>1, <3>3, <3>5 DEF Looking
  <2>7. CASE Selected(a) = {}
    <3>1. DOMAIN q = ReaderFields /\ q.state = "EOF" /\ q.pos = Len(a.entries)
      BY <2>2, <2>5, <2>7 DEF Finds
    <3>2. GoodReader(a, q)
      BY <2>4, <3>1 DEF GoodReader
    <3>3. \A n \in Listed : Of(a, n) = {}
      BY <2>4, <2>7
    <3>4. Level(a, q, dev, bad, {})
      BY <3>3 DEF Level, Kind
    <3> QED BY <3>1, <3>2, <3>4 DEF Looking
  <2> QED BY <2>6, <2>7
<1> QED BY <1>1, <1>2

(* At the end of the file everything selected is behind the reader. *)
LEMMA LookEnds ==
  ASSUME NEW a \in Archives, NEW r, NEW dev, NEW bad, Looking(a, r, dev, bad), r.state = "EOF"
  PROVE  AllRestored(a, dev, bad)
<1>1. Len(a.entries) \in Nat /\ Selected(a) \subseteq 1..Len(a.entries) /\ r.pos = Len(a.entries)
  BY SelectedFacts DEF Looking, GoodReader
<1>2. Past(a, r) = Selected(a)
  BY <1>1, PastIs
<1>3. \A n \in Listed : Of(a, n) \subseteq Past(a, r)
  BY <1>2, SelectedFacts
<1> QED BY <1>3 DEF AllRestored, Looking, Level

LEMMA LookInside ==
  ASSUME NEW a \in Archives, NEW r, NEW dev, NEW bad, Looking(a, r, dev, bad), r.state = "NEXT"
  PROVE  Inside(a, r, r.db)
<1>1. GoodReader(a, r)
  BY DEF Looking
<1>2. r # New
  BY DEF New
<1> QED BY <1>1, <1>2 DEF Inside

(* The database is skipped. *)
LEMMA SkipLooks ==
  ASSUME NEW a \in Archives, NEW r, NEW n, NEW dev, NEW bad, Inside(a, r, n),
         Level(a, r, dev, bad, {n})
  PROVE  Looking(a, SkipCurrentDB(a, RestoreFilter, r), dev, bad \cup {n})
<1>1. PICK q : q = SkipCurrentDB(a, RestoreFilter, r)
  OBVIOUS
<1>2. Leaves(a, r, q, n)
  BY <1>1, SkipDoes
<1>3. Level(a, q, dev, bad \cup {n}, {})
  <2>1. PICK worse : worse = bad \cup {n}
    OBVIOUS
  <2>2. bad \subseteq worse /\ n \in worse
    BY <2>1
  <2> QED BY <1>2, <2>1, <2>2, LevelAfter
<1> QED BY <1>1, <1>2, <1>3 DEF Looking, Leaves

(* The database is cleared. *)
LEMMA ClearSaves ==
  ASSUME NEW a \in Archives, NEW r, NEW dev, NEW bad, Looking(a, r, dev, bad), r.state = "NEXT",
         NEW n, n = r.db, n \in DOMAIN dev, NEW new, new = [dev EXCEPT ![n] = ClearDatabase(@)]
  PROVE  Saving(a, r, n, new, bad)
<1>1. Inside(a, r, n)
  BY LookInside
<1>2. r.pos \in Of(a, n) /\ n \in Listed /\ r.pos \in Nat
  BY <1>1, InsideFacts
<1>3. Level(a, r, dev, bad, {})
  BY DEF Looking
<1>4. r.pos \notin Past(a, r)
  BY <1>2 DEF Past
<1>5. Of(a, n) \cap Past(a, r) = {}
  BY <1>2, <1>3, <1>4 DEF Level, Kind
<1>6. DOMAIN new = DOMAIN dev /\ new[n] = ClearDatabase(dev[n])
      /\ \A m \in DOMAIN dev : m # n => new[m] = dev[m]
  OBVIOUS
<1>7. DOMAIN new[n] = 1..0 /\ Vals(new[n]) = {} /\ 0 \in Nat
  BY <1>6, ClearDatabaseClears
<1>8. Level(a, r, new, bad, {n})
  BY <1>3, <1>6, LevelOne, LevelDuring
<1>9. \E m \in Nat : DOMAIN new[n] = 1..m
  BY <1>7
<1>10. GoodReader(a, r) /\ r.state \in {"NEXT", "EMPTY"} /\ r # New /\ r.db = n
  BY <1>1 DEF Inside
<1> QED BY <1>5, <1>6, <1>7, <1>8, <1>9, <1>10 DEF Saving

LEMMA SavingInside ==
  ASSUME NEW a, NEW r, NEW n, NEW dev, NEW bad, Saving(a, r, n, dev, bad)
  PROVE  Inside(a, r, n) /\ Level(a, r, dev, bad, {n})
  BY DEF Saving, Inside

(* A record is written. *)
LEMMA SaveAdds ==
  ASSUME NEW a \in Archives, NEW r, NEW n, NEW dev, NEW bad, Saving(a, r, n, dev, bad),
         NEW f, f = BuildRecord(a, RestoreFilter, r), f.ret = "true", NEW id,
         NEW new, new = [dev EXCEPT ![n] = AddRecord(@, id, f.rec.data)]
  PROVE  Saving(a, f.obj, n, new, bad)
<1>1. Inside(a, r, n) /\ Level(a, r, dev, bad, {n})
  BY SavingInside
<1>2. PICK o, i : o = f.obj /\ i = f.rec.data
  OBVIOUS
<1>3. Inside(a, o, n) /\ i \in Of(a, n) /\ Past(a, o) = Past(a, r) \cup {i}
  BY <1>1, <1>2, BuildRecordDoes
<1>4. PICK m \in Nat : DOMAIN dev[n] = 1..m
  BY DEF Saving
<1>5. n \in DOMAIN dev /\ Vals(dev[n]) = Of(a, n) \cap Past(a, r)
  BY DEF Saving
<1>6. /\ DOMAIN new = DOMAIN dev /\ new[n] = AddRecord(dev[n], id, i)
      /\ \A x \in DOMAIN dev : x # n => new[x] = dev[x]
  BY <1>2, <1>5
<1>7. DOMAIN new[n] = 1..(m + 1) /\ Vals(new[n]) = Vals(dev[n]) \cup {i}
  BY <1>4, <1>6, AddRecordAdds
<1>8. Vals(new[n]) = Of(a, n) \cap Past(a, o)
  BY <1>3, <1>5, <1>7
<1>9. Level(a, o, new, bad, {n})
  <2>1. \A x \in Listed \ {n} : Of(a, x) \cap Past(a, o) = Of(a, x) \cap Past(a, r)
    BY <1>3, OthersApart
  <2> QED BY <1>1, <1>6, <2>1, LevelDuring
<1>10. \E x \in Nat : DOMAIN new[n] = 1..x
  <2>1. m + 1 \in Nat
    OBVIOUS
  <2> QED BY <1>7, <2>1
<1> QED BY <1>2, <1>3, <1>5, <1>6, <1>8, <1>9, <1>10 DEF Saving, Inside

(* The device refused the record: the rest of the database is skipped. *)
LEMMA SaveSkips ==
  ASSUME NEW a \in Archives, NEW r, NEW n, NEW dev, NEW bad, Saving(a, r, n, dev, bad),
         NEW f, f = BuildRecord(a, RestoreFilter, r), f.ret = "true"
  PROVE  Looking(a, SkipCurrentDB(a, RestoreFilter, f.obj), dev, bad \cup {n})
<1>1. Inside(a, r, n) /\ Level(a, r, dev, bad, {n})
  BY SavingInside
<1>2. PICK o, i : o = f.obj /\ i = f.rec.data
  OBVIOUS
<1>3. Inside(a, o, n) /\ i \in Of(a, n) /\ Past(a, o) = Past(a, r) \cup {i}
  BY <1>1, <1>2, BuildRecordDoes
<1>4. \A x \in Listed \ {n} : Of(a, x) \cap Past(a, o) = Of(a, x) \cap Past(a, r)
  BY <1>3, OthersApart
<1>5. Level(a, o, dev, bad, {n})
  BY <1>1, <1>4, LevelDuring
<1> QED BY <1>2, <1>3, <1>5, SkipLooks

(* The database is over, and has everything that the file has of it. *)
LEMMA SaveEnds ==
  ASSUME NEW a \in Archives, NEW r, NEW n, NEW dev, NEW bad, Saving(a, r, n, dev, bad),
         NEW f, f = BuildRecord(a, RestoreFilter, r), f.ret = "false"
  PROVE  Looking(a, f.obj, dev, bad)
<1>1. Inside(a, r, n) /\ Level(a, r, dev, bad, {n})
  BY SavingInside
<1>2. PICK o : o = f.obj
  OBVIOUS
<1>3. Leaves(a, r, o, n) /\ Of(a, n) \subseteq Past(a, r)
  BY <1>1, <1>2, BuildRecordDoes
<1>4. Restored(a, dev, n)
  BY <1>3 DEF Saving, Restored
<1>5. Level(a, o, dev, bad, {})
  BY <1>1, <1>3, <1>4, LevelAfter
<1> QED BY <1>2, <1>3, <1>5 DEF Looking, Leaves

-----------------------------------------------------------------------------
(* The builder goes through the databases while they are backed up. *)

LEMMA HaveFacts ==
  ASSUME NEW dev
  PROVE  /\ \A n, i : <<n, i>> \in Have(dev) <=> n \in Listed \cap DOMAIN dev /\ i \in DOMAIN dev[n]
         /\ \A r \in Have(dev) : r = <<r[1], r[2]>>
<1>1. \A r : r \in Have(dev) <=>
               \E n \in Listed \cap DOMAIN dev : \E i \in DOMAIN dev[n] : r = <<n, i>>
  BY DEF Have
<1>2. ASSUME NEW n, NEW i
      PROVE  <<n, i>> \in Have(dev) <=> n \in Listed \cap DOMAIN dev /\ i \in DOMAIN dev[n]
  <2>1. \A m, j : <<n, i>> = <<m, j>> <=> n = m /\ i = j
    OBVIOUS
  <2> QED BY <1>1, <2>1
<1>3. ASSUME NEW r \in Have(dev) PROVE r = <<r[1], r[2]>>
  BY <1>1
<1> QED BY <1>2, <1>3

LEMMA PassedIs ==
  ASSUME NEW dev, NEW b
  PROVE  /\ \A n, i : <<n, i>> \in Passed(dev, b) <=>
                <<n, i>> \in Have(dev) /\ \E k \in 1..Len(DbList) : n = DbList[k] /\ Behind(b, k, i)
         /\ \A r \in Passed(dev, b) : r = <<r[1], r[2]>> /\ r \in Have(dev)
  BY HaveFacts DEF Passed

(* The place in the database that is read next, where the builder is there
   already. *)
Mark(b) == IF b.busy THEN b.at ELSE 0

LEMMA BehindIs ==
  ASSUME NEW dev, NEW b, GoodBuilder(dev, b)
  PROVE  /\ Upcoming(b) \in Nat \ {0} /\ Mark(b) \in Nat
         /\ \A k \in 1..Len(DbList), i \in Nat \ {0} :
                Behind(b, k, i) <=> k < Upcoming(b) \/ (k = Upcoming(b) /\ i <= Mark(b))
<1>1. /\ b.cur \in Nat \ {0} /\ b.started \in BOOLEAN /\ b.busy \in BOOLEAN /\ b.at \in Nat
      /\ (b.busy => b.started) /\ (~b.started => b.cur = 1) /\ Len(DbList) \in Nat
  BY DatabasesAssumption DEF GoodBuilder
<1>2. CASE b.busy
  BY <1>1, <1>2 DEF Behind, Upcoming, Mark
<1>3. CASE ~b.busy /\ b.started
  BY <1>1, <1>3 DEF Behind, Upcoming, Mark
<1>4. CASE ~b.busy /\ ~b.started
  BY <1>1, <1>4 DEF Behind, Upcoming, Mark
<1> QED BY <1>1, <1>2, <1>3, <1>4

(* The builder n after the next FetchRecord, which had rest to read. *)
Fetched(b, n, rest) ==
    /\ DOMAIN n = BuilderFields /\ n.dbs = DbList /\ n.cur = Upcoming(b)
    /\ n.started = TRUE /\ n.busy = (rest # {})
    /\ rest = {} => n.at = 0
    /\ rest # {} => n.at = Min(rest)

LEMMA FetchGoes ==
  ASSUME NEW dev, NEW b, GoodBuilder(dev, b), Upcoming(b) <= Len(DbList),
         NEW n, n = FetchFromDevice(dev, b),
         NEW rest, rest = {j \in DOMAIN dev[DbList[Upcoming(b)]] : j > Mark(b)}
  PROVE  Fetched(b, n, rest)
<1>1. /\ b.cur \in Nat \ {0} /\ b.started \in BOOLEAN /\ b.busy \in BOOLEAN /\ b.at \in Nat
      /\ (b.busy => b.started) /\ Len(DbList) \in Nat /\ DOMAIN b = BuilderFields /\ b.dbs = DbList
  BY DatabasesAssumption DEF GoodBuilder
<1>2. ~(b.cur > Len(b.dbs))
  BY <1>1 DEF Upcoming
<1>3. ASSUME NEW c, DOMAIN c = BuilderFields, c.dbs = DbList, c.cur = Upcoming(b), c.started = TRUE,
             n = LoadAfter(c, dev[DbList[Upcoming(b)]], Mark(b))
      PROVE  Fetched(b, n, rest)
  <2>1. PICK x, y : x = (rest # {}) /\ y = IF rest = {} THEN 0 ELSE Min(rest)
    OBVIOUS
  <2>2. n = [c EXCEPT !.busy = x, !.at = y]
    BY <1>3, <2>1 DEF LoadAfter
  <2> QED BY <1>3, <2>1, <2>2 DEF BuilderFields, Fetched
<1>4. CASE b.busy
  <2>1. n = LoadAfter(b, dev[DbList[Upcoming(b)]], Mark(b))
    BY <1>1, <1>2, <1>4 DEF FetchFromDevice, BuilderEOF, Upcoming, Mark
  <2>2. b.cur = Upcoming(b) /\ b.started = TRUE
    BY <1>1, <1>4 DEF Upcoming
  <2> QED BY <1>1, <1>3, <2>1, <2>2
<1>5. CASE ~b.busy /\ ~b.started
  <2>1. PICK c : c = [b EXCEPT !.started = TRUE]
    OBVIOUS
  <2>2. n = LoadAfter(c, dev[DbList[Upcoming(b)]], Mark(b))
    BY <1>1, <1>2, <1>5, <2>1 DEF FetchFromDevice, BuilderEOF, Upcoming, Mark
  <2>3. DOMAIN c = BuilderFields /\ c.dbs = DbList /\ c.cur = Upcoming(b) /\ c.started = TRUE
    BY <1>1, <1>5, <2>1 DEF Upcoming, BuilderFields
  <2> QED BY <1>3, <2>2, <2>3
<1>6. CASE ~b.busy /\ b.started
  <2>1. PICK c : c = [b EXCEPT !.cur = @ + 1, !.at = 0]
    OBVIOUS
  <2>2. DOMAIN c = BuilderFields /\ c.dbs = DbList /\ c.cur = Upcoming(b) /\ c.started = TRUE
    BY <1>1, <1>6, <2>1 DEF Upcoming, BuilderFields
  <2>3. ~BuilderEOF(c)
    BY <1>1, <2>2 DEF BuilderEOF, Upcoming
  <2>4. n = LoadAfter(c, dev[DbList[Upcoming(b)]], Mark(b))
    BY <1>2, <1>6, <2>1, <2>2, <2>3 DEF FetchFromDevice, BuilderEOF, Mark
  <2> QED BY <1>3, <2>2, <2>4
<1> QED BY <1>1, <1>4, <1>5, <1>6

LEMMA FetchDoes ==
  ASSUME NEW dev, Places(dev), NEW b, GoodBuilder(dev, b), Upcoming(b) <= Len(DbList),
         DbList[Upcoming(b)] \in DOMAIN dev, NEW n, n = FetchFromDevice(dev, b)
  PROVE  /\ GoodBuilder(dev, n)
         /\ n.at = 0 => Passed(dev, n) = Passed(dev, b)
         /\ n.at # 0 => /\ <<DbList[n.cur], n.at>> \notin Passed(dev, b)
                        /\ Passed(dev, n) = Passed(dev, b) \cup {<<DbList[n.cur], n.at>>}
<1>1. PICK u, t, i0 : u = Upcoming(b) /\ t = dev[DbList[u]] /\ i0 = Mark(b)
  OBVIOUS
<1>2. PICK rest : rest = {j \in DOMAIN t : j > i0}
  OBVIOUS
<1>3. /\ DOMAIN n = BuilderFields /\ n.dbs = DbList /\ n.cur = u
      /\ n.started = TRUE /\ n.busy = (rest # {})
      /\ rest = {} => n.at = 0
      /\ rest # {} => n.at = Min(rest)
  <2>1. Fetched(b, n, rest)
    BY <1>1, <1>2, FetchGoes
  <2> QED BY <1>1, <2>1 DEF Fetched
<1>4. /\ u \in Nat \ {0} /\ i0 \in Nat
      /\ \A k \in 1..Len(DbList), i \in Nat \ {0} : Behind(b, k, i) <=> k < u \/ (k = u /\ i <= i0)
  BY <1>1, BehindIs
<1>5. /\ Len(DbList) \in Nat /\ \A j, k \in 1..Len(DbList) : DbList[j] = DbList[k] => j = k
      /\ DOMAIN DbList = 1..Len(DbList)
  BY DatabasesAssumption
<1>6. u \in 1..Len(DbList) /\ DbList[u] \in Listed \cap DOMAIN dev /\ DOMAIN t \subseteq Nat \ {0}
  BY <1>1, <1>4, <1>5 DEF Places, Listed
<1>7. rest # {} => n.at \in rest /\ \A i \in rest : n.at <= i
  <2>1. rest \in SUBSET Nat
    BY <1>2, <1>6
  <2>2. rest # {} => Min(rest) \in rest /\ \A i \in rest : Min(rest) <= i
    BY <2>1, LeastOf
  <2> QED BY <1>3, <2>2
<1>8. n.at \in Nat /\ (n.at = 0 <=> rest = {})
  BY <1>2, <1>3, <1>6, <1>7
<1>9. GoodBuilder(dev, n)
  <2>1. ASSUME NEW k \in 1..Len(DbList), k <= u PROVE DbList[k] \in DOMAIN dev
    <3>1. CASE k = u
      BY <1>6, <3>1
    <3>2. CASE k < u
      <4>1. k < b.cur \/ (k = b.cur /\ b.started)
        BY <1>1, <1>5, <2>1, <3>2 DEF Upcoming, GoodBuilder
      <4> QED BY <4>1 DEF GoodBuilder
    <3> QED BY <1>4, <1>5, <2>1, <3>1, <3>2
  <2>2. \A k \in 1..Len(DbList) : k < u \/ k = u => k <= u
    BY <1>4, <1>5
  <2>3. n.cur \in Nat \ {0} /\ n.busy \in BOOLEAN /\ (n.busy => n.at # 0) /\ n.cur <= Len(DbList)
    <3>1. n.cur \in Nat \ {0} /\ n.cur <= Len(DbList)
      BY <1>3, <1>4, <1>5, <1>6
    <3>2. n.busy \in BOOLEAN /\ (n.busy => rest # {})
      BY <1>3, Zenon
    <3> QED BY <1>8, <3>1, <3>2
  <2>4. \A k \in 1..Len(DbList) : k < n.cur \/ k = n.cur => DbList[k] \in DOMAIN dev
    BY <1>3, <2>1, <2>2
  <2> QED BY <1>3, <1>8, <2>3, <2>4 DEF GoodBuilder
<1>10. \A k \in 1..Len(DbList) : \A i : Behind(n, k, i) <=> k < u \/ (k = u /\ (rest # {} => i <= n.at))
  BY <1>3 DEF Behind
<1>11. \A x, i : <<x, i>> \in Have(dev) <=> x \in Listed \cap DOMAIN dev /\ i \in DOMAIN dev[x]
  BY HaveFacts
<1>12. \A x, i : <<x, i>> \in Have(dev) => i \in Nat \ {0}
  BY <1>11 DEF Places
<1>13. \A x, i : <<x, i>> \in Passed(dev, b) <=>
            <<x, i>> \in Have(dev) /\ \E k \in 1..Len(DbList) : x = DbList[k] /\ Behind(b, k, i)
  BY PassedIs
<1>14. \A x, i : <<x, i>> \in Passed(dev, n) <=>
            <<x, i>> \in Have(dev) /\ \E k \in 1..Len(DbList) : x = DbList[k] /\ Behind(n, k, i)
  BY PassedIs
<1>15. /\ \A r \in Passed(dev, b) : r = <<r[1], r[2]>>
       /\ \A r \in Passed(dev, n) : r = <<r[1], r[2]>>
  BY PassedIs
<1>16. CASE rest = {}
  <2>1. \A i \in DOMAIN t : i <= i0
    BY <1>2, <1>4, <1>6, <1>16
  <2>2. ASSUME NEW x, NEW i, <<x, i>> \in Have(dev), NEW k \in 1..Len(DbList), x = DbList[k]
        PROVE  Behind(b, k, i) <=> Behind(n, k, i)
    <3>1. i \in Nat \ {0} /\ i \in DOMAIN dev[x]
      BY <1>11, <1>12, <2>2
    <3>2. k = u => i <= i0
      BY <1>1, <2>1, <2>2, <3>1
    <3> QED BY <1>4, <1>10, <1>16, <3>1, <3>2
  <2>3. \A x, i : <<x, i>> \in Passed(dev, b) <=> <<x, i>> \in Passed(dev, n)
    BY <1>13, <1>14, <2>2
  <2>4. Passed(dev, n) = Passed(dev, b)
    <3>1. ASSUME NEW r \in Passed(dev, n) PROVE r \in Passed(dev, b)
      <4>1. r = <<r[1], r[2]>>
        BY <1>15
      <4> QED BY <2>3, <4>1
    <3>2. ASSUME NEW r \in Passed(dev, b) PROVE r \in Passed(dev, n)
      <4>1. r = <<r[1], r[2]>>
        BY <1>15
      <4> QED BY <2>3, <4>1
    <3> QED BY <3>1, <3>2
  <2> QED BY <1>8, <1>9, <1>16, <2>4
<1>17. CASE rest # {}
  <2>1. n.at \in DOMAIN t /\ n.at > i0
    BY <1>2, <1>7, <1>17
  <2>2. \A i \in DOMAIN t : i <= n.at <=> i <= i0 \/ i = n.at
    BY <1>2, <1>4, <1>6, <1>7, <1>8, <1>17, <2>1
  <2>3. PICK x0, i1 : x0 = DbList[u] /\ i1 = n.at
    OBVIOUS
  <2>4. <<x0, i1>> \in Have(dev)
    BY <1>1, <1>6, <1>11, <2>1, <2>3
  <2>5. <<x0, i1>> \notin Passed(dev, b)
    <3> SUFFICES ASSUME NEW k \in 1..Len(DbList), x0 = DbList[k], Behind(b, k, i1) PROVE FALSE
      BY <1>13
    <3>1. k = u
      BY <1>5, <1>6, <2>3
    <3>2. i1 \in Nat \ {0} /\ ~(i1 <= i0)
      BY <1>4, <1>6, <2>1, <2>3
    <3> QED BY <1>4, <3>1, <3>2
  <2>6. ASSUME NEW x, NEW i, <<x, i>> \in Have(dev), NEW k \in 1..Len(DbList), x = DbList[k]
        PROVE  Behind(n, k, i) <=> Behind(b, k, i) \/ (x = x0 /\ i = i1)
    <3>1. i \in Nat \ {0} /\ i \in DOMAIN dev[x]
      BY <1>11, <1>12, <2>6
    <3>2. k = u <=> x = x0
      BY <1>5, <1>6, <2>3, <2>6
    <3>3. k = u => (i <= n.at <=> i <= i0 \/ i = n.at)
      BY <1>1, <2>2, <2>6, <3>1
    <3> QED BY <1>4, <1>10, <1>17, <2>3, <3>1, <3>2, <3>3
  <2>7. ASSUME NEW x, NEW i
        PROVE  <<x, i>> \in Passed(dev, n) <=> <<x, i>> \in Passed(dev, b) \/ (x = x0 /\ i = i1)
    <3>1. CASE <<x, i>> \notin Have(dev)
      BY <1>13, <1>14, <2>4, <3>1
    <3>2. CASE <<x, i>> \in Have(dev)
      <4>1. PICK k \in 1..Len(DbList) : x = DbList[k]
        BY <1>5, <1>11, <3>2 DEF Listed
      <4> QED BY <1>5, <1>13, <1>14, <2>6, <3>2, <4>1
    <3> QED BY <3>1, <3>2
  <2>8. Passed(dev, n) = Passed(dev, b) \cup {<<x0, i1>>}
    <3>1. ASSUME NEW r \in Passed(dev, n) PROVE r \in Passed(dev, b) \cup {<<x0, i1>>}
      <4>1. r = <<r[1], r[2]>>
        BY <1>15
      <4> QED BY <2>7, <4>1
    <3>2. ASSUME NEW r \in Passed(dev, b) PROVE r \in Passed(dev, n)
      <4>1. r = <<r[1], r[2]>>
        BY <1>15
      <4> QED BY <2>7, <4>1
    <3>3. <<x0, i1>> \in Passed(dev, n)
      BY <2>7
    <3> QED BY <3>1, <3>2, <3>3
  <2> QED BY <1>3, <1>8, <1>9, <1>17, <2>3, <2>5, <2>8
<1> QED BY <1>16, <1>17

(* A builder that starts has passed nothing, and one that is through has passed
   everything. *)
LEMMA BuilderStarts ==
  ASSUME NEW dev
  PROVE  GoodBuilder(dev, NewBuilder(DbList)) /\ Passed(dev, NewBuilder(DbList)) = {}
<1>1. PICK b : b = NewBuilder(DbList)
  OBVIOUS
<1>2. /\ DOMAIN b = BuilderFields /\ b.dbs = DbList /\ b.cur = 1 /\ b.started = FALSE
      /\ b.busy = FALSE /\ b.at = 0
  BY <1>1 DEF NewBuilder, BuilderFields
<1>3. Len(DbList) \in Nat /\ \A k \in 1..Len(DbList) : ~(k < 1)
  BY DatabasesAssumption
<1>4. GoodBuilder(dev, b)
  <2>0. b.started \in BOOLEAN /\ b.busy \in BOOLEAN
    BY <1>2, Zenon
  <2>1. b.cur \in Nat \ {0} /\ b.at \in Nat
    BY <1>2
  <2>2. ~b.started /\ ~b.busy
    BY <1>2
  <2>3. \A k \in 1..Len(DbList) : ~(k < b.cur \/ (k = b.cur /\ b.started))
    BY <1>2, <1>3
  <2> QED BY <1>2, <2>0, <2>1, <2>2, <2>3, Zenon DEF GoodBuilder
<1>5. \A k \in 1..Len(DbList) : \A i : ~Behind(b, k, i)
  BY <1>2, <1>3 DEF Behind
<1>6. Passed(dev, b) = {}
  BY <1>5 DEF Passed
<1> QED BY <1>1, <1>4, <1>6

LEMMA BuilderDone ==
  ASSUME NEW dev, Places(dev), NEW b, GoodBuilder(dev, b), Upcoming(b) > Len(DbList)
  PROVE  Passed(dev, b) = Have(dev)
<1>1. Len(DbList) \in Nat /\ DOMAIN DbList = 1..Len(DbList)
  BY DatabasesAssumption
<1>2. /\ Upcoming(b) \in Nat \ {0}
      /\ \A k \in 1..Len(DbList), i \in Nat \ {0} :
                Behind(b, k, i) <=> k < Upcoming(b) \/ (k = Upcoming(b) /\ i <= Mark(b))
  BY BehindIs
<1>3. \A k \in 1..Len(DbList), i \in Nat \ {0} : Behind(b, k, i)
  BY <1>1, <1>2
<1>4. ASSUME NEW r \in Have(dev) PROVE r \in Passed(dev, b)
  <2>1. r = <<r[1], r[2]>>
    BY HaveFacts
  <2>2. PICK n, i : n = r[1] /\ i = r[2]
    OBVIOUS
  <2>3. r = <<n, i>> /\ n \in Listed \cap DOMAIN dev /\ i \in DOMAIN dev[n]
    BY <2>1, <2>2, HaveFacts
  <2>4. i \in Nat \ {0}
    BY <2>3 DEF Places
  <2>5. PICK k \in 1..Len(DbList) : n = DbList[k]
    BY <1>1, <2>3 DEF Listed
  <2> QED BY <1>3, <2>2, <2>4, <2>5 DEF Passed
<1> QED BY <1>4 DEF Passed

(* One more member at the end of a list that did not have it. *)
LEMMA ListsMore ==
  ASSUME NEW n \in Nat, NEW s, List(s, n), Len(s) = n, NEW S, Lists(s, S), NEW e, e \notin S
  PROVE  Lists(Append(s, e), S \cup {e})
<1>1. DOMAIN s = 1..n
  BY DEF List
<1>2. PICK u : u = Append(s, e)
  OBVIOUS
<1>3. u = Append(s, e) /\ \E R : s \in Seq(R) /\ e \in R
  <2> DEFINE R == {s[i] : i \in 1..n} \cup {e}
  <2>1. s \in Seq(R)
    <3>1. s = [i \in 1..n |-> s[i]]
      BY DEF List
    <3>2. [i \in 1..n |-> s[i]] \in [1..n -> R]
      OBVIOUS
    <3>3. s \in [1..n -> R]
      BY <3>1, <3>2
    <3> QED BY <3>3
  <2>2. e \in R
    OBVIOUS
  <2> HIDE DEF R
  <2> QED BY <1>2, <2>1, <2>2
<1>4. /\ DOMAIN u = 1..(n + 1) /\ u[n + 1] = e
      /\ \A i \in 1..n : u[i] = s[i] /\ i # n + 1
      /\ \A i \in 1..(n + 1) : i \in 1..n \/ i = n + 1
  <2>1. PICK R : s \in Seq(R) /\ e \in R
    BY <1>3
  <2>2. u \in Seq(R) /\ Len(u) = n + 1 /\ u[n + 1] = e /\ \A i \in 1..n : u[i] = s[i]
    BY <1>2, <2>1
  <2>3. DOMAIN u = 1..(n + 1)
    BY <2>2
  <2> QED BY <2>2, <2>3
<1>5. {u[k] : k \in DOMAIN u} = S \cup {e}
  <2>1. S = {s[k] : k \in 1..n}
    BY <1>1 DEF Lists
  <2>2. n + 1 \in 1..(n + 1) /\ \A i \in 1..n : i \in 1..(n + 1)
    OBVIOUS
  <2> QED BY <1>4, <2>1, <2>2
<1>6. ASSUME NEW j \in DOMAIN u, NEW k \in DOMAIN u, j # k PROVE u[j] # u[k]
  <2>1. \A i \in 1..n : s[i] # e
    BY <1>1 DEF Lists
  <2>2. \A x, y \in 1..n : x # y => s[x] # s[y]
    BY <1>1 DEF Lists
  <2> QED BY <1>4, <1>6, <2>1, <2>2
<1> QED BY <1>2, <1>5, <1>6 DEF Lists

(* A list that has each record once has as many as there are. *)
LEMMA CompleteWhen ==
  ASSUME NEW d, NEW n \in Nat, List(out[d], n), Len(out[d]) = n, Lists(out[d], Have(data[d]))
  PROVE  Complete(d)
<1>1. PICK s, S : s = out[d] /\ S = Have(data[d])
  OBVIOUS
<1>2. S = HeldRecords(d)
  BY <1>1 DEF Have, HeldRecords
<1>3. /\ DOMAIN s = 1..n /\ {s[k] : k \in 1..n} = S
      /\ \A j, k \in 1..n : j # k => s[j] # s[k]
  BY <1>1 DEF Lists, List
<1>4. s \in [1..n -> S]
  <2>1. s = [i \in 1..n |-> s[i]]
    BY <1>1 DEF List
  <2> QED BY <1>3, <2>1
<1>5. s \in Injection(1..n, S)
  BY <1>3, <1>4 DEF Injection, IsInjective
<1>6. s \in Surjection(1..n, S)
  BY <1>3, <1>4 DEF Surjection
<1>7. ExistsBijection(1..n, S)
  BY <1>5, <1>6 DEF Bijection, ExistsBijection
<1>8. Cardinality(S) = n
  BY <1>7, FS_CountingElements
<1>9. Len(out[d]) = Held(d)
  BY <1>2, <1>8 DEF Held
<1> QED BY <1>1, <1>2, <1>9 DEF Complete, Lists

-----------------------------------------------------------------------------
(* The steps.  Most of them leave what was read or written alone. *)

LEMMA StoryStays ==
  ASSUME NEW d \in Devices, Story(d), d \in confirmed => d \in confirmed',
         worker'[d] = worker[d], data'[d] = data[d], out'[d] = out[d], errors'[d] = errors[d],
         file'[d] = file[d], th'[d].op = th[d].op,
         d \notin confirmed' /\ worker[d].pc # "none" => th'[d].working
  PROVE  Story(d)'
<1> SUFFICES ASSUME d \notin confirmed' PROVE Story(d)'
  BY DEF Story
<1>1. Complete(d) => Complete(d)'
  BY DEF Complete, Held, HeldRecords
<1> QED BY <1>1 DEF Story

LEMMA Quiet ==
  ASSUME Stories, UNCHANGED <<worker, data, out, errors, file>>, confirmed \subseteq confirmed',
         \A d \in Devices : th'[d].op = th[d].op,
         \A d \in Devices \ confirmed' : worker[d].pc # "none" => th'[d].working
  PROVE  Stories'
<1>1. Stock'
  BY DEF Stories, Stock
<1>2. ASSUME NEW d \in Devices PROVE Story(d)'
  <2>1. Story(d)
    BY DEF Stories
  <2> QED BY <2>1, StoryStays
<1> QED BY <1>1, <1>2 DEF Stories

(* A worker that runs afterwards works, by the first invariant. *)
LEMMA StillWorks ==
  ASSUME IInv', ~crashed', UNCHANGED worker
  PROVE  \A d \in Devices \ confirmed' : worker[d].pc # "none" => th'[d].working
  BY DEF IInv, Well, Kept, Working

LEMMA DeviceChangeQuiet ==
  ASSUME IInv, IInv', Stories, NEW s \in Devices \cup {None}, OnDeviceChange(s)
  PROVE  Stories'
<1> DEFINE left == IF active = None THEN th ELSE [th EXCEPT ![active] = UnsetActive(@)]
<1>1. ~crashed /\ UNCHANGED <<worker, tail, devices, crashed, history>>
  BY DEF OnDeviceChange
<1>2. \/ th' = left
      \/ \E r \in Connects(left[s]) :
            th' = [left EXCEPT ![s].connected = r.ok, ![s].active = IF r.ok THEN TRUE ELSE @]
  BY Zenon DEF OnDeviceChange
<1>3. DOMAIN th = Devices /\ \A d \in Devices : DOMAIN th[d] = ThreadFields
  BY DEF IInv, Objects, GoodThread
<1>4. \A d \in Devices : DOMAIN UnsetActive(th[d]) = ThreadFields /\ UnsetActive(th[d]).op = th[d].op
  BY <1>3 DEF UnsetActive, Disconnected, ThreadFields
<1>5. DOMAIN left = Devices /\ \A d \in Devices : DOMAIN left[d] = ThreadFields /\ left[d].op = th[d].op
  <2>1. CASE active = None
    BY <1>3, <2>1
  <2>2. CASE active # None
    <3>1. left = [th EXCEPT ![active] = UnsetActive(th[active])]
      BY <2>2
    <3> HIDE DEF left
    <3> QED BY <1>3, <1>4, <3>1
  <2> QED BY <2>1, <2>2
<1> HIDE DEF left
<1>6. \A d \in Devices : th'[d].op = th[d].op
  <2>1. CASE th' = left
    BY <1>5, <2>1
  <2>2. ASSUME NEW r, th' = [left EXCEPT ![s].connected = r.ok,
                                         ![s].active = IF r.ok THEN TRUE ELSE @]
        PROVE  \A d \in Devices : th'[d].op = th[d].op
    BY <1>5, <2>2 DEF ThreadFields
  <2> QED BY <1>2, <2>1, <2>2
<1>7. \A d \in Devices \ confirmed' : worker[d].pc # "none" => th'[d].working
  BY <1>1, StillWorks
<1> QED BY <1>1, <1>6, <1>7, Quiet DEF devices, history

LEMMA ConfigQuiet ==
  ASSUME IInv, IInv', Stories, NEW s \in Devices, OnConfig(s)
  PROVE  Stories'
<1>1. ~crashed /\ UNCHANGED <<worker, tail, devices, crashed, history>>
      /\ \E x : th' = [th EXCEPT ![s].connected = x]
  BY DEF OnConfig
<1>2. DOMAIN th = Devices /\ \A d \in Devices : DOMAIN th[d] = ThreadFields
  BY DEF IInv, Objects, GoodThread
<1>3. \A d \in Devices : th'[d].op = th[d].op
  BY <1>1, <1>2 DEF ThreadFields
<1>4. \A d \in Devices \ confirmed' : worker[d].pc # "none" => th'[d].working
  BY <1>1, StillWorks
<1> QED BY <1>1, <1>3, <1>4, Quiet DEF devices, history

LEMMA DisconnectQuiet ==
  ASSUME IInv, IInv', Stories, NEW s \in Devices, OnDisconnect(s)
  PROVE  Stories'
<1>1. /\ ~crashed /\ UNCHANGED <<worker, devices, crashed, errors, file>>
      /\ confirmed \subseteq confirmed'
      /\ th' = [th EXCEPT ![s] = Disconnected(@)]
  BY DEF OnDisconnect
<1>2. DOMAIN th = Devices /\ \A d \in Devices : DOMAIN th[d] = ThreadFields
  BY DEF IInv, Objects, GoodThread
<1>3. \A d \in Devices : th'[d].op = th[d].op
  BY <1>1, <1>2 DEF ThreadFields, Disconnected
<1>4. \A d \in Devices \ confirmed' : worker[d].pc # "none" => th'[d].working
  BY <1>1, StillWorks
<1> QED BY <1>1, <1>3, <1>4, Quiet DEF devices

LEMMA RestoreThrowsQuiet ==
  ASSUME Stories, NEW s \in Devices, NEW a, RestoreThrows(s, a)
  PROVE  Stories'
<1>1. UNCHANGED <<th, worker, devices, confirmed, errors, file>>
  BY DEF RestoreThrows
<1>2. \A d \in Devices \ confirmed : worker[d].pc # "none" => th[d].working
  BY DEF Stories, Story
<1> QED BY <1>1, <1>2, Quiet DEF devices

(* A scan forgets the operations that are over. *)
LEMMA ScanQuiet ==
  ASSUME IInv, Stories, Scan
  PROVE  Stories'
<1>1. /\ ~crashed /\ confirmed' = confirmed \cup {d \in Devices : th[d].working}
      /\ UNCHANGED <<worker, devices, errors, file>>
  BY DEF Scan
<1>2. \A d \in Devices : th'[d].op = "none"
  <2>1. \A a, m, c \in BOOLEAN :
            NewThread(a, m).op = "none" /\ [NewThread(a, m) EXCEPT !.connected = c].op = "none"
    BY DEF NewThread
  <2>2. PICK a \in BOOLEAN, m \in BOOLEAN, r \in ConnectResults :
        /\ th' = [d \in Devices |->
                    IF d = First THEN [NewThread(a \/ r.ok, m) EXCEPT !.connected = r.ok]
                    ELSE NewThread(a, m)]
        /\ ifc' = [d \in Devices |-> IF d = First THEN [NewInterface EXCEPT !.desktop = r.desktop]
                                     ELSE NewInterface]
    BY DEF Scan
  <2>3. r.ok \in BOOLEAN /\ (a \/ r.ok) \in BOOLEAN
    BY ResultTyped
  <2> QED BY <2>1, <2>2, <2>3
<1>3. Stock'
  BY <1>1 DEF Stories, Stock, devices
<1>4. ASSUME NEW d \in Devices PROVE Story(d)'
  <2> SUFFICES ASSUME d \notin confirmed' PROVE Story(d)'
    BY DEF Story
  <2>1. Story(d) /\ Well(d) /\ Kept(d) /\ ~th[d].working
    BY <1>1 DEF Stories, IInv, Kept
  <2>2. worker[d].pc = "none" /\ Places(data[d])
    BY <2>1 DEF Well, Working, Story, Kept
  <2> QED BY <1>1, <1>2, <2>2 DEF Story, devices
<1> QED BY <1>3, <1>4 DEF Stories

(* A backup starts with nothing, and a restore before the first entry. *)
LEMMA StartsStory ==
  ASSUME IInv, IInv', Stories, NEW s \in Devices, NEW op, NEW total, NEW a, Starts(s, op, total, a),
         op = "BACKUP" \/ (op = "RESTORE" /\ a \in Archives)
  PROVE  Stories'
<1>1. PICK r \in Connects(th[s]) :
        LET t == [th[s] EXCEPT !.connected = r.ok]
            free == r.ok /\ ~t.working
            started == free /\ ifc[s].comm # "valid"
        IN /\ th' = [th EXCEPT ![s] =
                        IF started THEN Begun(t, op, total)
                        ELSE IF free THEN [t EXCEPT !.total = total, !.finished = 0] ELSE t]
           /\ ifc' = [ifc EXCEPT ![s].desktop = r.desktop,
                                 ![s].comm = IF started THEN "valid" ELSE @]
           /\ pipe' = IF started \/ r.ok # th[s].connected THEN Shown(pipe) ELSE pipe
           /\ IF started
              THEN /\ worker' = [worker EXCEPT ![s] =
                        IF op = "BACKUP"
                        THEN [Idle EXCEPT !.pc = "backup", !.builder = NewBuilder(DbList)]
                        ELSE [Idle EXCEPT !.pc = "look"]]
                   /\ out' = [out EXCEPT ![s] = <<>>]
                   /\ errors' = [errors EXCEPT ![s] = {}] /\ file' = [file EXCEPT ![s] = a]
              ELSE UNCHANGED <<worker, out, errors, file>>
  BY Zenon DEF Starts
<1>2. ~crashed /\ UNCHANGED <<data, crashed, confirmed>>
  BY DEF Starts
<1> DEFINE b == [Idle EXCEPT !.pc = "backup", !.builder = NewBuilder(DbList)]
           l == [Idle EXCEPT !.pc = "look"]
<1>3. /\ b.pc = "backup" /\ b.builder = NewBuilder(DbList)
      /\ l.pc = "look" /\ l.rd = New
  BY DEF Idle
<1> HIDE DEF b, l
<1>4. PICK t : t = [th[s] EXCEPT !.connected = r.ok]
  OBVIOUS
<1>5. PICK go : go = (r.ok /\ ~t.working /\ ifc[s].comm # "valid")
  OBVIOUS
<1>6. /\ th' = [th EXCEPT ![s] = th'[s]]
      /\ go => th'[s] = Begun(t, op, total)
      /\ ~go => th'[s] = [t EXCEPT !.total = total, !.finished = 0] \/ th'[s] = t
      /\ go => /\ worker' = [worker EXCEPT ![s] = IF op = "BACKUP" THEN b ELSE l]
               /\ out' = [out EXCEPT ![s] = <<>>]
               /\ errors' = [errors EXCEPT ![s] = {}] /\ file' = [file EXCEPT ![s] = a]
      /\ ~go => UNCHANGED <<worker, out, errors, file>>
  <2>1. DOMAIN th = Devices
    BY DEF IInv, Objects
  <2> QED BY <1>1, <1>4, <1>5, <2>1 DEF b, l
<1>7. /\ DOMAIN th = Devices /\ DOMAIN th[s] = ThreadFields /\ DOMAIN worker = Devices
      /\ DOMAIN out = Devices
  BY DEF IInv, Objects, GoodThread
<1>8. DOMAIN t = ThreadFields /\ t.op = th[s].op
  BY <1>4, <1>7 DEF ThreadFields
<1>9. /\ go => th'[s].op = op
      /\ ~go => th'[s].op = th[s].op
  BY <1>6, <1>8 DEF Begun, ThreadFields
<1>10. \A d \in Devices \ confirmed' : worker'[d].pc # "none" => th'[d].working
  BY <1>2 DEF IInv, Well, Kept, Working
<1>11. Stock
  BY DEF Stories
<1>12. Stock'
  BY <1>2, <1>6, <1>11, Zenon DEF Stock
<1>13. ASSUME NEW d \in Devices, d # s \/ ~go PROVE Story(d)'
  <2>1. Story(d)
    BY DEF Stories
  <2>2. /\ worker'[d] = worker[d] /\ out'[d] = out[d] /\ errors'[d] = errors[d]
        /\ file'[d] = file[d] /\ th'[d].op = th[d].op /\ data'[d] = data[d]
    BY <1>2, <1>6, <1>7, <1>9, <1>11, <1>13 DEF Stock
  <2>3. d \notin confirmed' /\ worker[d].pc # "none" => th'[d].working
    BY <1>10, <2>2
  <2> QED BY <1>2, <2>1, <2>2, <2>3, StoryStays
<1>14. CASE go
  <2> SUFFICES ASSUME s \notin confirmed' PROVE Story(s)'
    BY <1>12, <1>13, <1>14 DEF Stories, Story
  <2>1. Places(data[s])'
    BY <1>2 DEF Stories, Story
  <2>2. /\ worker'[s] = IF op = "BACKUP" THEN b ELSE l
        /\ out'[s] = <<>> /\ file'[s] = a /\ th'[s].op = op
    BY <1>6, <1>7, <1>9, <1>11, <1>14 DEF Stock
  <2>3. worker'[s].pc # "none" => th'[s].working
    BY <1>10
  <2>4. CASE op = "BACKUP"
    <3>1. worker'[s].pc = "backup" /\ worker'[s].builder = NewBuilder(DbList)
      BY <1>3, <2>2, <2>4
    <3>2. Lists(<<>>, {})
      BY DEF Lists
    <3>3. /\ GoodBuilder(data'[s], worker'[s].builder)
          /\ Lists(out'[s], Passed(data'[s], worker'[s].builder))
      BY <2>2, <3>1, <3>2, BuilderStarts
    <3> QED BY <2>1, <2>2, <2>3, <2>4, <3>1, <3>3 DEF Story
  <2>5. CASE op = "RESTORE" /\ a \in Archives
    <3>1. worker'[s].pc = "look" /\ worker'[s].rd = New
      BY <1>3, <2>2, <2>5
    <3>2. Looking(file'[s], worker'[s].rd, data'[s], errors'[s])
      BY <2>2, <2>5, <3>1, LookStarts
    <3> QED BY <2>1, <2>2, <2>3, <2>5, <3>1, <3>2 DEF Story
  <2> QED BY <2>4, <2>5
<1> QED BY <1>5, <1>12, <1>13, <1>14 DEF Stories

(* The signal handlers. *)
LEMMA SignalsQuiet ==
  ASSUME IInv, IInv', Stories, SignalStep
  PROVE  Stories'
<1>0. DOMAIN th = Devices /\ \A d \in Devices : DOMAIN th[d] = ThreadFields
  BY DEF IInv, Objects, GoodThread
<1>1. CASE OnThreadProgress
  <2>1. /\ ~crashed /\ UNCHANGED <<worker, tail, devices, crashed, history>>
        /\ th' = [th EXCEPT ![Sender].finished = @ + 1]
    BY <1>1 DEF OnThreadProgress, Takes
  <2>2. \A d \in Devices : th'[d].op = th[d].op
    <3> HIDE DEF Sender
    <3> QED BY <1>0, <2>1 DEF ThreadFields
  <2>3. \A d \in Devices \ confirmed' : worker[d].pc # "none" => th'[d].working
    BY <2>1, StillWorks
  <2> QED BY <2>1, <2>2, <2>3, Quiet DEF devices, history
<1>2. CASE OnThreadError
  <2>1. ~crashed /\ UNCHANGED <<th, worker, tail, devices, crashed, history>>
    BY <1>2 DEF OnThreadError, Takes
  <2>2. \A d \in Devices \ confirmed' : worker[d].pc # "none" => th'[d].working
    BY <2>1, StillWorks
  <2> QED BY <2>1, <2>2, Quiet DEF devices, history
<1>3. CASE OnThreadDone
  <2> DEFINE t == [th[Sender] EXCEPT !.working = FALSE, !.marker = TRUE]
  <2>1. /\ ~crashed /\ UNCHANGED <<worker, tail, devices, crashed, history>>
        /\ \/ th' = [th EXCEPT ![Sender] = t]
           \/ th' = [th EXCEPT ![Sender] = Disconnected(t)]
    BY <1>3 DEF OnThreadDone, Takes
  <2>2. \A d \in Devices : th'[d].op = th[d].op
    <3>1. CASE Sender \in Devices
      <4>1. t.op = th[Sender].op /\ Disconnected(t).op = th[Sender].op
        BY <1>0, <3>1 DEF ThreadFields, Disconnected
      <4> HIDE DEF t, Sender
      <4> QED BY <1>0, <2>1, <4>1
    <3>2. CASE Sender \notin Devices
      <4> HIDE DEF t, Sender
      <4> QED BY <1>0, <2>1, <3>2
    <3> QED BY <3>1, <3>2
  <2>3. \A d \in Devices \ confirmed' : worker[d].pc # "none" => th'[d].working
    BY <2>1, StillWorks
  <2> QED BY <2>1, <2>2, <2>3, Quiet DEF devices, history
<1>4. CASE TreeviewUpdate
  <2>1. /\ ~crashed /\ UNCHANGED <<worker, tail, devices, history>>
        /\ th' = [d \in Devices |-> [th[d] EXCEPT !.marker = FALSE]]
    BY <1>4 DEF TreeviewUpdate, Takes
  <2>2. \A d \in Devices : th'[d].op = th[d].op /\ th'[d].working = th[d].working
    BY <1>0, <2>1 DEF ThreadFields
  <2>3. \A d \in Devices \ confirmed : worker[d].pc # "none" => th[d].working
    BY DEF Stories, Story
  <2>4. \A d \in Devices \ confirmed' : worker[d].pc # "none" => th'[d].working
    BY <2>1, <2>2, <2>3 DEF history
  <2> QED BY <2>1, <2>2, <2>4, Quiet DEF devices, history
<1> QED BY <1>1, <1>2, <1>3, <1>4 DEF SignalStep

LEMMA InvalidateQuiet ==
  ASSUME Stories, NEW s \in Devices, Invalidate(s)
  PROVE  Stories'
<1>1. UNCHANGED <<th, worker, devices, history>>
  BY DEF Invalidate
<1>2. \A d \in Devices \ confirmed : worker[d].pc # "none" => th[d].working
  BY DEF Stories, Story
<1> QED BY <1>1, <1>2, Quiet DEF devices, history

-----------------------------------------------------------------------------
(* The worker of s changes only what is its own. *)
Alone(s) ==
    /\ UNCHANGED <<th, confirmed, file>> /\ Stock'
    /\ \A d \in Devices \ {s} : /\ worker'[d] = worker[d] /\ data'[d] = data[d]
                                /\ out'[d] = out[d] /\ errors'[d] = errors[d]

LEMMA OneStory ==
  ASSUME Stories, NEW s \in Devices, Alone(s), s \notin confirmed => Story(s)'
  PROVE  Stories'
<1>1. Story(s)'
  BY DEF Story, Alone
<1>2. ASSUME NEW d \in Devices \ {s} PROVE Story(d)'
  <2>1. Story(d)
    BY DEF Stories
  <2>2. /\ worker'[d] = worker[d] /\ data'[d] = data[d] /\ out'[d] = out[d]
        /\ errors'[d] = errors[d] /\ file'[d] = file[d] /\ th'[d].op = th[d].op
        /\ (d \in confirmed => d \in confirmed')
    BY DEF Alone
  <2>3. d \notin confirmed' /\ worker[d].pc # "none" => th'[d].working
    BY <2>1 DEF Story, Alone
  <2> QED BY <2>1, <2>2, <2>3, StoryStays
<1> QED BY <1>1, <1>2 DEF Stories, Alone

(* A worker that used an object that is gone did nothing else. *)
LEMMA CrashQuiet ==
  ASSUME Stories, UNCHANGED <<worker, data, out, errors, file, th, confirmed>>
  PROVE  Stories'
<1>1. \A d \in Devices \ confirmed : worker[d].pc # "none" => th[d].working
  BY DEF Stories, Story
<1> QED BY <1>1, Quiet

(* A worker that ends, with or without an error of the whole operation. *)
LEMMA EndStory ==
  ASSUME Objects, Stories, NEW s \in Devices, NEW failed \in BOOLEAN, Ends(s, failed),
         UNCHANGED <<th, confirmed, file, data, out>>,
         th[s].op = "BACKUP" /\ s \notin confirmed /\ ~failed => Complete(s),
         th[s].op = "RESTORE" /\ s \notin confirmed /\ ~failed =>
             AllRestored(file[s], data[s], errors[s])
  PROVE  Stories'
<1>1. /\ worker' = [worker EXCEPT ![s] = Idle]
      /\ errors' = IF failed THEN [errors EXCEPT ![s] = @ \cup {None}] ELSE errors
  BY DEF Ends
<1>2. Stock /\ DOMAIN worker = Devices
  BY DEF Stories, Objects
<1>3. /\ worker'[s] = Idle /\ \A d \in Devices \ {s} : worker'[d] = worker[d]
      /\ failed => None \in errors'[s]
      /\ ~failed => errors'[s] = errors[s]
      /\ DOMAIN errors' = Devices /\ \A d \in Devices \ {s} : errors'[d] = errors[d]
  BY <1>1, <1>2 DEF Stock
<1>4. Alone(s)
  BY <1>2, <1>3 DEF Alone, Stock
<1>5. worker'[s].pc = "none"
  BY <1>3 DEF Idle
<1>6. ASSUME s \notin confirmed PROVE Story(s)'
  <2>1. Places(data[s])
    BY <1>6 DEF Stories, Story
  <2>2. Complete(s) => Complete(s)'
    BY DEF Complete, Held, HeldRecords
  <2>3. th'[s].op = "BACKUP" /\ errors'[s] = {} => Complete(s)'
    BY <1>3, <1>6, <2>2
  <2>4. th'[s].op = "RESTORE" /\ None \notin errors'[s] =>
            AllRestored(file'[s], data'[s], errors'[s])
    BY <1>3, <1>6
  <2> QED BY <1>5, <2>1, <2>3, <2>4 DEF Story
<1> QED BY <1>4, <1>6, OneStory

LEMMA BackupStory ==
  ASSUME IInv, Stories, NEW s \in Devices, BackupThread(s)
  PROVE  Stories'
<1> DEFINE b == worker[s].builder
<1>0. Objects /\ Story(s) /\ Stock
  BY DEF IInv, Stories
<1>1. /\ worker[s].pc = "backup" /\ UNCHANGED <<th, confirmed, file, data>>
  BY DEF BackupThread, At, WorkerKeeps
<1>2. \/ UNCHANGED <<worker, out, errors>>
      \/ Upcoming(b) > Len(DbList) /\ Ends(s, FALSE) /\ UNCHANGED out
      \/ Ends(s, TRUE) /\ UNCHANGED out
      \/ /\ ~(Upcoming(b) > Len(DbList)) /\ DbList[Upcoming(b)] \in DOMAIN data[s]
         /\ \E n \in {FetchFromDevice(data[s], b)} :
               /\ worker' = [worker EXCEPT ![s].builder = n]
               /\ n.at = 0 => UNCHANGED out
               /\ n.at # 0 => out' = [out EXCEPT ![s] = Append(@, <<DbList[n.cur], n.at>>)]
               /\ UNCHANGED errors
  <2>1. CASE ~ifc[s].desktop
    BY <2>1 DEF BackupThread
  <2>2. CASE ifc[s].desktop /\ Upcoming(b) > Len(DbList)
    BY <2>2 DEF BackupThread
  <2>3. CASE ifc[s].desktop /\ ~(Upcoming(b) > Len(DbList)) /\ DbList[Upcoming(b)] \notin DOMAIN data[s]
    BY <2>3 DEF BackupThread
  <2>4. CASE ifc[s].desktop /\ ~(Upcoming(b) > Len(DbList)) /\ DbList[Upcoming(b)] \in DOMAIN data[s]
    BY <2>4, Zenon DEF BackupThread, ParseRead
  <2> QED BY <2>1, <2>2, <2>3, <2>4
<1>3. s \notin confirmed =>
          /\ th[s].op = "BACKUP" /\ Places(data[s]) /\ GoodBuilder(data[s], b)
          /\ Lists(out[s], Passed(data[s], b)) /\ th[s].working
  BY <1>0, <1>1 DEF Story
<1>4. Len(out[s]) \in Nat /\ List(out[s], Len(out[s])) /\ DOMAIN out = Devices
      /\ DOMAIN worker = Devices /\ DOMAIN worker[s] = WorkerFields
  BY <1>0 DEF Objects
<1> HIDE DEF b
<1>5. CASE UNCHANGED <<worker, out, errors>>
  BY <1>1, <1>5, CrashQuiet
<1>6. CASE Upcoming(b) > Len(DbList) /\ Ends(s, FALSE) /\ UNCHANGED out
  <2>1. s \notin confirmed => Complete(s)
    <3> SUFFICES ASSUME s \notin confirmed PROVE Complete(s)
      OBVIOUS
    <3>1. Passed(data[s], b) = Have(data[s])
      BY <1>3, <1>6, BuilderDone
    <3> QED BY <1>3, <1>4, <3>1, CompleteWhen
  <2>2. s \notin confirmed => th[s].op # "RESTORE"
    BY <1>3
  <2> QED BY <1>0, <1>1, <1>6, <2>1, <2>2, EndStory
<1>7. CASE Ends(s, TRUE) /\ UNCHANGED out
  BY <1>0, <1>1, <1>7, EndStory
<1>8. ASSUME ~(Upcoming(b) > Len(DbList)), DbList[Upcoming(b)] \in DOMAIN data[s],
             NEW n, n = FetchFromDevice(data[s], b), worker' = [worker EXCEPT ![s].builder = n],
             n.at = 0 => UNCHANGED out,
             n.at # 0 => out' = [out EXCEPT ![s] = Append(@, <<DbList[n.cur], n.at>>)],
             UNCHANGED errors
      PROVE  Stories'
  <2>1. /\ worker'[s].pc = "backup" /\ worker'[s].builder = n
        /\ \A d \in Devices \ {s} : worker'[d] = worker[d]
    BY <1>1, <1>4, <1>8 DEF WorkerFields
  <2>2. PICK e : e = <<DbList[n.cur], n.at>>
    OBVIOUS
  <2>3. /\ n.at = 0 => out'[s] = out[s]
        /\ n.at # 0 => out'[s] = Append(out[s], e)
        /\ \A d \in Devices \ {s} : out'[d] = out[d]
    BY <1>4, <1>8, <2>2
  <2>4. Alone(s)
    BY <1>0, <1>1, <1>8, <2>1, <2>3 DEF Alone, Stock
  <2>5. ASSUME s \notin confirmed PROVE Story(s)'
    <3>1. Upcoming(b) <= Len(DbList)
      BY <1>3, <1>8, <2>5, BehindIs, DatabasesAssumption
    <3>2. /\ GoodBuilder(data[s], n)
          /\ n.at = 0 => Passed(data[s], n) = Passed(data[s], b)
          /\ n.at # 0 => e \notin Passed(data[s], b) /\ Passed(data[s], n) = Passed(data[s], b) \cup {e}
      BY <1>3, <1>8, <2>2, <2>5, <3>1, FetchDoes
    <3>3. Lists(out'[s], Passed(data[s], n))
      <4>1. PICK S, o, m : S = Passed(data[s], b) /\ o = out[s] /\ m = Len(o)
        OBVIOUS
      <4>2. m \in Nat /\ List(o, m) /\ Len(o) = m /\ Lists(o, S)
        BY <1>3, <1>4, <2>5, <4>1
      <4>3. CASE n.at = 0
        BY <2>3, <3>2, <4>1, <4>2, <4>3
      <4>4. CASE n.at # 0
        <5>1. e \notin S /\ Passed(data[s], n) = S \cup {e} /\ out'[s] = Append(o, e)
          BY <2>3, <3>2, <4>1, <4>4
        <5>2. Lists(Append(o, e), S \cup {e})
          BY <4>2, <5>1, ListsMore
        <5> QED BY <5>1, <5>2
      <4> QED BY <4>3, <4>4
    <3> QED BY <1>1, <1>3, <2>1, <2>5, <3>2, <3>3 DEF Story
  <2> QED BY <2>4, <2>5, OneStory
<1> QED BY <1>2, <1>5, <1>6, <1>7, <1>8

LEMMA BackupFailsStory ==
  ASSUME IInv, Stories, NEW s \in Devices, BackupFails(s)
  PROVE  Stories'
<1>1. Ends(s, TRUE) /\ UNCHANGED <<th, confirmed, file, data, out>>
  BY DEF BackupFails, WorkerKeeps
<1>2. Objects
  BY DEF IInv
<1> QED BY <1>1, <1>2, EndStory

(* A restore has a database of the file at hand, skips the rest of one, or is at
   the end. *)
LEMMA RestoringStory ==
  ASSUME NEW s \in Devices, Story(s), s \notin confirmed, worker[s].pc \in {"look", "clear", "save"}
  PROVE  /\ th[s].op = "RESTORE" /\ file[s] \in Archives /\ Places(data[s]) /\ th[s].working
         /\ worker[s].pc # "save" => Looking(file[s], worker[s].rd, data[s], errors[s])
         /\ worker[s].pc = "clear" => worker[s].rd.state = "NEXT" /\ worker[s].db = worker[s].rd.db
         /\ worker[s].pc = "save" =>
                Saving(file[s], worker[s].rd, worker[s].db, data[s], errors[s])
  BY DEF Story

(* What the worker of s has to show afterwards, if it goes on. *)
LEMMA GoesOnStory ==
  ASSUME NEW s \in Devices, Alone(s), NEW r, NEW n, NEW pc \in {"look", "clear", "save"},
         worker'[s].pc = pc, worker'[s].rd = r, worker'[s].db = n,
         th[s].op = "RESTORE", th[s].working, file[s] \in Archives, Places(data'[s]),
         pc # "save" => Looking(file[s], r, data'[s], errors'[s]),
         pc = "clear" => r.state = "NEXT" /\ n = r.db,
         pc = "save" => Saving(file[s], r, n, data'[s], errors'[s])
  PROVE  Story(s)'
  BY DEF Story, Alone

LEMMA RestoreLookStory ==
  ASSUME IInv, Stories, NEW s \in Devices, RestoreLook(s)
  PROVE  Stories'
<1>0. Objects /\ Story(s) /\ Stock
  BY DEF IInv, Stories
<1>1. PICK a, r, dev, bad : a = file[s] /\ r = worker[s].rd /\ dev = data[s] /\ bad = errors[s]
  OBVIOUS
<1>2. worker[s].pc = "look" /\ UNCHANGED <<th, confirmed, file, data, out>>
  BY DEF RestoreLook, At, WorkerKeeps
<1>3. \/ EndOfFile(r) /\ Ends(s, FALSE)
      \/ Ends(s, TRUE)
      \/ \E q \in {GetNextMeta(a, RestoreFilter, r)} :
            /\ ~Throws(r, q)
            /\ worker' = [worker EXCEPT ![s].rd = q, ![s].db = q.db,
                                        ![s].pc = IF HasMeta(q) THEN "clear" ELSE "look"]
            /\ UNCHANGED errors
  BY <1>1, Zenon DEF RestoreLook
<1>4. s \notin confirmed =>
         /\ th[s].op = "RESTORE" /\ a \in Archives /\ Places(dev) /\ th[s].working
         /\ Looking(a, r, dev, bad)
  BY <1>0, <1>1, <1>2, RestoringStory
<1>5. CASE EndOfFile(r) /\ Ends(s, FALSE)
  <2>1. s \notin confirmed => AllRestored(a, dev, bad)
    BY <1>4, <1>5, LookEnds DEF EndOfFile
  <2>2. s \notin confirmed => th[s].op # "BACKUP"
    BY <1>4
  <2> QED BY <1>0, <1>1, <1>2, <1>5, <2>1, <2>2, EndStory
<1>6. CASE Ends(s, TRUE)
  BY <1>0, <1>2, <1>6, EndStory
<1>7. ASSUME NEW q, q = GetNextMeta(a, RestoreFilter, r), ~Throws(r, q),
             worker' = [worker EXCEPT ![s].rd = q, ![s].db = q.db,
                                      ![s].pc = IF HasMeta(q) THEN "clear" ELSE "look"],
             UNCHANGED errors
      PROVE  Stories'
  <2>1. PICK pc : pc = IF HasMeta(q) THEN "clear" ELSE "look"
    OBVIOUS
  <2>2. PICK n : n = q.db
    OBVIOUS
  <2>3. worker' = [worker EXCEPT ![s].rd = q, ![s].db = n, ![s].pc = pc]
    BY <1>7, <2>1, <2>2
  <2>4. /\ worker'[s].pc = pc /\ worker'[s].rd = q /\ worker'[s].db = n
        /\ \A d \in Devices \ {s} : worker'[d] = worker[d]
    BY <1>0, <2>3 DEF Objects, WorkerFields
  <2>5. Alone(s)
    BY <1>0, <1>2, <1>7, <2>4 DEF Alone, Stock
  <2>6. ASSUME s \notin confirmed PROVE Story(s)'
    <3>1. Looking(a, q, dev, bad)
      BY <1>4, <1>7, <2>6, LookGoesOn
    <3>2. pc \in {"look", "clear"} /\ (pc = "clear" => q.state = "NEXT")
      BY <2>1 DEF HasMeta
    <3> QED BY <1>1, <1>2, <1>4, <1>7, <2>2, <2>4, <2>5, <2>6, <3>1, <3>2, GoesOnStory
  <2> QED BY <2>5, <2>6, OneStory
<1> QED BY <1>3, <1>5, <1>6, <1>7

LEMMA PlacesAfter ==
  ASSUME NEW dev, Places(dev), NEW new, NEW n, NEW m \in Nat,
         DOMAIN new = DOMAIN dev, \A x \in DOMAIN dev : x # n => new[x] = dev[x],
         DOMAIN new[n] = 1..m
  PROVE  Places(new)
<1>1. 1..m \subseteq Nat \ {0}
  OBVIOUS
<1> QED BY <1>1 DEF Places

LEMMA RestoreClearStory ==
  ASSUME IInv, Stories, NEW s \in Devices, NEW refuse \in BOOLEAN, RestoreClear(s, refuse)
  PROVE  Stories'
<1>0. Objects /\ Story(s) /\ Stock
  BY DEF IInv, Stories
<1>1. PICK a, r, dev, bad, n : /\ a = file[s] /\ r = worker[s].rd /\ dev = data[s]
                               /\ bad = errors[s] /\ n = worker[s].db
  OBVIOUS
<1>2. worker[s].pc = "clear" /\ UNCHANGED <<th, confirmed, file, out>>
  BY DEF RestoreClear, At, WorkerKeeps
<1>3. \/ UNCHANGED <<worker, data, errors>>
      \/ SkipsDB(s, r) /\ UNCHANGED data
      \/ /\ n \in DOMAIN dev
         /\ data' = [data EXCEPT ![s][n] = ClearDatabase(@)]
         /\ worker' = [worker EXCEPT ![s].pc = "save"]
         /\ UNCHANGED errors
  BY <1>1, Zenon DEF RestoreClear
<1>4. s \notin confirmed =>
         /\ th[s].op = "RESTORE" /\ a \in Archives /\ Places(dev) /\ th[s].working
         /\ Looking(a, r, dev, bad) /\ r.state = "NEXT" /\ n = r.db
  BY <1>0, <1>1, <1>2, RestoringStory
<1>5. DOMAIN worker = Devices /\ DOMAIN worker[s] = WorkerFields
  BY <1>0 DEF Objects
<1>6. CASE UNCHANGED <<worker, data, errors>>
  BY <1>2, <1>6, CrashQuiet
<1>7. CASE SkipsDB(s, r) /\ UNCHANGED data
  <2>1. PICK q : q = SkipCurrentDB(a, RestoreFilter, r)
    OBVIOUS
  <2>2. /\ errors' = [errors EXCEPT ![s] = @ \cup {n}]
        /\ worker' = [worker EXCEPT ![s].pc = "look", ![s].rd = q]
    BY <1>1, <1>7, <2>1 DEF SkipsDB
  <2>3. /\ worker'[s].pc = "look" /\ worker'[s].rd = q /\ worker'[s].db = n
        /\ \A d \in Devices \ {s} : worker'[d] = worker[d]
    BY <1>1, <1>5, <2>2 DEF WorkerFields
  <2>4. /\ errors'[s] = bad \cup {n} /\ \A d \in Devices \ {s} : errors'[d] = errors[d]
        /\ DOMAIN errors' = Devices
    BY <1>0, <1>1, <2>2 DEF Stock
  <2>5. Alone(s)
    BY <1>0, <1>2, <1>7, <2>3, <2>4 DEF Alone, Stock
  <2>6. ASSUME s \notin confirmed PROVE Story(s)'
    <3>1. Inside(a, r, n)
      BY <1>4, <2>6, LookInside
    <3>2. Level(a, r, dev, bad, {n})
      BY <1>4, <2>6, LevelOne DEF Looking
    <3>3. Looking(a, q, dev, bad \cup {n})
      BY <1>4, <2>1, <2>6, <3>1, <3>2, SkipLooks
    <3> QED BY <1>1, <1>2, <1>4, <1>7, <2>3, <2>4, <2>5, <2>6, <3>3, GoesOnStory
  <2> QED BY <2>5, <2>6, OneStory
<1>8. CASE /\ n \in DOMAIN dev
           /\ data' = [data EXCEPT ![s][n] = ClearDatabase(@)]
           /\ worker' = [worker EXCEPT ![s].pc = "save"]
           /\ UNCHANGED errors
  <2>1. PICK new : new = [dev EXCEPT ![n] = ClearDatabase(@)]
    OBVIOUS
  <2>2. /\ data'[s] = new /\ \A d \in Devices \ {s} : data'[d] = data[d]
        /\ DOMAIN data' = Devices
    BY <1>0, <1>1, <1>8, <2>1 DEF Stock
  <2>3. /\ worker'[s].pc = "save" /\ worker'[s].rd = r /\ worker'[s].db = n
        /\ \A d \in Devices \ {s} : worker'[d] = worker[d]
    BY <1>1, <1>5, <1>8 DEF WorkerFields
  <2>4. Alone(s)
    BY <1>0, <1>2, <1>8, <2>2, <2>3 DEF Alone, Stock
  <2>5. ASSUME s \notin confirmed PROVE Story(s)'
    <3>1. Saving(a, r, n, new, bad)
      BY <1>4, <1>8, <2>1, <2>5, ClearSaves
    <3>2. PICK t : t = ClearDatabase(dev[n])
      OBVIOUS
    <3>3. DOMAIN new = DOMAIN dev /\ new[n] = t /\ \A x \in DOMAIN dev : x # n => new[x] = dev[x]
      BY <1>8, <2>1, <3>2
    <3>4. DOMAIN new[n] = 1..0 /\ 0 \in Nat
      BY <3>2, <3>3, ClearDatabaseClears
    <3>5. Places(new)
      BY <1>4, <2>5, <3>3, <3>4, PlacesAfter
    <3> QED BY <1>1, <1>2, <1>4, <1>8, <2>2, <2>3, <2>4, <2>5, <3>1, <3>5, GoesOnStory
  <2> QED BY <2>4, <2>5, OneStory
<1> QED BY <1>3, <1>6, <1>7, <1>8

LEMMA RestoreSaveStory ==
  ASSUME IInv, Stories, NEW s \in Devices, NEW refuse \in BOOLEAN, RestoreSave(s, refuse)
  PROVE  Stories'
<1>0. Objects /\ Story(s) /\ Stock
  BY DEF IInv, Stories
<1>1. PICK a, r, dev, bad, n : /\ a = file[s] /\ r = worker[s].rd /\ dev = data[s]
                               /\ bad = errors[s] /\ n = worker[s].db
  OBVIOUS
<1>2. worker[s].pc = "save" /\ UNCHANGED <<th, confirmed, file, out>>
  BY DEF RestoreSave, At, WorkerKeeps
<1>3. PICK f : f = BuildRecord(a, RestoreFilter, r)
  OBVIOUS
<1>4. \/ UNCHANGED <<worker, data, errors>>
      \/ /\ f.ret = "true"
         /\ data' = [data EXCEPT ![s][n] = AddRecord(@, f.rec.id, f.rec.data)]
         /\ worker' = [worker EXCEPT ![s].rd = f.obj] /\ UNCHANGED errors
      \/ /\ f.ret = "true" /\ errors' = [errors EXCEPT ![s] = @ \cup {n}]
         /\ worker' = [worker EXCEPT ![s].pc = "look",
                            ![s].rd = SkipCurrentDB(a, RestoreFilter, f.obj)]
         /\ UNCHANGED data
      \/ /\ f.ret = "false"
         /\ worker' = [worker EXCEPT ![s].pc = "look", ![s].rd = f.obj]
         /\ UNCHANGED <<data, errors>>
      \/ Ends(s, TRUE) /\ UNCHANGED data
  BY <1>1, <1>3, Zenon DEF RestoreSave
<1>5. s \notin confirmed =>
         /\ th[s].op = "RESTORE" /\ a \in Archives /\ Places(dev) /\ th[s].working
         /\ Saving(a, r, n, dev, bad)
  BY <1>0, <1>1, <1>2, RestoringStory
<1>6. DOMAIN worker = Devices /\ DOMAIN worker[s] = WorkerFields
  BY <1>0 DEF Objects
<1>7. CASE UNCHANGED <<worker, data, errors>>
  BY <1>2, <1>7, CrashQuiet
<1>8. CASE Ends(s, TRUE) /\ UNCHANGED data
  BY <1>0, <1>2, <1>8, EndStory
<1>9. CASE /\ f.ret = "true"
           /\ data' = [data EXCEPT ![s][n] = AddRecord(@, f.rec.id, f.rec.data)]
           /\ worker' = [worker EXCEPT ![s].rd = f.obj] /\ UNCHANGED errors
  <2>1. PICK id, i, o : id = f.rec.id /\ i = f.rec.data /\ o = f.obj
    OBVIOUS
  <2>2. PICK new : new = [dev EXCEPT ![n] = AddRecord(@, id, i)]
    OBVIOUS
  <2>3. /\ data'[s] = new /\ \A d \in Devices \ {s} : data'[d] = data[d]
        /\ DOMAIN data' = Devices
    BY <1>0, <1>1, <1>9, <2>1, <2>2 DEF Stock
  <2>4. /\ worker'[s].pc = "save" /\ worker'[s].rd = o /\ worker'[s].db = n
        /\ \A d \in Devices \ {s} : worker'[d] = worker[d]
    BY <1>1, <1>2, <1>6, <1>9, <2>1 DEF WorkerFields
  <2>5. Alone(s)
    BY <1>0, <1>2, <1>9, <2>3, <2>4 DEF Alone, Stock
  <2>6. ASSUME s \notin confirmed PROVE Story(s)'
    <3>1. new = [dev EXCEPT ![n] = AddRecord(@, id, f.rec.data)]
      BY <2>1, <2>2
    <3>2. Saving(a, o, n, new, bad)
      BY <1>3, <1>5, <1>9, <2>1, <2>6, <3>1, SaveAdds
    <3>3. PICK m \in Nat : DOMAIN dev[n] = 1..m
      BY <1>5, <2>6 DEF Saving
    <3>4. n \in DOMAIN dev
      BY <1>5, <2>6 DEF Saving
    <3>5. DOMAIN new = DOMAIN dev /\ new[n] = AddRecord(dev[n], id, i)
          /\ \A x \in DOMAIN dev : x # n => new[x] = dev[x]
      BY <2>2, <3>4
    <3>6. DOMAIN new[n] = 1..(m + 1) /\ m + 1 \in Nat
      BY <3>3, <3>5, AddRecordAdds
    <3>7. Places(new)
      BY <1>5, <2>6, <3>5, <3>6, PlacesAfter
    <3> QED BY <1>1, <1>2, <1>5, <1>9, <2>3, <2>4, <2>5, <2>6, <3>2, <3>7, GoesOnStory
  <2> QED BY <2>5, <2>6, OneStory
<1>10. CASE /\ f.ret = "true" /\ errors' = [errors EXCEPT ![s] = @ \cup {n}]
            /\ worker' = [worker EXCEPT ![s].pc = "look",
                               ![s].rd = SkipCurrentDB(a, RestoreFilter, f.obj)]
            /\ UNCHANGED data
  <2>1. PICK q : q = SkipCurrentDB(a, RestoreFilter, f.obj)
    OBVIOUS
  <2>2. worker' = [worker EXCEPT ![s].pc = "look", ![s].rd = q]
    BY <1>10, <2>1
  <2>3. /\ worker'[s].pc = "look" /\ worker'[s].rd = q /\ worker'[s].db = n
        /\ \A d \in Devices \ {s} : worker'[d] = worker[d]
    BY <1>1, <1>6, <2>2 DEF WorkerFields
  <2>4. /\ errors'[s] = bad \cup {n} /\ \A d \in Devices \ {s} : errors'[d] = errors[d]
        /\ DOMAIN errors' = Devices
    BY <1>0, <1>1, <1>10 DEF Stock
  <2>5. Alone(s)
    BY <1>0, <1>2, <1>10, <2>3, <2>4 DEF Alone, Stock
  <2>6. ASSUME s \notin confirmed PROVE Story(s)'
    <3>1. Looking(a, q, dev, bad \cup {n})
      BY <1>3, <1>5, <1>10, <2>1, <2>6, SaveSkips
    <3> QED BY <1>1, <1>2, <1>5, <1>10, <2>3, <2>4, <2>5, <2>6, <3>1, GoesOnStory
  <2> QED BY <2>5, <2>6, OneStory
<1>11. CASE /\ f.ret = "false"
            /\ worker' = [worker EXCEPT ![s].pc = "look", ![s].rd = f.obj]
            /\ UNCHANGED <<data, errors>>
  <2>1. PICK q : q = f.obj
    OBVIOUS
  <2>2. /\ worker'[s].pc = "look" /\ worker'[s].rd = q /\ worker'[s].db = n
        /\ \A d \in Devices \ {s} : worker'[d] = worker[d]
    BY <1>1, <1>6, <1>11, <2>1 DEF WorkerFields
  <2>3. Alone(s)
    BY <1>0, <1>2, <1>11, <2>2 DEF Alone, Stock
  <2>4. ASSUME s \notin confirmed PROVE Story(s)'
    <3>1. Looking(a, q, dev, bad)
      BY <1>3, <1>5, <1>11, <2>1, <2>4, SaveEnds
    <3> QED BY <1>1, <1>2, <1>5, <1>11, <2>2, <2>3, <2>4, <3>1, GoesOnStory
  <2> QED BY <2>3, <2>4, OneStory
<1> QED BY <1>4, <1>7, <1>8, <1>9, <1>10, <1>11

-----------------------------------------------------------------------------
LEMMA InitStories == Init => Stories
<1> SUFFICES ASSUME Init PROVE Stories
  OBVIOUS
<1>1. /\ th = [d \in Devices |-> NewThread(FALSE, FALSE)] /\ worker = [d \in Devices |-> Idle]
      /\ data \in [Devices -> Contents] /\ errors = [d \in Devices |-> {}]
      /\ file = [d \in Devices |-> <<>>]
  BY DEF Init
<1>2. NewThread(FALSE, FALSE).op = "none" /\ Idle.pc = "none"
  BY DEF NewThread, Idle
<1>3. \A c \in Contents : Places(c)
  BY DatabasesAssumption DEF Places
<1>4. Stock
  BY <1>1 DEF Stock
<1>5. ASSUME NEW d \in Devices PROVE Story(d)
  <2>1. worker[d].pc = "none" /\ th[d].op = "none" /\ Places(data[d])
    BY <1>1, <1>2, <1>3
  <2> QED BY <2>1 DEF Story
<1> QED BY <1>4, <1>5 DEF Stories

LEMMA StepStories == IInv /\ Stories /\ [Next]_vars => Stories'
<1> SUFFICES ASSUME IInv, Stories, [Next]_vars PROVE Stories'
  OBVIOUS
<1>0. IInv'
  BY StepIInv
<1>1. ASSUME NEW s \in Devices \cup {None}, OnDeviceChange(s) PROVE Stories'
  BY <1>0, <1>1, DeviceChangeQuiet
<1>2. ASSUME NEW d \in Devices, OnDisconnect(d) PROVE Stories'
  BY <1>0, <1>2, DisconnectQuiet
<1>3. ASSUME NEW d \in Devices, OnConfig(d) PROVE Stories'
  BY <1>0, <1>3, ConfigQuiet
<1>4. ASSUME NEW d \in Devices, NEW c \in Claims, OnBackup(d, c) PROVE Stories'
  BY <1>0, <1>4, StartsStory DEF OnBackup
<1>5. ASSUME NEW d \in Devices, NEW a \in Archives, NEW b \in Archives, OnRestore(d, a, b)
      PROVE  Stories'
  BY <1>0, <1>5, StartsStory DEF OnRestore
<1>10. ASSUME NEW d \in Devices, NEW a \in Archives, RestoreThrows(d, a) PROVE Stories'
  BY <1>10, RestoreThrowsQuiet
<1>6. CASE Scan
  BY <1>6, ScanQuiet
<1>7. CASE SignalStep
  BY <1>0, <1>7, SignalsQuiet
<1>8. ASSUME NEW d \in Devices, WorkerStep(d) PROVE Stories'
  <2>1. CASE BackupThread(d)
    BY <2>1, BackupStory
  <2>2. CASE BackupFails(d)
    BY <2>2, BackupFailsStory
  <2>3. CASE RestoreLook(d)
    BY <2>3, RestoreLookStory
  <2>4. CASE Invalidate(d)
    BY <2>4, InvalidateQuiet
  <2>5. ASSUME NEW refuse \in BOOLEAN, RestoreClear(d, refuse) PROVE Stories'
    BY <2>5, RestoreClearStory
  <2>6. ASSUME NEW refuse \in BOOLEAN, RestoreSave(d, refuse) PROVE Stories'
    BY <2>6, RestoreSaveStory
  <2> QED BY <1>8, <2>1, <2>2, <2>3, <2>4, <2>5, <2>6, Zenon DEF WorkerStep
<1>9. CASE UNCHANGED vars
  BY <1>9, CrashQuiet DEF vars
<1> QED BY <1>1, <1>2, <1>3, <1>4, <1>5, <1>6, <1>7, <1>8, <1>9, <1>10, Zenon DEF Next, UserStep

LEMMA StoriesInvariant == Spec => [](IInv /\ Stories)
<1>1. Init => IInv /\ Stories
  BY InitIInv, InitStories
<1>2. (IInv /\ Stories) /\ [Next]_vars => (IInv /\ Stories)'
  BY StepIInv, StepStories
<1> QED BY <1>1, <1>2, PTL DEF Spec

(* The archive of a backup that ended without an error has each record of the
   selected databases of the device, and has it once, whatever the user did with
   the other devices meanwhile and wherever other backups failed: the numbers
   that the GUI compares are those of what was written (BackupWindow.cc:398,
   DeviceIface.cc:250). *)
THEOREM BackupsAreWhole == Spec => []BackupWhole
<1>1. Stories => BackupWhole
  <2> SUFFICES ASSUME Stories, NEW d \in Devices, th[d].op = "BACKUP", ~th[d].working,
                      d \notin confirmed, errors[d] = {}
               PROVE  Complete(d)
    BY DEF BackupWhole
  <2>1. Story(d)
    BY DEF Stories
  <2>2. worker[d].pc = "none"
    BY <2>1 DEF Story
  <2> QED BY <2>1, <2>2 DEF Story
<1> QED BY <1>1, StoriesInvariant, PTL

(* When a restore is over, each selected database of the file is on the device
   with the records of the file and no other, or an error was reported for it,
   or for the whole restore: a database that is refused in the middle, or that
   the device does not have, costs no record of the next one
   (DeviceIface.cc:122). *)
THEOREM RestoresAreWhole == Spec => []RestoredOrReported
<1>1. Stories => RestoredOrReported
  <2> SUFFICES ASSUME Stories, NEW d \in Devices, th[d].op = "RESTORE", worker[d].pc = "none",
                      None \notin errors[d], d \notin confirmed,
                      NEW n \in Listed \ errors[d], InFile(d, n) # {}
               PROVE  n \in DOMAIN data[d] /\ Vals(data[d][n]) = InFile(d, n)
    BY DEF RestoredOrReported
  <2>1. AllRestored(file[d], data[d], errors[d])
    BY DEF Stories, Story
  <2>2. Of(file[d], n) = InFile(d, n)
    BY DEF Of, InFile
  <2> QED BY <2>1, <2>2 DEF AllRestored, Restored
<1> QED BY <1>1, StoriesInvariant, PTL
=============================================================================
