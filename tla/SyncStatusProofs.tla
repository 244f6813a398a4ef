-------------------------- MODULE SyncStatusProofs --------------------------
(***************************************************************************)
(* The theorems about the sync dialog and the jails it starts, for any     *)
(* devices, rosters, conflicts and number of dialogs: types, that no jail  *)
(* is started after a stop, that a device's last sync time comes from the  *)
(* end of its own jail, that a conflict is resolved as it was answered, and*)
(* that what the dialog or a jail waits for is on its way.                 *)
(***************************************************************************)
EXTENDS SyncStatus, FiniteSetTheorems, WellFoundedInduction, TLAPS

-----------------------------------------------------------------------------
(* The inductive invariant. *)

(* A list of n entries, whatever they are. *)
List(s, n) == s = [i \in 1..n |-> s[i]]

Child == [st : {"alive", "zombie", "gone"}, sig : {"none", "term", "kill"}]
Boxes(n) == {KillBox} \cup {ConflictBox(p) : p \in 1..n}
JailFields == {"dev", "pc", "seq", "conflict", "reply", "told", "slow"}

(* The children and what is kept per child. *)
Children ==
    /\ proc \in Seq(Child) /\ Len(proc) <= MaxRuns
    /\ waiter \in Seq({"waitpid", "clearing", "done"}) /\ Len(waiter) = Len(proc)
    /\ attached \in Seq(BOOLEAN) /\ Len(attached) = Len(proc)
    /\ callback \in 0..Len(proc) /\ appPid \in 0..Len(proc)
    /\ pending \in Seq(1..Len(proc))
    /\ stray \in BOOLEAN /\ broken \in BOOLEAN

(* What a jail j keeps when f conflicts were found. *)
GoodJail(j, f) ==
    /\ DOMAIN j = JailFields
    /\ j.dev \in Devices
    /\ j.pc \in {"connect", "sync", "wait", "exit"}
    /\ j.seq \in 0..f
    /\ j.conflict \in Conflicts \cup {NoConflict}

Jails ==
    /\ List(jail, Len(proc)) /\ List(toStatus, Len(proc)) /\ List(toConflict, Len(proc))
    /\ linked \in Seq(BOOLEAN) /\ Len(linked) = Len(proc)
    /\ List(conn, Len(proc))
    /\ \A p \in Pids : GoodJail(jail[p], found)
    /\ found \in 0..MaxConflicts /\ crashes \in 0..MaxCrashes

Dialogs ==
    /\ shown \in BOOLEAN /\ killing \in BOOLEAN /\ stopped \in BOOLEAN
    /\ roster \in Seq(Devices) /\ next \in 1..End /\ cur \in 1..End
    /\ buttons \in {"running", "close"}
    /\ boxes \in Seq(Boxes(Len(proc)))
    /\ \A d \in Devices : stamp[d] \in 0..Len(proc)
    /\ ~shown => boxes = <<>> /\ kill = NotKilling
    /\ kill.by = "destroy" => boxes = <<>>

(* A dialog waits for the end of one child at most, and for none where it
   offers to close. *)
OneChild ==
    /\ Len(pending) <= 1
    /\ callback # 0 => pending = <<>>
    /\ ~shown \/ buttons = "close" => callback = 0 /\ pending = <<>>
    /\ \A p \in Pids : waiter[p] = "clearing" /\ attached[p] => callback = p
    /\ \A p \in Pids : waiter[p] \in {"clearing", "done"} => proc[p].st = "gone"

(* The child the dialog waits for. *)
Awaited(p) == callback = p \/ (pending # <<>> /\ pending[1] = p)

(* That child is the jail of the current device, and nobody told it to die,
   unless the roster was stopped. *)
OwnChild ==
    \A p \in Pids : Awaited(p) =>
        /\ cur # End => jail[p].dev = roster[cur] /\ proc[p].sig = "none"
        /\ pending # <<>> => proc[p].st = "gone"

StoppedAtEnd == stopped => next = End

IInv == Children /\ Jails /\ Dialogs /\ OneChild /\ OwnChild /\ StampedOwnRun /\ StoppedAtEnd

-----------------------------------------------------------------------------
(* Lists and minima. *)

LEMMA ListFacts ==
    ASSUME NEW n \in Nat, NEW s, List(s, n)
    PROVE  DOMAIN s = 1..n
BY DEF List

(* A list with one more entry. *)
Longer(t, s, n, e) ==
    /\ List(t, n + 1)
    /\ t[n + 1] = e
    /\ \A i \in 1..n : t[i] = s[i]

LEMMA AppendList ==
    ASSUME NEW n \in Nat, NEW s, List(s, n), NEW e
    PROVE  Longer(Append(s, e), s, n, e)
<1> DEFINE R == {s[i] : i \in 1..n} \cup {e}
<1>1. s \in Seq(R) /\ Len(s) = n
  <2>1. s = [i \in 1..n |-> s[i]]
    BY DEF List
  <2>2. [i \in 1..n |-> s[i]] \in [1..n -> R]
    OBVIOUS
  <2>3. s \in [1..n -> R]
    BY <2>1, <2>2
  <2> QED
    BY <2>3
<1>2. /\ Append(s, e) \in Seq(R) /\ Len(Append(s, e)) = n + 1
      /\ Append(s, e)[n + 1] = e
      /\ \A i \in 1..n : Append(s, e)[i] = s[i]
  <2> HIDE DEF R
  <2>1. e \in R
    BY DEF R
  <2> QED
    BY <1>1, <2>1
<1>3. List(Append(s, e), n + 1)
  <2> HIDE DEF R
  <2> QED
    BY <1>2 DEF List
<1> QED
  BY <1>2, <1>3 DEF Longer

(* One entry of a list is changed. *)
LEMMA ExceptList ==
    ASSUME NEW n \in Nat, NEW s, List(s, n), NEW p \in 1..n, NEW e
    PROVE  /\ List([s EXCEPT ![p] = e], n)
           /\ [s EXCEPT ![p] = e][p] = e
           /\ \A i \in 1..n : i # p => [s EXCEPT ![p] = e][i] = s[i]
BY DEF List

(* A set of naturals that is not empty has a minimum, and Min finds it. *)
LEMMA MinFacts ==
    \A S \in SUBSET Nat : S # {} => Min(S) \in S
<1> SUFFICES ASSUME NEW S \in SUBSET Nat, S # {}
             PROVE  Min(S) \in S
  OBVIOUS
<1>1. PICK x \in S : \A y \in S : ~(<<y, x>> \in OpToRel(<, Nat))
  BY NatLessThanWellFounded, WFMin
<1>2. \A y \in S : x <= y
  <2> TAKE y \in S
  <2>1. ~(y < x)
    BY <1>1 DEF OpToRel
  <2> QED
    BY <2>1
<1> QED
  BY <1>2 DEF Min

-----------------------------------------------------------------------------
(* StartNextSync: the roster comes to an entry k, which is its end, or a
   device for which a jail is started or could not be started. *)
Rests(r, k) ==
    /\ next' = k /\ buttons' = "close" /\ UNCHANGED Skipped

Launches(r, k) ==
    /\ k <= Len(r) /\ next' = k + 1 /\ buttons' = "running"
    /\ Run /\ JailStarted(r[k]) /\ conn' = Append(conn, NewConn(""))

LEMMA StartsAt ==
    ASSUME NEW r \in Seq(Devices), NEW i \in 1..(Len(r) + 1), StartNextSync(r, i)
    PROVE  \E k \in i..(Len(r) + 1) :
              /\ roster' = r /\ killing' = FALSE /\ cur' = k
              /\ Rests(r, k) \/ Launches(r, k)
<1> DEFINE ready == {k \in i..Len(r) : r[k] \in Configured}
           k == IF ready = {} THEN Len(r) + 1 ELSE Min(ready)
<1>1. ready # {} => k \in i..Len(r)
  <2>1. ready \in SUBSET Nat
    OBVIOUS
  <2> QED
    BY <2>1, MinFacts
<1>2. k \in i..(Len(r) + 1)
  BY <1>1
<1>3. /\ roster' = r /\ killing' = FALSE /\ cur' = k
      /\ \/ next' = k /\ buttons' = "close" /\ UNCHANGED Skipped
         \/ /\ ready # {} /\ next' = k + 1 /\ buttons' = "running"
            /\ Run /\ JailStarted(r[k]) /\ conn' = Append(conn, NewConn(""))
  BY DEF StartNextSync
<1> HIDE DEF ready, k
<1>4. ready # {} => k <= Len(r)
  BY <1>1
<1>5. Rests(r, k) \/ Launches(r, k)
  BY <1>3, <1>4, Zenon DEF Rests, Launches
<1> QED
  BY <1>2, <1>3, <1>5, Zenon

(* Two entries of a list typed by a set. *)
LEMMA SeqIsList ==
    ASSUME NEW S, NEW s \in Seq(S)
    PROVE  List(s, Len(s)) /\ Len(s) \in Nat
BY DEF List

(* What a jail that is started adds. *)
Added(d) ==
    LET n == Len(proc) IN
    /\ Len(proc') = n + 1 /\ callback' = n + 1
    /\ proc'[n + 1] = NewChild /\ jail'[n + 1] = NewJail(d)
    /\ waiter'[n + 1] = "waitpid"
    /\ \A p \in 1..n : /\ proc'[p] = proc[p] /\ jail'[p] = jail[p]
                       /\ waiter'[p] = waiter[p] /\ attached'[p] = attached[p]

LEMMA LaunchAdds ==
    ASSUME Children, Jails, pending' = <<>>,
           NEW r \in Seq(Devices), NEW k \in 1..(Len(r) + 1), Launches(r, k)
    PROVE  Children' /\ Jails' /\ Added(r[k])
<1> DEFINE n == Len(proc)
<1>1. n \in Nat /\ Pids = 1..n /\ n < MaxRuns /\ r[k] \in Devices
  <2>1. proc \in Seq(Child) /\ n < MaxRuns /\ k <= Len(r)
    BY DEF Launches, Run, Children
  <2> QED
    BY <2>1 DEF Pids
<1>2. /\ proc' \in Seq(Child) /\ Len(proc') = n + 1 /\ proc'[n + 1] = NewChild
      /\ \A p \in 1..n : proc'[p] = proc[p]
  <2>1. proc' = Append(proc, NewChild) /\ proc \in Seq(Child)
    BY DEF Launches, Run, Children
  <2>2. NewChild \in Child
    BY DEF NewChild, Child
  <2> QED
    BY <2>1, <2>2
<1>3. /\ waiter' \in Seq({"waitpid", "clearing", "done"}) /\ Len(waiter') = n + 1
      /\ waiter'[n + 1] = "waitpid" /\ \A p \in 1..n : waiter'[p] = waiter[p]
  <2>1. waiter' = Append(waiter, "waitpid") /\ Len(waiter) = n
        /\ waiter \in Seq({"waitpid", "clearing", "done"})
    BY DEF Launches, Run, Children
  <2> QED
    BY <2>1
<1>4. /\ attached' \in Seq(BOOLEAN) /\ Len(attached') = n + 1
      /\ \A p \in 1..n : attached'[p] = attached[p]
  <2>1. attached' = Append(attached, TRUE) /\ Len(attached) = n /\ attached \in Seq(BOOLEAN)
    BY DEF Launches, Run, Children
  <2>2. attached' \in Seq(BOOLEAN) /\ Len(attached') = n + 1
    BY <2>1
  <2>3. List(attached, n)
    BY <2>1, SeqIsList
  <2>4. Longer(attached', attached, n, TRUE)
    BY <1>1, <2>1, <2>3, AppendList
  <2> QED
    BY <2>2, <2>4 DEF Longer
<1>5. linked' \in Seq(BOOLEAN) /\ Len(linked') = n + 1
  <2>1. linked' = Append(linked, FALSE) /\ Len(linked) = n /\ linked \in Seq(BOOLEAN)
    BY DEF Launches, JailStarted, Jails
  <2> QED
    BY <2>1
<1>6. /\ List(jail', n + 1) /\ jail'[n + 1] = NewJail(r[k])
      /\ \A p \in 1..n : jail'[p] = jail[p]
  <2>1. jail' = Append(jail, NewJail(r[k])) /\ List(jail, n)
    BY DEF Launches, JailStarted, Jails
  <2>2. PICK e : e = NewJail(r[k])
    OBVIOUS
  <2>3. jail' = Append(jail, e)
    BY <2>1, <2>2
  <2>4. Longer(jail', jail, n, e)
    BY <1>1, <2>1, <2>3, AppendList
  <2> QED
    BY <2>2, <2>4 DEF Longer
<1>7. List(toStatus', n + 1) /\ List(toConflict', n + 1) /\ List(conn', n + 1)
  <2>1. /\ toStatus' = Append(toStatus, <<>>) /\ List(toStatus, n)
        /\ toConflict' = Append(toConflict, <<>>) /\ List(toConflict, n)
        /\ conn' = Append(conn, NewConn("")) /\ List(conn, n)
    BY DEF Launches, JailStarted, Jails
  <2>2. /\ Longer(toStatus', toStatus, n, <<>>) /\ Longer(toConflict', toConflict, n, <<>>)
        /\ Longer(conn', conn, n, NewConn(""))
    BY <1>1, <2>1, AppendList
  <2> QED
    BY <2>2 DEF Longer
<1>8. callback' = n + 1 /\ appPid' = n + 1 /\ UNCHANGED <<stray, broken, found, crashes>>
  BY DEF Launches, Run, JailStarted
<1>9. Children'
  <2>1. stray \in BOOLEAN /\ broken \in BOOLEAN
    BY DEF Children
  <2> QED
    BY <1>1, <1>2, <1>3, <1>4, <1>8, <2>1, ExecAssumption DEF Children
<1>10. \A p \in Pids' : GoodJail(jail'[p], found)
  <2>1. Pids' = 1..(n + 1) /\ \A p \in 1..(n + 1) : p \in 1..n \/ p = n + 1
    BY <1>1, <1>2 DEF Pids
  <2>2. \A p \in 1..n : GoodJail(jail'[p], found)
    BY <1>1, <1>6 DEF Jails
  <2>3. GoodJail(jail'[n + 1], found)
    <3>1. found \in Nat
      BY JailAssumption DEF Jails
    <3> QED
      BY <1>1, <1>6, <3>1 DEF NewJail, JailFields, GoodJail
  <2> QED
    BY <2>1, <2>2, <2>3
<1>11. Jails'
  <2>1. found \in 0..MaxConflicts /\ crashes \in 0..MaxCrashes
    BY DEF Jails
  <2> QED
    BY <1>2, <1>5, <1>6, <1>7, <1>8, <1>10, <2>1 DEF Jails
<1> QED
  BY <1>2, <1>3, <1>4, <1>6, <1>8, <1>9, <1>11 DEF Added

-----------------------------------------------------------------------------
(* The steps that go on with the roster. *)

LEMMA MoreBoxes ==
    ASSUME NEW n \in Nat, NEW s \in Seq(Boxes(n))
    PROVE  s \in Seq(Boxes(n + 1))
<1>1. Boxes(n) \subseteq Boxes(n + 1)
  BY DEF Boxes
<1> QED
  BY <1>1

(* A device's stamp s is the end of its own jail. *)
Stamped(d, s) == s # 0 => jail[s].dev = d /\ ~Alive(s) /\ proc[s].sig = "none"

LEMMA StampedIs == StampedOwnRun <=> \A d \in Devices : Stamped(d, stamp[d])
BY DEF StampedOwnRun, Stamped

LEMMA StartStep ==
    ASSUME IInv, NEW r \in Seq(Devices), NEW i \in 1..(Len(r) + 1), StartNextSync(r, i),
           pending' = <<>>, callback = 0, shown' = TRUE, boxes' = boxes,
           kill = NotKilling, kill' = kill,
           stopped' \in BOOLEAN, stopped' => i = Len(r) + 1,
           \A d \in Devices : stamp'[d] \in 0..Len(proc) /\ Stamped(d, stamp'[d])
    PROVE  IInv'
<1> DEFINE n == Len(proc)
<1>0. n \in Nat /\ Pids = 1..n /\ Len(r) \in Nat /\ boxes \in Seq(Boxes(n)) /\ shown' \in BOOLEAN
  <2>1. proc \in Seq(Child)
    BY DEF IInv, Children
  <2> QED
    BY <2>1 DEF IInv, Dialogs, Pids
<1>1. PICK k \in i..(Len(r) + 1) : /\ roster' = r /\ killing' = FALSE /\ cur' = k
                                   /\ Rests(r, k) \/ Launches(r, k)
  BY StartsAt, Zenon
<1>2. k \in 1..(Len(r) + 1) /\ End' = Len(r) + 1 /\ (i = Len(r) + 1 => k = Len(r) + 1)
  BY <1>0, <1>1 DEF End
<1>3. CASE Rests(r, k)
  <2>1. next' = k /\ buttons' = "close" /\ UNCHANGED <<proc, waiter, attached, callback, appPid, stray,
            broken, jail, toStatus, toConflict, linked, found, crashes, conn>>
    BY <1>3, Zenon DEF Rests, Skipped, jailVars
  <2>2. Children'
    BY <2>1 DEF IInv, Children
  <2>3. Jails'
    BY <2>1 DEF IInv, Jails, Pids
  <2>4. Dialogs'
    BY <1>0, <1>1, <1>2, <2>1 DEF IInv, Dialogs, NotKilling
  <2>5. OneChild'
    BY <2>1 DEF IInv, OneChild, Pids
  <2>6. OwnChild'
    <3>1. ~\E p \in Pids' : Awaited(p)'
      BY <1>0, <2>1 DEF Awaited, Pids
    <3> QED
      BY <3>1 DEF OwnChild
  <2>7. StampedOwnRun'
    BY <2>1 DEF StampedOwnRun, Stamped, Alive
  <2>8. StoppedAtEnd'
    BY <1>2, <2>1 DEF StoppedAtEnd
  <2> QED
    BY <2>2, <2>3, <2>4, <2>5, <2>6, <2>7, <2>8 DEF IInv
<1>4. CASE Launches(r, k)
  <2>1. Children' /\ Jails' /\ Added(r[k])
    BY <1>2, <1>4, LaunchAdds DEF IInv
  <2>2. next' = k + 1 /\ buttons' = "running" /\ k <= Len(r)
    BY <1>4 DEF Launches
  <2>3. Len(proc') = n + 1 /\ Pids' = 1..(n + 1) /\ \A p \in 1..(n + 1) : p \in 1..n \/ p = n + 1
    <3>1. Len(proc') = n + 1
      BY <2>1 DEF Added
    <3>2. proc' \in Seq(Child)
      BY <2>1 DEF Children
    <3> QED
      BY <1>0, <3>1, <3>2 DEF Pids
  <2>4. Dialogs'
    <3>1. boxes' \in Seq(Boxes(n + 1))
      BY <1>0, MoreBoxes
    <3>2. \A d \in Devices : stamp'[d] \in 0..(n + 1)
      BY <1>0
    <3>3. next' \in 1..End' /\ cur' \in 1..End'
      BY <1>0, <1>1, <1>2, <2>2
    <3> QED
      BY <1>1, <2>2, <2>3, <3>1, <3>2, <3>3 DEF Dialogs, NotKilling
  <2>5. OneChild'
    <3>1. \A p \in 1..n : ~(waiter[p] = "clearing" /\ attached[p])
      BY <1>0 DEF IInv, OneChild
    <3>2. \A p \in 1..(n + 1) : ~(waiter'[p] = "clearing" /\ attached'[p])
      BY <2>1, <2>3, <3>1 DEF Added
    <3>3. \A p \in 1..(n + 1) : waiter'[p] \in {"clearing", "done"} => proc'[p].st = "gone"
      BY <1>0, <2>1, <2>3 DEF Added, IInv, OneChild
    <3> QED
      BY <2>2, <2>3, <3>2, <3>3 DEF OneChild
  <2>6. OwnChild'
    <3>1. \A p \in Pids' : Awaited(p)' => p = n + 1
      BY <2>1, <2>3 DEF Awaited, Added
    <3>2. jail'[n + 1].dev = r[k] /\ proc'[n + 1].sig = "none"
      BY <2>1 DEF Added, NewJail, NewChild
    <3> QED
      BY <1>1, <3>1, <3>2 DEF OwnChild
  <2>7. StampedOwnRun'
    <3> SUFFICES ASSUME NEW d \in Devices, stamp'[d] # 0
                 PROVE  /\ jail'[stamp'[d]].dev = d /\ proc'[stamp'[d]].st # "alive"
                        /\ proc'[stamp'[d]].sig = "none"
      BY DEF StampedOwnRun, Alive
    <3>1. stamp'[d] \in 1..n /\ Stamped(d, stamp'[d])
      BY <1>0
    <3> QED
      BY <2>1, <3>1 DEF Stamped, Alive, Added
  <2>8. StoppedAtEnd'
    BY <1>0, <1>2, <2>2 DEF StoppedAtEnd
  <2> QED
    BY <2>1, <2>4, <2>5, <2>6, <2>7, <2>8 DEF IInv
<1> QED
  BY <1>1, <1>3, <1>4

LEMMA StampsHold ==
    ASSUME IInv
    PROVE  \A d \in Devices : stamp[d] \in 0..Len(proc) /\ Stamped(d, stamp[d])
BY StampedIs DEF IInv, Dialogs

LEMMA SyncNowStep ==
    ASSUME IInv, OnSyncNow
    PROVE  IInv'
<1>1. PICK r \in Rosters : StartNextSync(r, 1)
  BY DEF OnSyncNow
<1>2. r \in Seq(Devices) /\ 1 \in 1..(Len(r) + 1)
  <2>1. r \in Seq(Devices)
    BY SyncAssumption
  <2> QED
    BY <2>1
<1>3. /\ pending' = pending /\ boxes' = boxes /\ kill' = kill /\ stamp' = stamp
      /\ shown' = TRUE /\ stopped' = FALSE /\ ~shown
  BY DEF OnSyncNow
<1>4. pending = <<>> /\ callback = 0 /\ kill = NotKilling
  BY <1>3 DEF IInv, OneChild, Dialogs
<1>5. \A d \in Devices : stamp'[d] \in 0..Len(proc) /\ Stamped(d, stamp'[d])
  BY <1>3, StampsHold
<1> QED
  BY <1>1, <1>2, <1>3, <1>4, <1>5, StartStep

LEMMA SyncAgainStep ==
    ASSUME IInv, OnSyncAgain
    PROVE  IInv'
<1>1. StartNextSync(roster, 1)
  BY DEF OnSyncAgain
<1>2. roster \in Seq(Devices) /\ 1 \in 1..(Len(roster) + 1)
  <2>1. roster \in Seq(Devices)
    BY DEF IInv, Dialogs
  <2> QED
    BY <2>1
<1>3. /\ pending' = pending /\ boxes' = boxes /\ kill' = kill /\ stamp' = stamp
      /\ shown' = TRUE /\ stopped' = FALSE /\ buttons = "close" /\ kill = NotKilling
  BY DEF OnSyncAgain, Loop, IInv, Dialogs
<1>4. pending = <<>> /\ callback = 0
  BY <1>3 DEF IInv, OneChild
<1>5. \A d \in Devices : stamp'[d] \in 0..Len(proc) /\ Stamped(d, stamp'[d])
  BY <1>3, StampsHold
<1> QED
  BY <1>1, <1>2, <1>3, <1>4, <1>5, StartStep

LEMMA ExecTerminatedStep ==
    ASSUME IInv, OnExecTerminated
    PROVE  IInv'
<1>1. StartNextSync(roster, next)
  BY DEF OnExecTerminated
<1>2. roster \in Seq(Devices) /\ next \in 1..(Len(roster) + 1) /\ stopped \in BOOLEAN
      /\ cur \in 1..(Len(roster) + 1)
  BY DEF IInv, Dialogs, End
<1>3. /\ pending # <<>> /\ pending' = Tail(pending) /\ boxes' = boxes /\ kill' = kill
      /\ shown' = TRUE /\ stopped' = stopped /\ kill = NotKilling
  BY DEF OnExecTerminated, Loop, IInv, Dialogs
<1>4. callback = 0 /\ pending \in Seq(1..Len(proc)) /\ Len(pending) <= 1 /\ proc \in Seq(Child)
  BY <1>3 DEF IInv, OneChild, Children
<1>5. pending' = <<>> /\ Head(pending) = pending[1] /\ pending[1] \in 1..Len(proc)
  BY <1>3, <1>4
<1> DEFINE p == pending[1]
<1>6. stamp' = [d \in Devices |-> IF d \in GetCurrentDevice \cap Configured THEN p ELSE stamp[d]]
  BY <1>5 DEF OnExecTerminated, UpdateLastSyncTime
<1>7. \A d \in Devices : d \in GetCurrentDevice => Stamped(d, p)
  <2> SUFFICES ASSUME NEW d \in Devices, d \in GetCurrentDevice PROVE Stamped(d, p)
    OBVIOUS
  <2>1. cur # End /\ d = roster[cur]
    BY DEF GetCurrentDevice
  <2>2. p \in Pids /\ Awaited(p)
    BY <1>3, <1>4, <1>5 DEF Pids, Awaited
  <2>3. jail[p].dev = roster[cur] /\ proc[p].sig = "none" /\ proc[p].st = "gone"
    BY <1>3, <2>1, <2>2 DEF IInv, OwnChild
  <2> QED
    BY <2>1, <2>3 DEF Stamped, Alive
<1>8. \A d \in Devices : stamp'[d] \in 0..Len(proc) /\ Stamped(d, stamp'[d])
  <2> SUFFICES ASSUME NEW d \in Devices
               PROVE  stamp'[d] \in 0..Len(proc) /\ Stamped(d, stamp'[d])
    OBVIOUS
  <2>1. CASE d \in GetCurrentDevice \cap Configured
    <3>1. stamp'[d] = p /\ p \in 0..Len(proc)
      BY <1>4, <1>5, <1>6, <2>1
    <3> QED
      BY <1>7, <2>1, <3>1
  <2>2. CASE d \notin GetCurrentDevice \cap Configured
    BY <1>6, <2>2, StampsHold
  <2> QED
    BY <2>1, <2>2
<1>9. stopped' => next = Len(roster) + 1
  BY <1>3 DEF IInv, StoppedAtEnd, End
<1>10. stopped' \in BOOLEAN
  BY <1>2, <1>3
<1> QED
  BY <1>1, <1>2, <1>3, <1>4, <1>5, <1>8, <1>9, <1>10, StartStep

-----------------------------------------------------------------------------
(* The steps that leave the children and the roster alone. *)

LEMMA FrameStep ==
    ASSUME IInv, Jails', \A p \in Pids : jail'[p].dev = jail[p].dev,
           UNCHANGED <<execVars, shown, roster, next, cur, killing, buttons, stamp, stopped>>,
           boxes' \in Seq(Boxes(Len(proc))),
           ~shown => boxes' = <<>> /\ kill' = NotKilling,
           kill'.by = "destroy" => boxes' = <<>>
    PROVE  IInv'
<1>1. UNCHANGED <<proc, waiter, attached, callback, appPid, pending, stray, broken>>
  BY DEF execVars
<1>2. Children' /\ OneChild' /\ StoppedAtEnd'
  BY <1>1 DEF IInv, Children, OneChild, StoppedAtEnd, Pids, End
<1>3. Dialogs'
  BY <1>1 DEF IInv, Dialogs, End
<1>4. OwnChild'
  BY <1>1 DEF IInv, OwnChild, Awaited, Pids, End
<1>5. StampedOwnRun'
  <2> SUFFICES ASSUME NEW d \in Devices, stamp[d] # 0
               PROVE  /\ jail'[stamp[d]].dev = d /\ proc[stamp[d]].st # "alive"
                      /\ proc[stamp[d]].sig = "none"
    BY <1>1 DEF StampedOwnRun, Alive
  <2>1. stamp[d] \in 1..Len(proc) /\ proc \in Seq(Child)
    BY DEF IInv, Dialogs, Children
  <2>2. stamp[d] \in Pids
    BY <2>1 DEF Pids
  <2> QED
    BY <2>2 DEF IInv, StampedOwnRun, Alive
<1> QED
  BY <1>2, <1>3, <1>4, <1>5 DEF IInv

(* A list keeps its length when it is rewritten or has one entry changed. *)
LEMMA SameList ==
    ASSUME NEW n \in Nat, NEW s, List(s, n), NEW p, NEW e
    PROVE  List([s EXCEPT ![p] = e], n)
BY DEF List

(* One jail goes on. *)
LEMMA JailChanged ==
    ASSUME Children, Jails, NEW p \in Pids, NEW e, jail' = [jail EXCEPT ![p] = e],
           GoodJail(e, found'), e.dev = jail[p].dev, found' >= found,
           found' \in 0..MaxConflicts, crashes' \in 0..MaxCrashes,
           proc' = proc, List(toStatus', Len(proc)), List(toConflict', Len(proc)),
           linked' \in Seq(BOOLEAN), Len(linked') = Len(proc), List(conn', Len(proc))
    PROVE  Jails' /\ \A q \in Pids : jail'[q].dev = jail[q].dev
<1>0. Len(proc) \in Nat /\ Pids = 1..Len(proc) /\ found \in Nat /\ found' \in Nat
  <2>1. proc \in Seq(Child) /\ found \in 0..MaxConflicts
    BY DEF Children, Jails
  <2> QED
    BY <2>1, JailAssumption DEF Pids
<1>1. List(jail', Len(proc))
  BY <1>0, SameList DEF Jails
<1>2. DOMAIN jail = Pids
  BY <1>0, ListFacts DEF Jails
<1>3. \A q \in Pids : GoodJail(jail'[q], found') /\ jail'[q].dev = jail[q].dev
  <2> SUFFICES ASSUME NEW q \in Pids
               PROVE  GoodJail(jail'[q], found') /\ jail'[q].dev = jail[q].dev
    OBVIOUS
  <2>1. CASE q = p
    BY <1>2, <2>1
  <2>2. CASE q # p
    <3>1. jail'[q] = jail[q] /\ GoodJail(jail[q], found)
      BY <1>2, <2>2 DEF Jails
    <3> QED
      BY <1>0, <3>1 DEF GoodJail
  <2> QED
    BY <2>1, <2>2
<1>4. Pids' = Pids
  BY DEF Pids
<1> QED
  BY <1>1, <1>3, <1>4 DEF Jails

(* No jail changes. *)
LEMMA JailsSame ==
    ASSUME Children, Jails, jail' = jail, UNCHANGED <<proc, found, crashes, linked>>,
           List(toStatus', Len(proc)), List(toConflict', Len(proc)), List(conn', Len(proc))
    PROVE  Jails' /\ \A q \in Pids : jail'[q].dev = jail[q].dev
BY DEF Jails, Pids

(* What IInv says of the lists, once for all steps. *)
LEMMA Facts ==
    ASSUME IInv
    PROVE  /\ Len(proc) \in Nat /\ Pids = 1..Len(proc) /\ DOMAIN jail = Pids
           /\ List(jail, Len(proc)) /\ List(toStatus, Len(proc))
           /\ List(toConflict, Len(proc)) /\ List(conn, Len(proc))
           /\ linked \in Seq(BOOLEAN) /\ Len(linked) = Len(proc)
           /\ found \in 0..MaxConflicts /\ found \in Nat /\ crashes \in 0..MaxCrashes
           /\ \A p \in Pids : GoodJail(jail[p], found)
           /\ boxes \in Seq(Boxes(Len(proc)))
           /\ ~shown => boxes = <<>> /\ kill = NotKilling
           /\ kill.by = "destroy" => boxes = <<>>
<1>1. proc \in Seq(Child) /\ Children /\ Jails /\ Dialogs
  BY DEF IInv, Children
<1>2. Len(proc) \in Nat /\ Pids = 1..Len(proc)
  BY <1>1 DEF Pids
<1>3. found \in 0..MaxConflicts /\ found \in Nat
  BY <1>1, JailAssumption DEF Jails
<1>4. DOMAIN jail = 1..Len(proc)
  BY <1>1, <1>2, ListFacts DEF Jails
<1> QED
  BY <1>1, <1>2, <1>3, <1>4 DEF Jails, Dialogs

LEMMA EngineStatusStep ==
    ASSUME IInv, NEW p \in Pids, EngineStatus(p), UNCHANGED dlgVars
    PROVE  IInv'
<1> DEFINE e == [jail[p] EXCEPT !.slow = TRUE]
<1>1. /\ jail' = [jail EXCEPT ![p] = e] /\ found' = found /\ crashes' = crashes
      /\ linked' = linked /\ toConflict' = toConflict /\ conn' = conn /\ UNCHANGED execVars
      /\ toStatus' = [toStatus EXCEPT ![p] = Append(@, "SlowSync")]
  BY DEF EngineStatus, dlgVars
<1>2. GoodJail(e, found) /\ e.dev = jail[p].dev
  BY Facts DEF GoodJail, JailFields
<1>3. List(toStatus', Len(proc))
  BY <1>1, Facts, SameList
<1> HIDE DEF e
<1>4. Jails' /\ \A q \in Pids : jail'[q].dev = jail[q].dev
  <2>1. GoodJail(e, found') /\ found' >= found /\ found' \in 0..MaxConflicts /\ crashes' \in 0..MaxCrashes
    BY <1>1, <1>2, Facts
  <2>2. proc' = proc /\ List(toConflict', Len(proc)) /\ List(conn', Len(proc))
        /\ linked' \in Seq(BOOLEAN) /\ Len(linked') = Len(proc) /\ Children /\ Jails
    BY <1>1, Facts DEF IInv, execVars
  <2> QED
    BY <1>1, <1>2, <1>3, <2>1, <2>2, JailChanged
<1> QED
  BY <1>1, <1>4, Facts, FrameStep DEF dlgVars

LEMMA HandleConflictStep ==
    ASSUME IInv, NEW p \in Pids, HandleConflict(p), UNCHANGED dlgVars
    PROVE  IInv'
<1>1. PICK c \in Conflicts : \E y :
        /\ jail' = [jail EXCEPT ![p].seq = jail[p].seq + 1, ![p].conflict = c, ![p].pc = "wait",
                                ![p].reply = IF linked[p] THEN NoReply ELSE Null]
        /\ toConflict' = IF linked[p] THEN [toConflict EXCEPT ![p] = y] ELSE toConflict
  BY DEF HandleConflict
<1>2. PICK z : z = IF linked[p] THEN NoReply ELSE Null
  OBVIOUS
<1> DEFINE e == [jail[p] EXCEPT !.seq = jail[p].seq + 1, !.conflict = c, !.pc = "wait", !.reply = z]
<1>3. /\ jail' = [jail EXCEPT ![p] = e] /\ found' = found + 1 /\ crashes' = crashes /\ found < MaxConflicts
      /\ linked' = linked /\ toStatus' = toStatus /\ conn' = conn /\ UNCHANGED execVars
  BY <1>1, <1>2 DEF HandleConflict, dlgVars
<1>4. GoodJail(e, found + 1) /\ e.dev = jail[p].dev
  BY Facts DEF GoodJail, JailFields
<1>5. List(toConflict', Len(proc))
  <2>1. PICK y : toConflict' = IF linked[p] THEN [toConflict EXCEPT ![p] = y] ELSE toConflict
    BY <1>1
  <2> QED
    BY <2>1, Facts, SameList
<1>6. found' \in 0..MaxConflicts /\ found' >= found
  BY <1>3, Facts, JailAssumption
<1> HIDE DEF e
<1>7. Jails' /\ \A q \in Pids : jail'[q].dev = jail[q].dev
  BY <1>3, <1>4, <1>5, <1>6, Facts, JailChanged DEF IInv, execVars
<1> QED
  BY <1>3, <1>7, Facts, FrameStep DEF dlgVars

LEMMA AnsweredStep ==
    ASSUME IInv, NEW p \in Pids, Answered(p), UNCHANGED dlgVars
    PROVE  IInv'
<1> DEFINE e == [jail[p] EXCEPT !.pc = "sync", !.reply = NoReply, !.told = Unanswered,
                                !.conflict = NoConflict]
<1>1. /\ jail' = [jail EXCEPT ![p] = e] /\ found' = found /\ crashes' = crashes
      /\ linked' = linked /\ toStatus' = toStatus /\ toConflict' = toConflict
      /\ conn' = conn /\ UNCHANGED execVars
  BY DEF Answered, dlgVars
<1>2. GoodJail(e, found) /\ e.dev = jail[p].dev
  BY Facts DEF GoodJail, JailFields
<1> HIDE DEF e
<1>3. Jails' /\ \A q \in Pids : jail'[q].dev = jail[q].dev
  <2>1. GoodJail(e, found') /\ found' >= found /\ found' \in 0..MaxConflicts /\ crashes' \in 0..MaxCrashes
    BY <1>1, <1>2, Facts
  <2>2. /\ proc' = proc /\ List(toStatus', Len(proc)) /\ List(toConflict', Len(proc))
        /\ linked' \in Seq(BOOLEAN) /\ Len(linked') = Len(proc) /\ List(conn', Len(proc))
        /\ Children /\ Jails
    BY <1>1, Facts DEF IInv, execVars
  <2> QED
    BY <1>1, <1>2, <2>1, <2>2, JailChanged
<1> QED
  BY <1>1, <1>3, Facts, FrameStep DEF dlgVars

-----------------------------------------------------------------------------
(* The steps of the processes. *)

LEMMA JailEndsStep ==
    ASSUME IInv, NEW p \in Pids, JailEnds(p), crashes' \in 0..MaxCrashes, UNCHANGED dlgVars
    PROVE  IInv'
<1> DEFINE e == [NewJail(jail[p].dev) EXCEPT !.pc = "exit"]
           n == Len(proc)
<1>1. /\ jail' = [jail EXCEPT ![p] = e] /\ found' = found /\ linked' = linked
      /\ toStatus' = toStatus /\ toConflict' = toConflict
      /\ proc' = [proc EXCEPT ![p].st = "zombie"] /\ proc[p].st = "alive"
      /\ UNCHANGED <<waiter, attached, callback, appPid, pending, stray, broken>>
  BY DEF JailEnds, Ends, Alive
<1>2. UNCHANGED <<shown, roster, next, cur, killing, buttons, boxes, kill, conn, stamp, stopped>>
  BY DEF dlgVars
<1>3. proc \in Seq(Child) /\ n \in Nat /\ Pids = 1..n /\ proc[p] \in Child
  BY Facts DEF IInv, Children
<1>4. /\ proc' \in Seq(Child) /\ Len(proc') = n /\ Pids' = Pids
      /\ proc'[p].st = "zombie" /\ proc'[p].sig = proc[p].sig
      /\ \A q \in Pids : q # p => proc'[q] = proc[q]
  <2>1. [proc[p] EXCEPT !.st = "zombie"] \in Child
    BY <1>3 DEF Child
  <2>2. proc' \in Seq(Child) /\ Len(proc') = n
    BY <1>1, <1>3, <2>1
  <2>3. proc'[p] = [proc[p] EXCEPT !.st = "zombie"] /\ \A q \in Pids : q # p => proc'[q] = proc[q]
    BY <1>1, <1>3
  <2> QED
    BY <1>3, <2>2, <2>3 DEF Pids, Child
<1>5. \A q \in Pids : proc'[q].sig = proc[q].sig
                      /\ (proc[q].st # "alive" => proc'[q].st = proc[q].st)
  BY <1>1, <1>4
<1>6. GoodJail(e, found) /\ e.dev = jail[p].dev
  BY Facts DEF GoodJail, JailFields, NewJail
<1> HIDE DEF e
<1>7. \A q \in Pids : GoodJail(jail'[q], found) /\ jail'[q].dev = jail[q].dev
  BY <1>1, <1>6, Facts
<1>8. Children'
  BY <1>1, <1>4 DEF IInv, Children
<1>9. Jails'
  <2>1. List(jail', n)
    BY <1>1, <1>3, Facts, SameList
  <2> QED
    BY <1>1, <1>2, <1>4, <1>7, <2>1, Facts DEF Jails
<1>10. Dialogs'
  BY <1>2, <1>4 DEF IInv, Dialogs, End
<1>11. OneChild'
  BY <1>1, <1>2, <1>4, <1>5 DEF IInv, OneChild
<1>12. OwnChild'
  BY <1>1, <1>2, <1>4, <1>5, <1>7 DEF IInv, OwnChild, Awaited, End
<1>13. StampedOwnRun'
  <2> SUFFICES ASSUME NEW d \in Devices, stamp[d] # 0
               PROVE  /\ jail'[stamp[d]].dev = d /\ proc'[stamp[d]].st # "alive"
                      /\ proc'[stamp[d]].sig = "none"
    BY <1>2 DEF StampedOwnRun, Alive
  <2>1. stamp[d] \in Pids
    BY <1>3 DEF IInv, Dialogs
  <2> QED
    BY <1>5, <1>7, <2>1 DEF IInv, StampedOwnRun, Alive
<1>14. StoppedAtEnd'
  BY <1>2 DEF IInv, StoppedAtEnd, End
<1> QED
  BY <1>8, <1>9, <1>10, <1>11, <1>12, <1>13, <1>14 DEF IInv

LEMMA OnTerminateStep ==
    ASSUME IInv, NEW p \in Pids, OnTerminate(p), UNCHANGED <<jailVars, dlgVars>>
    PROVE  IInv'
<1> DEFINE n == Len(proc)
<1>1. /\ waiter[p] = "waitpid" /\ proc[p].st = "zombie"
      /\ proc' = [proc EXCEPT ![p].st = "gone"]
      /\ UNCHANGED <<attached, callback, pending, stray, broken>>
      /\ appPid' \in {0, appPid}
  BY DEF OnTerminate
<1>2. /\ UNCHANGED <<jail, toStatus, toConflict, linked, found, crashes>>
      /\ UNCHANGED <<shown, roster, next, cur, killing, buttons, boxes, kill, conn, stamp, stopped>>
  BY DEF jailVars, dlgVars
<1>3. proc \in Seq(Child) /\ n \in Nat /\ Pids = 1..n /\ proc[p] \in Child
  BY Facts DEF IInv, Children
<1>4. /\ proc' \in Seq(Child) /\ Len(proc') = n /\ Pids' = Pids
      /\ proc'[p].st = "gone" /\ proc'[p].sig = proc[p].sig
      /\ \A q \in Pids : q # p => proc'[q] = proc[q]
  <2>1. [proc[p] EXCEPT !.st = "gone"] \in Child
    BY <1>3 DEF Child
  <2>2. proc' \in Seq(Child) /\ Len(proc') = n
    BY <1>1, <1>3, <2>1
  <2>3. proc'[p] = [proc[p] EXCEPT !.st = "gone"] /\ \A q \in Pids : q # p => proc'[q] = proc[q]
    BY <1>1, <1>3
  <2> QED
    BY <1>3, <2>2, <2>3 DEF Pids, Child
<1>5. \A q \in Pids : proc'[q].sig = proc[q].sig
                      /\ (proc[q].st # "alive" => proc'[q].st # "alive")
                      /\ (proc[q].st = "gone" => proc'[q].st = "gone")
  BY <1>1, <1>4
<1>6. \E w \in {"clearing", "done"} :
        waiter' = [waiter EXCEPT ![p] = w] /\ (w = "clearing" => callback = p)
  BY DEF OnTerminate
<1>7. /\ waiter' \in Seq({"waitpid", "clearing", "done"}) /\ Len(waiter') = n
      /\ \A q \in Pids : q # p => waiter'[q] = waiter[q]
      /\ waiter'[p] = "clearing" => callback = p
  <2>1. waiter \in Seq({"waitpid", "clearing", "done"}) /\ Len(waiter) = n
    BY DEF IInv, Children
  <2> QED
    BY <1>3, <1>6, <2>1
<1>8. Children'
  <2>1. appPid' \in 0..n
    BY <1>1, <1>3 DEF IInv, Children
  <2> QED
    BY <1>1, <1>4, <1>7, <2>1 DEF IInv, Children
<1>9. Jails'
  BY <1>2, <1>4 DEF IInv, Jails
<1>10. Dialogs'
  BY <1>2, <1>4 DEF IInv, Dialogs, End
<1>11. OneChild'
  BY <1>1, <1>2, <1>4, <1>5, <1>7 DEF IInv, OneChild
<1>12. OwnChild'
  BY <1>1, <1>2, <1>4, <1>5 DEF IInv, OwnChild, Awaited, End
<1>13. StampedOwnRun'
  <2> SUFFICES ASSUME NEW d \in Devices, stamp[d] # 0
               PROVE  /\ jail[stamp[d]].dev = d /\ proc'[stamp[d]].st # "alive"
                      /\ proc'[stamp[d]].sig = "none"
    BY <1>2 DEF StampedOwnRun, Alive
  <2>1. stamp[d] \in Pids
    BY <1>3 DEF IInv, Dialogs
  <2> QED
    BY <1>5, <2>1 DEF IInv, StampedOwnRun, Alive
<1>14. StoppedAtEnd'
  BY <1>2 DEF IInv, StoppedAtEnd, End
<1> QED
  BY <1>8, <1>9, <1>10, <1>11, <1>12, <1>13, <1>14 DEF IInv

LEMMA OnTerminateSignalStep ==
    ASSUME IInv, NEW p \in Pids, OnTerminateSignal(p), UNCHANGED <<jailVars, dlgVars>>
    PROVE  IInv'
<1> DEFINE n == Len(proc)
<1>1. /\ waiter[p] = "clearing" /\ waiter' = [waiter EXCEPT ![p] = "done"]
      /\ UNCHANGED <<proc, attached, appPid, stray>>
      /\ \/ attached[p] /\ callback' = 0 /\ pending' = Append(pending, p) /\ broken' = broken
         \/ broken' = TRUE /\ UNCHANGED <<callback, pending>>
  BY DEF OnTerminateSignal
<1>2. /\ UNCHANGED <<jail, toStatus, toConflict, linked, found, crashes>>
      /\ UNCHANGED <<shown, roster, next, cur, killing, buttons, boxes, kill, conn, stamp, stopped>>
  BY DEF jailVars, dlgVars
<1>3. n \in Nat /\ Pids = 1..n /\ Pids' = Pids
  BY <1>1, Facts DEF Pids
<1>4. /\ waiter' \in Seq({"waitpid", "clearing", "done"}) /\ Len(waiter') = n
      /\ \A q \in Pids : q # p => waiter'[q] = waiter[q]
      /\ waiter'[p] = "done"
  <2>1. waiter \in Seq({"waitpid", "clearing", "done"}) /\ Len(waiter) = n
    BY DEF IInv, Children
  <2> QED
    BY <1>1, <1>3, <2>1
<1>5. proc[p].st = "gone" /\ \A q \in Pids : waiter'[q] \in {"clearing", "done"} => proc[q].st = "gone"
  BY <1>1, <1>4 DEF IInv, OneChild
<1>6. Jails'
  BY <1>1, <1>2, <1>3 DEF IInv, Jails
<1>7. Dialogs' /\ StampedOwnRun' /\ StoppedAtEnd'
  BY <1>1, <1>2, <1>3 DEF IInv, Dialogs, End, StampedOwnRun, Alive, StoppedAtEnd
<1>8. CASE attached[p] /\ callback' = 0 /\ pending' = Append(pending, p) /\ broken' = broken
  <2>1. callback = p /\ pending = <<>> /\ shown /\ buttons # "close"
    BY <1>1, <1>3, <1>8 DEF IInv, OneChild
  <2>2. pending' = <<p>>
    BY <1>8, <2>1
  <2>3. Children'
    <3>1. pending' \in Seq(1..n) /\ callback' \in 0..n
      BY <1>3, <1>8, <2>2
    <3> QED
      BY <1>1, <1>4, <1>8, <3>1 DEF IInv, Children
  <2>4. OneChild'
    <3>1. \A q \in Pids : ~(waiter'[q] = "clearing" /\ attached[q])
      BY <1>4, <2>1 DEF IInv, OneChild
    <3>2. Len(pending') <= 1
      BY <2>2
    <3> QED
      BY <1>1, <1>2, <1>3, <1>5, <1>8, <2>1, <3>1, <3>2 DEF OneChild
  <2>5. OwnChild'
    <3>1. \A q \in Pids : Awaited(q)' => q = p
      BY <1>3, <1>8, <2>2 DEF Awaited
    <3>2. cur # End => jail[p].dev = roster[cur] /\ proc[p].sig = "none"
      BY <2>1 DEF IInv, OwnChild, Awaited
    <3> QED
      BY <1>1, <1>2, <1>3, <1>5, <3>1, <3>2 DEF OwnChild, End
  <2> QED
    BY <1>6, <1>7, <2>3, <2>4, <2>5 DEF IInv
<1>9. CASE broken' = TRUE /\ UNCHANGED <<callback, pending>>
  <2>1. Children'
    BY <1>1, <1>4, <1>9 DEF IInv, Children
  <2>2. OneChild'
    BY <1>1, <1>2, <1>3, <1>4, <1>5, <1>9 DEF IInv, OneChild
  <2>3. OwnChild'
    BY <1>1, <1>2, <1>3, <1>9 DEF IInv, OwnChild, Awaited, End
  <2> QED
    BY <1>6, <1>7, <2>1, <2>2, <2>3 DEF IInv
<1> QED
  BY <1>1, <1>8, <1>9

-----------------------------------------------------------------------------
(* The end of a sync, and of the dialog. *)

(* kill reaches only those who are alive, and changes nothing but their
   signal. *)
LEMMA SignalledFacts ==
    ASSUME proc \in Seq(Child), NEW hard
    PROVE  /\ Signalled(hard) \in Seq(Child) /\ Len(Signalled(hard)) = Len(proc)
           /\ \A q \in Pids : /\ Signalled(hard)[q].st = proc[q].st
                              /\ proc[q].st # "alive" => Signalled(hard)[q] = proc[q]
<1> DEFINE sig == IF hard THEN "kill" ELSE "term"
           hit == IF appPid = 0 THEN {p \in Pids : Alive(p)} ELSE {p \in {appPid} : Alive(p)}
           new(q) == IF q \in hit /\ proc[q].sig # "kill" THEN [proc[q] EXCEPT !.sig = sig] ELSE proc[q]
<1>1. Signalled(hard) = [q \in Pids |-> new(q)]
  BY DEF Signalled
<1>2. Pids = 1..Len(proc) /\ Len(proc) \in Nat /\ \A q \in Pids : proc[q] \in Child
  BY DEF Pids
<1>3. \A q \in Pids : /\ new(q) \in Child /\ new(q).st = proc[q].st
                      /\ proc[q].st # "alive" => new(q) = proc[q]
  <2> SUFFICES ASSUME NEW q \in Pids
               PROVE  /\ new(q) \in Child /\ new(q).st = proc[q].st
                      /\ proc[q].st # "alive" => new(q) = proc[q]
    OBVIOUS
  <2>1. q \in hit => proc[q].st = "alive"
    BY DEF Alive
  <2>2. sig \in {"term", "kill"}
    OBVIOUS
  <2> HIDE DEF hit, sig
  <2> QED
    BY <1>2, <2>1, <2>2 DEF Child
<1> HIDE DEF new
<1> QED
  BY <1>1, <1>2, <1>3

(* The answer to a request changes nothing that the invariant looks at. *)
LEMMA RepliedFacts ==
    ASSUME IInv, NEW p, NEW r, NEW choice, Replied(p, r, choice)
    PROVE  /\ List(jail', Len(proc))
           /\ \A q \in Pids : GoodJail(jail'[q], found) /\ jail'[q].dev = jail[q].dev
<1>1. CASE jail' = jail
  BY <1>1, Facts
<1>2. CASE jail' # jail
  <2> DEFINE e == [jail[p] EXCEPT !.reply = r, !.told = choice]
  <2>1. jail' = [jail EXCEPT ![p] = e]
    BY <1>2 DEF Replied
  <2>2. p \in Pids => GoodJail(e, found) /\ e.dev = jail[p].dev
    BY Facts DEF GoodJail, JailFields
  <2> HIDE DEF e
  <2> QED
    BY <2>1, <2>2, Facts, SameList
<1> QED
  BY <1>1, <1>2

(* The rest of a step in which a jail is answered. *)
LEMMA JailsReplied ==
    ASSUME IInv, List(jail', Len(proc)), UNCHANGED <<found, crashes, linked>>, Len(proc') = Len(proc),
           Pids' = Pids,
           \A q \in Pids : GoodJail(jail'[q], found),
           List(toStatus', Len(proc)), List(toConflict', Len(proc)), List(conn', Len(proc))
    PROVE  Jails'
BY Facts DEF Jails

LEMMA KillSyncSignalsStep ==
    ASSUME IInv, KillSyncSignals
    PROVE  IInv'
<1> DEFINE n == Len(proc)
<1>1. /\ shown /\ killing' = TRUE /\ cur' = End /\ next' = End /\ kill' = NotKilling /\ stopped' = TRUE
      /\ UNCHANGED <<waiter, attached, callback, appPid, pending, broken, toStatus, toConflict,
                     linked, found, crashes, shown, roster, buttons, boxes, conn, stamp>>
      /\ proc' \in {proc, Signalled(killing)} /\ stray' \in {stray, stray \/ appPid = 0}
  BY DEF KillSyncSignals, KillSyncJumps, KillApp
<1>2. proc \in Seq(Child) /\ n \in Nat /\ Pids = 1..n
  BY Facts DEF IInv, Children
<1>3. /\ proc' \in Seq(Child) /\ Len(proc') = n
      /\ \A q \in Pids : /\ proc'[q].st = proc[q].st
                         /\ proc[q].st # "alive" => proc'[q] = proc[q]
  BY <1>1, <1>2, SignalledFacts
<1>4. Pids' = Pids
  BY <1>2, <1>3 DEF Pids
<1>5. /\ List(jail', n)
      /\ \A q \in Pids : GoodJail(jail'[q], found) /\ jail'[q].dev = jail[q].dev
  <2>1. CASE kill.by = "conflict"
    <3>1. Replied(kill.jail, Null, Unanswered)
      BY <2>1 DEF KillSyncSignals
    <3> QED
      BY <3>1, RepliedFacts
  <2>2. CASE kill.by # "conflict"
    BY <2>2, Facts DEF KillSyncSignals
  <2> QED
    BY <2>1, <2>2
<1>6. Children'
  <2>1. stray' \in BOOLEAN
    BY <1>1 DEF IInv, Children
  <2> QED
    BY <1>1, <1>3, <2>1 DEF IInv, Children
<1>7. Jails'
  BY <1>1, <1>3, <1>4, <1>5, Facts, JailsReplied
<1>8. End' = End /\ End \in 1..End
  <2>1. roster \in Seq(Devices)
    BY DEF IInv, Dialogs
  <2> QED
    BY <1>1, <2>1 DEF End
<1>9. Dialogs'
  <2>1. kill'.by # "destroy"
    BY <1>1 DEF NotKilling
  <2>2. stamp' = stamp /\ \A d \in Devices : stamp[d] \in 0..n
    BY <1>1 DEF IInv, Dialogs
  <2> QED
    BY <1>1, <1>3, <1>8, <2>1, <2>2 DEF IInv, Dialogs
<1>10. OneChild'
  BY <1>1, <1>3, <1>4 DEF IInv, OneChild
<1>11. OwnChild'
  BY <1>1, <1>3, <1>4, <1>8 DEF IInv, OwnChild, Awaited
<1>12. StampedOwnRun'
  <2> SUFFICES ASSUME NEW d \in Devices, stamp[d] # 0
               PROVE  /\ jail'[stamp[d]].dev = d /\ proc'[stamp[d]].st # "alive"
                      /\ proc'[stamp[d]].sig = "none"
    BY <1>1 DEF StampedOwnRun, Alive
  <2>1. stamp[d] \in Pids
    BY <1>2 DEF IInv, Dialogs
  <2> QED
    BY <1>3, <1>5, <2>1 DEF IInv, StampedOwnRun, Alive
<1>13. StoppedAtEnd'
  BY <1>1, <1>8 DEF StoppedAtEnd
<1> QED
  BY <1>6, <1>7, <1>9, <1>10, <1>11, <1>12, <1>13 DEF IInv

LEMMA DestroyedStep ==
    ASSUME IInv, Destroyed
    PROVE  IInv'
<1> DEFINE n == Len(proc)
           new(q) == IF jail[q].pc = "wait" /\ jail[q].reply = NoReply
                     THEN [jail[q] EXCEPT !.reply = Null] ELSE jail[q]
<1>1. /\ kill.by = "destroy" /\ shown' = FALSE /\ kill' = NotKilling
      /\ callback' = 0 /\ appPid' = 0 /\ pending' = <<>>
      /\ attached' = [q \in Pids |-> attached[q] /\ q # callback]
      /\ linked' = [q \in Pids |-> FALSE] /\ conn' = [q \in Pids |-> NewConn("")]
      /\ toStatus' = [q \in Pids |-> <<>>] /\ toConflict' = [q \in Pids |-> <<>>]
      /\ jail' = [q \in Pids |-> new(q)]
      /\ UNCHANGED <<waiter, broken, found, crashes, roster, next, cur, killing, buttons, boxes,
                     stamp, stopped>>
      /\ proc' \in {proc, Signalled(FALSE)} /\ stray' \in {stray, stray \/ appPid = 0}
  BY DEF Destroyed, DestroyKills, KillApp, ExecDestroyed, Disconnected
<1>0. pending' = <<>> /\ callback' = 0 /\ appPid' = 0
  BY <1>1
<1>2. proc \in Seq(Child) /\ n \in Nat /\ Pids = 1..n
  BY Facts DEF IInv, Children
<1>3. /\ proc' \in Seq(Child) /\ Len(proc') = n
      /\ \A q \in Pids : /\ proc'[q].st = proc[q].st
                         /\ proc[q].st # "alive" => proc'[q] = proc[q]
  BY <1>1, <1>2, SignalledFacts
<1>4. Pids' = Pids
  BY <1>2, <1>3 DEF Pids
<1>5. \A q \in Pids : GoodJail(new(q), found) /\ new(q).dev = jail[q].dev
  BY Facts DEF GoodJail, JailFields
<1> HIDE DEF new
<1>6. List(jail', n) /\ \A q \in Pids : GoodJail(jail'[q], found) /\ jail'[q].dev = jail[q].dev
  BY <1>1, <1>2, <1>5 DEF List
<1>7. List(toStatus', n) /\ List(toConflict', n) /\ List(conn', n)
  BY <1>1, <1>2 DEF List
<1>8. /\ linked' \in Seq(BOOLEAN) /\ Len(linked') = n
      /\ attached' \in Seq(BOOLEAN) /\ Len(attached') = n
  <2>1. linked' \in [1..n -> BOOLEAN] /\ attached' \in [1..n -> BOOLEAN]
    BY <1>1, <1>2
  <2> QED
    BY <1>2, <2>1
<1>9. Children'
  <2>1. stray' \in BOOLEAN
    BY <1>1 DEF IInv, Children
  <2>2. pending' \in Seq(1..n) /\ callback' \in 0..n /\ appPid' \in 0..n
    BY <1>0, <1>2
  <2> QED
    BY <1>1, <1>3, <1>8, <2>1, <2>2 DEF IInv, Children
<1>10. Jails'
  BY <1>1, <1>3, <1>4, <1>6, <1>7, <1>8, Facts DEF Jails
<1>11. Dialogs'
  <2>1. boxes = <<>> /\ roster' = roster /\ End' = End
    BY <1>1, Facts DEF End
  <2> QED
    BY <1>1, <1>3, <2>1 DEF IInv, Dialogs, NotKilling
<1>12. OneChild'
  <2>1. \A q \in Pids : ~(waiter[q] = "clearing" /\ attached'[q])
    BY <1>1 DEF IInv, OneChild
  <2>2. Len(pending') <= 1
    BY <1>0
  <2> QED
    BY <1>1, <1>3, <1>4, <2>1, <2>2 DEF IInv, OneChild
<1>13. OwnChild'
  <2>1. \A q \in Pids : ~Awaited(q)'
    BY <1>0, <1>2 DEF Awaited
  <2> QED
    BY <1>4, <2>1 DEF OwnChild
<1>14. StampedOwnRun'
  <2> SUFFICES ASSUME NEW d \in Devices, stamp[d] # 0
               PROVE  /\ jail'[stamp[d]].dev = d /\ proc'[stamp[d]].st # "alive"
                      /\ proc'[stamp[d]].sig = "none"
    BY <1>1 DEF StampedOwnRun, Alive
  <2>1. stamp[d] \in Pids
    BY <1>2 DEF IInv, Dialogs
  <2> QED
    BY <1>3, <1>6, <2>1 DEF IInv, StampedOwnRun, Alive
<1>15. StoppedAtEnd'
  BY <1>1 DEF IInv, StoppedAtEnd, End
<1> QED
  BY <1>9, <1>10, <1>11, <1>12, <1>13, <1>14, <1>15 DEF IInv

-----------------------------------------------------------------------------
(* The steps of the dialog that leave the children alone. *)

LEMMA TopFacts ==
    ASSUME IInv
    PROVE  /\ Top = Dialog => boxes = <<>>
           /\ Top # Dialog => Front(boxes) \in Seq(Boxes(Len(proc)))
           /\ KillBox # Dialog /\ \A p : ConflictBox(p) # Dialog
<1>1. KillBox # Dialog /\ \A p : ConflictBox(p) # Dialog
  <2>1. Dialog[1] = "dialog" /\ KillBox[1] = "kill" /\ \A p : ConflictBox(p)[1] = "conflict"
    BY DEF Dialog, KillBox, ConflictBox
  <2>2. "dialog" # "kill" /\ "dialog" # "conflict"
    OBVIOUS
  <2> QED
    BY <2>1, <2>2
<1>2. boxes \in Seq(Boxes(Len(proc)))
  BY Facts
<1>3. boxes # <<>> => Last(boxes) \in Boxes(Len(proc))
  BY <1>2 DEF Last
<1>4. Dialog \notin Boxes(Len(proc))
  BY <1>1 DEF Boxes
<1>5. Front(boxes) \in Seq(Boxes(Len(proc))) \/ boxes = <<>>
  BY <1>2 DEF Front
<1> QED
  BY <1>1, <1>3, <1>4, <1>5 DEF Top

(* Nothing but what is shown and what is killed changes. *)
LEMMA DialogStepOnly ==
    ASSUME IInv, UNCHANGED <<execVars, jailVars, conn, shown, roster, next, cur, killing, buttons, stamp, stopped>>,
           boxes' \in Seq(Boxes(Len(proc))), shown, kill'.by = "destroy" => boxes' = <<>>
    PROVE  IInv'
<1>1. UNCHANGED <<jail, toStatus, toConflict, linked, found, crashes, proc>>
  BY DEF jailVars, execVars
<1>2. Jails' /\ \A q \in Pids : jail'[q].dev = jail[q].dev
  BY <1>1, Facts, JailsSame DEF IInv
<1> QED
  BY <1>2, FrameStep

LEMMA OnKillCloseStep ==
    ASSUME IInv, OnKillClose
    PROVE  IInv'
<1>1. /\ UNCHANGED <<execVars, jailVars, conn, shown, roster, next, cur, killing, buttons, stamp, stopped>>
      /\ shown /\ Top = Dialog
  BY DEF OnKillClose, Loop
<1>2. boxes = <<>>
  BY <1>1, TopFacts
<1>3. boxes' \in Seq(Boxes(Len(proc))) /\ (kill'.by = "destroy" => boxes' = <<>>)
  <2>1. CASE IsAppRunning
    <3>1. boxes' = Append(boxes, KillBox) /\ kill' = kill /\ kill = NotKilling
      BY <2>1 DEF OnKillClose, Loop
    <3>2. KillBox \in Boxes(Len(proc))
      BY DEF Boxes
    <3> QED
      BY <3>1, <3>2, Facts DEF NotKilling
  <2>2. CASE ~IsAppRunning
    BY <1>2, <2>2, Facts DEF OnKillClose
  <2> QED
    BY <2>1, <2>2
<1> QED
  BY <1>1, <1>3, DialogStepOnly

LEMMA KillAnsweredStep ==
    ASSUME IInv, KillAnswered
    PROVE  IInv'
<1>1. /\ UNCHANGED <<execVars, jailVars, conn, shown, roster, next, cur, killing, buttons, stamp, stopped>>
      /\ shown /\ Top = KillBox /\ boxes' = Front(boxes) /\ kill = NotKilling
  BY DEF KillAnswered, Loop
<1>2. boxes' \in Seq(Boxes(Len(proc)))
  BY <1>1, TopFacts
<1>3. kill'.by # "destroy"
  BY <1>1 DEF KillAnswered, KillSync, NotKilling
<1> QED
  BY <1>1, <1>2, <1>3, DialogStepOnly

LEMMA WindowClosedStep ==
    ASSUME IInv, WindowClosed
    PROVE  IInv'
<1>1. /\ UNCHANGED <<execVars, jailVars, conn, shown, roster, next, cur, killing, buttons, stamp, stopped, boxes>>
      /\ shown /\ Top = Dialog
  BY DEF WindowClosed, Loop
<1>2. boxes' = <<>> /\ boxes' \in Seq(Boxes(Len(proc)))
  BY <1>1, TopFacts, Facts
<1> QED
  BY <1>1, <1>2, DialogStepOnly

(* Messages and connections change, but no jail. *)
LEMMA MessageStep ==
    ASSUME IInv, UNCHANGED <<execVars, jail, linked, found, crashes, shown, roster, next, cur, killing,
                             buttons, stamp, stopped>>,
           List(toStatus', Len(proc)), List(toConflict', Len(proc)), List(conn', Len(proc)),
           boxes' \in Seq(Boxes(Len(proc))), shown, kill'.by = "destroy" => boxes' = <<>>
    PROVE  IInv'
<1>1. proc' = proc
  BY DEF execVars
<1>2. Jails' /\ \A q \in Pids : jail'[q].dev = jail[q].dev
  BY <1>1, JailsSame DEF IInv
<1> QED
  BY <1>2, FrameStep

LEMMA StatusOnPokeStep ==
    ASSUME IInv, NEW p \in Pids, StatusOnPoke(p)
    PROVE  IInv'
<1>1. /\ UNCHANGED <<execVars, jail, linked, found, crashes, shown, roster, next, cur, killing, buttons,
                     stamp, stopped, toConflict, conn, boxes>>
      /\ shown /\ toStatus' = [toStatus EXCEPT ![p] = Tail(@)] /\ kill'.by = "slow"
  BY DEF StatusOnPoke, Loop, KillSync
<1>2. List(toStatus', Len(proc)) /\ List(toConflict', Len(proc)) /\ List(conn', Len(proc))
      /\ boxes' \in Seq(Boxes(Len(proc)))
  BY <1>1, Facts, SameList
<1> QED
  BY <1>1, <1>2, MessageStep

LEMMA ConflictOnPokeStep ==
    ASSUME IInv, NEW p \in Pids, ConflictOnPoke(p)
    PROVE  IInv'
<1>1. /\ UNCHANGED <<execVars, jail, linked, found, crashes, shown, roster, next, cur, killing, buttons,
                     stamp, stopped, toStatus, kill, boxes>>
      /\ shown /\ kill = NotKilling
      /\ toConflict' = [toConflict EXCEPT ![p] = Tail(@)]
  BY DEF ConflictOnPoke, Loop
<1>2. PICK y : conn' = [conn EXCEPT ![p] = y]
  BY Zenon DEF ConflictOnPoke
<1>3. List(toStatus', Len(proc)) /\ List(toConflict', Len(proc)) /\ List(conn', Len(proc))
      /\ boxes' \in Seq(Boxes(Len(proc)))
  BY <1>1, <1>2, Facts, SameList
<1>4. kill'.by # "destroy"
  BY <1>1 DEF NotKilling
<1> QED
  BY <1>1, <1>3, <1>4, MessageStep

(* A jail is answered. *)
LEMMA ReplyStep ==
    ASSUME IInv, UNCHANGED <<execVars, linked, found, crashes, shown, roster, next, cur, killing,
                             buttons, stamp, stopped>>,
           List(jail', Len(proc)),
           \A q \in Pids : GoodJail(jail'[q], found) /\ jail'[q].dev = jail[q].dev,
           List(toStatus', Len(proc)), List(toConflict', Len(proc)), List(conn', Len(proc)),
           boxes' \in Seq(Boxes(Len(proc))), shown, kill'.by = "destroy" => boxes' = <<>>
    PROVE  IInv'
<1>1. proc' = proc /\ Pids' = Pids
  BY DEF execVars, Pids
<1>2. Jails'
  BY <1>1, JailsReplied
<1> QED
  BY <1>2, FrameStep

LEMMA OnRequestStep ==
    ASSUME IInv, NEW p \in Pids, OnRequest(p)
    PROVE  IInv'
<1>1. /\ UNCHANGED <<execVars, linked, found, crashes, shown, roster, next, cur, killing, buttons,
                     stamp, stopped, toStatus, kill>>
      /\ shown /\ kill = NotKilling
      /\ toConflict' = [toConflict EXCEPT ![p] = <<>>]
  BY DEF OnRequest, Loop
<1>2. List(toStatus', Len(proc)) /\ List(toConflict', Len(proc))
  BY <1>1, Facts, SameList
<1>3. kill'.by # "destroy"
  BY <1>1 DEF NotKilling
<1>4. \/ /\ \E r, choice : Replied(p, r, choice)
         /\ conn' = conn \/ \E y : conn' = [conn EXCEPT ![p] = y]
         /\ boxes' = boxes
      \/ /\ jail' = jail /\ \E y : conn' = [conn EXCEPT ![p] = y]
         /\ boxes' = Append(boxes, ConflictBox(p))
  BY Zenon DEF OnRequest, NullReply
<1>5. List(conn', Len(proc))
  <2>1. CASE conn' = conn
    BY <2>1, Facts
  <2>2. CASE \E y : conn' = [conn EXCEPT ![p] = y]
    <3>1. PICK y : conn' = [conn EXCEPT ![p] = y]
      BY <2>2
    <3> QED
      BY <3>1, Facts, SameList
  <2> QED
    BY <1>4, <2>1, <2>2
<1>6. List(jail', Len(proc)) /\ \A q \in Pids : GoodJail(jail'[q], found) /\ jail'[q].dev = jail[q].dev
  <2>1. CASE \E r, choice : Replied(p, r, choice)
    BY <2>1, RepliedFacts
  <2>2. CASE jail' = jail
    BY <2>2, Facts
  <2> QED
    BY <1>4, <2>1, <2>2
<1>7. boxes' \in Seq(Boxes(Len(proc)))
  <2>1. ConflictBox(p) \in Boxes(Len(proc))
    BY Facts DEF Boxes
  <2>2. boxes \in Seq(Boxes(Len(proc))) /\ (boxes' = boxes \/ boxes' = Append(boxes, ConflictBox(p)))
    BY <1>4, Facts
  <2> QED
    BY <2>1, <2>2
<1> QED
  BY <1>1, <1>2, <1>3, <1>5, <1>6, <1>7, ReplyStep

LEMMA ConflictAnsweredStep ==
    ASSUME IInv, NEW p \in Pids, ConflictAnswered(p)
    PROVE  IInv'
<1>1. /\ UNCHANGED <<execVars, linked, found, crashes, shown, roster, next, cur, killing, buttons,
                     stamp, stopped, toStatus, toConflict, kill>>
      /\ shown /\ kill = NotKilling /\ Top = ConflictBox(p) /\ boxes' = Front(boxes)
  BY DEF ConflictAnswered, Loop
<1>2. PICK y, r, choice : conn' = [conn EXCEPT ![p] = y] /\ Replied(p, r, choice)
  BY Zenon DEF ConflictAnswered
<1>3. List(toStatus', Len(proc)) /\ List(toConflict', Len(proc)) /\ List(conn', Len(proc))
  BY <1>1, <1>2, Facts, SameList
<1>4. List(jail', Len(proc)) /\ \A q \in Pids : GoodJail(jail'[q], found) /\ jail'[q].dev = jail[q].dev
  BY <1>2, RepliedFacts
<1>5. boxes' \in Seq(Boxes(Len(proc)))
  BY <1>1, TopFacts
<1>6. kill'.by # "destroy"
  BY <1>1 DEF NotKilling
<1> QED
  BY <1>1, <1>3, <1>4, <1>5, <1>6, ReplyStep

LEMMA ConflictKilledStep ==
    ASSUME IInv, NEW p \in Pids, ConflictKilled(p)
    PROVE  IInv'
<1>1. /\ UNCHANGED <<execVars, jail, linked, found, crashes, shown, roster, next, cur, killing, buttons,
                     stamp, stopped, toStatus, toConflict>>
      /\ shown /\ Top = ConflictBox(p) /\ boxes' = Front(boxes) /\ kill'.by = "conflict"
  BY DEF ConflictKilled, Loop, KillSync, jailVars
<1>2. PICK y : conn' = [conn EXCEPT ![p] = y]
  BY Zenon DEF ConflictKilled
<1>3. List(toStatus', Len(proc)) /\ List(toConflict', Len(proc)) /\ List(conn', Len(proc))
  BY <1>1, <1>2, Facts, SameList
<1>4. boxes' \in Seq(Boxes(Len(proc)))
  BY <1>1, TopFacts
<1> QED
  BY <1>1, <1>3, <1>4, MessageStep

LEMMA ConnectStep ==
    ASSUME IInv, NEW p \in Pids, Connect(p)
    PROVE  IInv'
<1>1. UNCHANGED <<execVars, toStatus, toConflict, found, crashes, shown, roster, next, cur, killing,
                  buttons, boxes, kill, stamp, stopped>>
  BY DEF Connect
<1>2. PICK w \in {"sync", "exit"} : jail' = [jail EXCEPT ![p].pc = w]
  BY Zenon DEF Connect
<1>3. /\ conn' = conn \/ \E y : conn' = [conn EXCEPT ![p] = y]
      /\ linked' = linked \/ linked' = [linked EXCEPT ![p] = TRUE]
  BY Zenon DEF Connect
<1> DEFINE e == [jail[p] EXCEPT !.pc = w]
<1>4. jail' = [jail EXCEPT ![p] = e]
  BY <1>2
<1>5. GoodJail(e, found) /\ e.dev = jail[p].dev
  BY Facts DEF GoodJail, JailFields
<1> HIDE DEF e
<1>6. List(conn', Len(proc)) /\ List(toStatus', Len(proc)) /\ List(toConflict', Len(proc))
  <2>1. CASE conn' = conn
    BY <1>1, <2>1, Facts
  <2>2. CASE \E y : conn' = [conn EXCEPT ![p] = y]
    <3>1. PICK y : conn' = [conn EXCEPT ![p] = y]
      BY <2>2
    <3> QED
      BY <1>1, <3>1, Facts, SameList
  <2> QED
    BY <1>3, <2>1, <2>2
<1>7. linked' \in Seq(BOOLEAN) /\ Len(linked') = Len(proc)
  <2>1. linked \in Seq(BOOLEAN) /\ Len(linked) = Len(proc)
    BY Facts
  <2>2. CASE linked' = linked
    BY <2>1, <2>2
  <2>3. CASE linked' = [linked EXCEPT ![p] = TRUE]
    <3>1. linked \in [1..Len(proc) -> BOOLEAN] /\ Len(proc) \in Nat
      BY <2>1, Facts
    <3>2. linked' \in [1..Len(proc) -> BOOLEAN]
      BY <2>3, <3>1
    <3> QED
      BY <3>1, <3>2
  <2> QED
    BY <1>3, <2>2, <2>3
<1>8. GoodJail(e, found') /\ found' >= found /\ found' \in 0..MaxConflicts /\ crashes' \in 0..MaxCrashes
      /\ proc' = proc /\ Children /\ Jails
  BY <1>1, <1>5, Facts DEF execVars, IInv
<1>9. Jails' /\ \A q \in Pids : jail'[q].dev = jail[q].dev
  BY <1>4, <1>5, <1>6, <1>7, <1>8, JailChanged
<1> QED
  BY <1>1, <1>9, Facts, FrameStep

-----------------------------------------------------------------------------
(* The theorems. *)

LEMMA InitInv == Init => IInv
<1> SUFFICES ASSUME Init PROVE IInv
  OBVIOUS
<1>1. /\ proc = <<>> /\ waiter = <<>> /\ attached = <<>> /\ callback = 0 /\ appPid = 0
      /\ pending = <<>> /\ stray = FALSE /\ broken = FALSE
  BY DEF Init, ExecInit
<1>2. /\ jail = <<>> /\ toStatus = <<>> /\ toConflict = <<>> /\ linked = <<>> /\ conn = <<>>
      /\ found = 0 /\ crashes = 0
  BY DEF Init, JailInit
<1>3. /\ shown = FALSE /\ roster = <<>> /\ next = 1 /\ cur = 1 /\ killing = FALSE
      /\ buttons = "close" /\ boxes = <<>> /\ kill = NotKilling /\ stopped = FALSE
      /\ stamp = [d \in Devices |-> 0]
  BY DEF Init
<1>4. Len(proc) = 0 /\ Pids = {} /\ End = 1
  BY <1>1, <1>3 DEF Pids, End
<1>5. Children
  <2>1. proc \in Seq(Child) /\ Len(proc) <= MaxRuns
    BY <1>1, <1>4, ExecAssumption
  <2>2. /\ waiter \in Seq({"waitpid", "clearing", "done"}) /\ Len(waiter) = 0
        /\ attached \in Seq(BOOLEAN) /\ Len(attached) = 0
        /\ callback \in 0..0 /\ appPid \in 0..0 /\ pending \in Seq(1..0)
    BY <1>1
  <2> QED
    BY <1>1, <1>4, <2>1, <2>2 DEF Children
<1>6. Jails
  <2>1. List(<<>>, 0)
    BY DEF List
  <2> QED
    BY <1>2, <1>4, <2>1, JailAssumption DEF Jails
<1>7. Dialogs
  <2>1. roster \in Seq(Devices) /\ boxes \in Seq(Boxes(Len(proc)))
    BY <1>3
  <2>2. \A d \in Devices : stamp[d] \in 0..Len(proc)
    BY <1>3, <1>4
  <2>3. kill.by # "destroy"
    BY <1>3 DEF NotKilling
  <2>4. next \in 1..End /\ cur \in 1..End
    BY <1>3, <1>4
  <2>5. shown \in BOOLEAN /\ killing \in BOOLEAN /\ stopped \in BOOLEAN
        /\ buttons \in {"running", "close"} /\ boxes = <<>> /\ kill = NotKilling
    BY <1>3
  <2> QED
    BY <2>1, <2>2, <2>3, <2>4, <2>5, Zenon DEF Dialogs
<1>8. OneChild /\ OwnChild
  <2>1. Len(pending) <= 1
    BY <1>1
  <2> QED
    BY <1>1, <1>4, <2>1 DEF OneChild, OwnChild
<1>9. StampedOwnRun
  BY <1>3 DEF StampedOwnRun
<1>10. StoppedAtEnd
  BY <1>3 DEF StoppedAtEnd
<1> QED
  BY <1>5, <1>6, <1>7, <1>8, <1>9, <1>10 DEF IInv

LEMMA JailStepInv ==
    ASSUME IInv, NEW p \in Pids, JailStep(p)
    PROVE  IInv'
<1>1. UNCHANGED dlgVars
  BY DEF JailStep
<1>2. ASSUME JailExits(p) \/ JailKilled(p) \/ JailCrashes(p)
      PROVE  IInv'
  <2>1. JailEnds(p)
    BY <1>2 DEF JailExits, JailKilled, JailCrashes
  <2>2. crashes' \in 0..MaxCrashes
    <3>1. crashes \in 0..MaxCrashes /\ MaxCrashes \in Nat
      BY Facts, JailAssumption
    <3> QED
      BY <1>2, <3>1 DEF JailExits, JailKilled, JailCrashes
  <2> QED
    BY <1>1, <2>1, <2>2, JailEndsStep
<1> QED
  BY <1>1, <1>2, EngineStatusStep, HandleConflictStep, AnsweredStep DEF JailStep

LEMMA StepInv == IInv /\ [Next]_vars => IInv'
<1> SUFFICES ASSUME IInv, [Next]_vars PROVE IInv'
  OBVIOUS
<1>1. CASE DialogStep
  BY <1>1, SyncNowStep, SyncAgainStep, ExecTerminatedStep, OnKillCloseStep, WindowClosedStep,
     KillSyncSignalsStep, DestroyedStep, KillAnsweredStep, ConflictAnsweredStep,
     ConflictKilledStep, ConnectStep, StatusOnPokeStep, ConflictOnPokeStep, OnRequestStep
     DEF DialogStep, AnswersBox, ReadsConflict
<1>2. ASSUME NEW p \in Pids, JailStep(p)
      PROVE  IInv'
  BY <1>2, JailStepInv
<1>3. ASSUME NEW p \in Pids, WaitThread(p)
      PROVE  IInv'
  BY <1>3, OnTerminateStep, OnTerminateSignalStep DEF WaitThread
<1>4. CASE UNCHANGED vars
  <2>1. UNCHANGED <<execVars, jailVars, dlgVars>>
    BY <1>4 DEF vars
  <2>2. UNCHANGED <<jail, linked, found, crashes, shown, roster, next, cur, killing, buttons,
                    stamp, stopped, toStatus, toConflict, conn, boxes, kill, proc>>
    BY <2>1 DEF jailVars, dlgVars, execVars
  <2>3. Jails' /\ \A q \in Pids : jail'[q].dev = jail[q].dev
    BY <2>2, Facts, JailsSame DEF IInv
  <2> QED
    BY <2>1, <2>2, <2>3, Facts, FrameStep
<1> QED
  BY <1>1, <1>2, <1>3, <1>4 DEF Next

LEMMA Inductive == Spec => []IInv
BY InitInv, StepInv, PTL DEF Spec

(* Every variable of the dialog, the jails and the child processes keeps its
   type, for any roster and any number of dialogs: what is kept per child is
   kept for exactly the children that were started, and a dialog that is gone
   shows nothing (SyncStatusDlg.cc, exechelper.cc). *)
THEOREM TypeCorrect == Spec => []TypeOK
<1>1. IInv => TypeOK
  <2> SUFFICES ASSUME IInv PROVE TypeOK
    OBVIOUS
  <2>1. proc \in Seq(Child) /\ Pids = 1..Len(proc) /\ Len(proc) \in Nat
    BY Facts DEF IInv, Children
  <2>2. ExecTypeOK
    <3>1. \A p \in Pids : /\ proc[p].st \in {"alive", "zombie", "gone"}
                          /\ proc[p].sig \in {"none", "term", "kill"}
      <4> TAKE p \in Pids
      <4>1. proc[p] \in Child
        BY <2>1
      <4> QED
        BY <4>1 DEF Child
    <3>2. DOMAIN waiter = Pids /\ \A p \in Pids : waiter[p] \in {"waitpid", "clearing", "done"}
      BY <2>1 DEF IInv, Children
    <3>3. DOMAIN attached = Pids /\ \A p \in Pids : attached[p] \in BOOLEAN
      BY <2>1 DEF IInv, Children
    <3>4. callback \in Pids \cup {0} /\ appPid \in Pids \cup {0} /\ pending \in Seq(Pids)
          /\ stray \in BOOLEAN /\ broken \in BOOLEAN /\ Len(proc) <= MaxRuns
      BY <2>1 DEF IInv, Children
    <3> QED
      BY <3>1, <3>2, <3>3, <3>4 DEF ExecTypeOK
  <2>3. JailTypeOK /\ DOMAIN conn = Pids
    <3>1. /\ DOMAIN jail = Pids /\ DOMAIN toStatus = Pids /\ DOMAIN toConflict = Pids
          /\ DOMAIN conn = Pids
      BY <2>1, Facts, ListFacts
    <3>2. DOMAIN linked = Pids /\ \A p \in Pids : linked[p] \in BOOLEAN
      BY <2>1, Facts
    <3>3. found \in 0..MaxConflicts /\ crashes \in 0..MaxCrashes
      BY Facts
    <3>4. \A p \in Pids : /\ jail[p].dev \in Devices
                          /\ jail[p].pc \in {"connect", "sync", "wait", "exit"}
                          /\ jail[p].seq \in 0..MaxConflicts
                          /\ jail[p].conflict \in Conflicts \cup {NoConflict}
      <4> TAKE p \in Pids
      <4>1. GoodJail(jail[p], found) /\ found \in 0..MaxConflicts /\ MaxConflicts \in Nat
        BY Facts, JailAssumption
      <4> QED
        BY <4>1 DEF GoodJail
    <3> QED
      BY <3>1, <3>2, <3>3, <3>4 DEF JailTypeOK
  <2>4. \A i \in DOMAIN boxes : boxes[i] = KillBox \/ boxes[i] \in {ConflictBox(p) : p \in Pids}
    BY <2>1, Facts DEF Boxes
  <2>5. \A d \in Devices : stamp[d] \in Pids \cup {0}
    BY <2>1 DEF IInv, Dialogs
  <2> QED
    BY <2>2, <2>3, <2>4, <2>5 DEF TypeOK, IInv, Dialogs
<1> QED
  BY <1>1, Inductive, PTL

(* A device's last sync time is set by the end of its own jail, one that
   nobody told to die, however the ends of jails, kills and new syncs
   interleave (UpdateLastSyncTime, SyncStatusDlg.cc:451). *)
THEOREM StampsAreOwn == Spec => []StampedOwnRun
<1>1. IInv => StampedOwnRun
  BY DEF IInv
<1> QED
  BY <1>1, Inductive, PTL

(* No step starts a child. *)
LEMMA StepStarts ==
    ASSUME IInv, [Next]_vars, stopped, stopped'
    PROVE  Len(proc') = Len(proc)
<1>1. CASE OnExecTerminated
  <2>1. roster \in Seq(Devices) /\ next = Len(roster) + 1 /\ Len(roster) \in Nat
    BY DEF IInv, Dialogs, StoppedAtEnd, End
  <2>2. StartNextSync(roster, next) /\ next \in 1..(Len(roster) + 1)
    BY <1>1, <2>1 DEF OnExecTerminated
  <2>3. PICK k \in next..(Len(roster) + 1) : Rests(roster, k) \/ Launches(roster, k)
    BY <2>1, <2>2, StartsAt
  <2>4. ~Launches(roster, k)
    <3>1. ~(k <= Len(roster))
      BY <2>1
    <3> QED
      BY <3>1 DEF Launches
  <2> QED
    BY <2>3, <2>4 DEF Rests, Skipped
<1>2. CASE OnSyncNow \/ OnSyncAgain
  BY <1>2 DEF OnSyncNow, OnSyncAgain
<1>3. CASE KillSyncSignals
  <2>1. proc' \in {proc, Signalled(killing)} /\ proc \in Seq(Child)
    BY <1>3 DEF KillSyncSignals, KillApp, IInv, Children
  <2> QED
    BY <2>1, SignalledFacts
<1>4. CASE Destroyed
  <2>1. proc' \in {proc, Signalled(FALSE)} /\ proc \in Seq(Child)
    BY <1>4 DEF Destroyed, DestroyKills, KillApp, IInv, Children
  <2> QED
    BY <2>1, SignalledFacts
<1>5. ASSUME NEW p \in Pids, JailStep(p) \/ WaitThread(p)
      PROVE  Len(proc') = Len(proc)
  <2>1. proc \in Seq(Child) /\ p \in 1..Len(proc)
    BY Facts DEF IInv, Children
  <2>2. proc' = proc \/ \E w : proc' = [proc EXCEPT ![p] = w]
    BY <1>5 DEF JailStep, WaitThread, EngineStatus, HandleConflict, Answered, JailExits, JailKilled,
                JailCrashes, JailEnds, Ends, OnTerminate, OnTerminateSignal, execVars
  <2> QED
    BY <2>1, <2>2
<1>6. CASE OnKillClose \/ WindowClosed \/ AnswersBox \/ UNCHANGED vars
           \/ \E p \in Pids : Connect(p) \/ StatusOnPoke(p) \/ ReadsConflict(p)
  BY <1>6 DEF OnKillClose, WindowClosed, AnswersBox, KillAnswered, ConflictAnswered, ConflictKilled,
              Connect, StatusOnPoke, ReadsConflict, ConflictOnPoke, OnRequest, execVars, vars
<1> QED
  BY <1>1, <1>2, <1>3, <1>4, <1>5, <1>6 DEF Next, DialogStep

(* Once the roster was stopped, no jail is started until the user asks for a
   sync again, whatever ends or arrives late (KillSync, SyncStatusDlg.cc:469). *)
THEOREM NothingStartsAfterStop == Spec => RosterStopped
<1>1. IInv /\ [Next]_vars => [stopped /\ stopped' => Len(proc') = Len(proc)]_vars
  BY StepStarts
<1> QED
  BY <1>1, Inductive, PTL DEF Spec, RosterStopped

-----------------------------------------------------------------------------
(* A conflict on its way to the user and back.  The second invariant speaks
   of a jail that lives and that the dialog waits for. *)

Served(p) == Alive(p) /\ attached[p]

(* What the jail j writes about its conflict: N(j) + 2 messages. *)
N(j) == Cardinality(Known(j.conflict))
Changes(j) == AppendChanges(j.conflict)
Message(j, m) ==
    IF m = 1 THEN <<"Start", j.seq, N(j), Supported(j.dev, j.conflict)>>
    ELSE IF m = N(j) + 2 THEN <<"Answer">>
    ELSE <<"Change", j.seq, m - 1, Changes(j)[m - 1]>>

(* What a connection c knows that has read m of them. *)
Knows(j, c, m) ==
    IF N(j) < 2 THEN c.seq = -1
    ELSE /\ c.seq = j.seq /\ c.offset = m - 1 /\ c.expected = N(j)
         /\ c.supported = Supported(j.dev, j.conflict)
         /\ List(c.changes, m - 1)
         /\ \A i \in 1..m - 1 : c.changes[i] = Changes(j)[i]

(* The messages w are those that follow the first m. *)
Rest(j, w, m) ==
    /\ m \in 0..N(j) + 1
    /\ List(w, N(j) + 2 - m)
    /\ \A i \in 1..N(j) + 2 - m : w[i] = Message(j, m + i)

(* Where the boxes of a jail are, and that its request ends with the sync. *)
Asks(p) == {i \in DOMAIN boxes : boxes[i] = ConflictBox(p)}
Ending(p) == kill.by = "conflict" /\ kill.jail = p

(* Nothing about a conflict is under way, a conflict is being read, the user
   is asked about it, or has answered with a kill. *)
Idle(p) == toConflict[p] = <<>> /\ Asks(p) = {} /\ ~Ending(p)
Reading(p) ==
    /\ Asks(p) = {} /\ ~Ending(p)
    /\ \E m \in Nat : /\ Rest(jail[p], toConflict[p], m)
                      /\ m > 0 /\ ~conn[p].asking => Knows(jail[p], conn[p], m)
Asking(p) ==
    /\ toConflict[p] = <<>> /\ ~Ending(p) /\ (\E i \in Nat : Asks(p) = {i})
    /\ N(jail[p]) >= 2 /\ Knows(jail[p], conn[p], N(jail[p]) + 1)
KilledBy(p) == toConflict[p] = <<>> /\ Asks(p) = {} /\ Ending(p)

(* What ResolvedAsAnswered says of the jail p. *)
AsAnswered(p) ==
    /\ jail[p].told.by \in {"user", "favour"} => Resolve(p) = jail[p].told.what
    /\ Resolve(p)[1] \in {"lost", "refused"} => MayStayUnresolved(p)

ConnFields == {"asking", "seq", "offset", "expected", "supported", "changes", "always"}
Talk(p) ==
    /\ DOMAIN conn[p] = ConnFields
    /\ conn[p].asking /\ cur # End => Asks(p) # {}
    /\ jail[p].pc \in {"connect", "sync"} => Idle(p)
    /\ jail[p].pc = "wait" /\ jail[p].reply = NoReply => Reading(p) \/ Asking(p) \/ KilledBy(p)
    /\ jail[p].pc = "wait" /\ jail[p].reply # NoReply => Idle(p) /\ AsAnswered(p)

(* How the dialog stands to that jail. *)
Attends(p) ==
    /\ callback = p /\ appPid = p /\ shown
    /\ cur = End => proc[p].sig # "none"
    /\ kill # NotKilling => kill.running
    /\ jail[p].pc \in {"connect", "sync", "wait"}
    /\ jail[p].pc = "connect" \/ linked[p]

Serving == \A p \in Pids : Served(p) => Attends(p) /\ Talk(p)

-----------------------------------------------------------------------------
(* The changes that are known, each with its place. *)

(* What Known, Place and AppendChanges are for an engine's list of changes. *)
LEMMA KnownFacts ==
    ASSUME NEW c \in Conflicts \cup {NoConflict}
    PROVE  /\ Known(c) \subseteq Nat /\ IsFiniteSet(Known(c)) /\ Cardinality(Known(c)) \in Nat
           /\ \E n \in Nat : Known(c) \subseteq 1..n
<1>1. PICK n \in Nat : DOMAIN c.map = 1..n
  <2>1. CASE c = NoConflict
    BY <2>1 DEF NoConflict
  <2>2. CASE c \in Conflicts
    <3>1. c.map \in Seq([known : BOOLEAN, plugin : STRING])
      BY <2>2, JailAssumption
    <3> QED
      BY <3>1
  <2> QED
    BY <2>1, <2>2
<1>2. Known(c) \subseteq 1..n
  BY <1>1 DEF Known
<1>3. IsFiniteSet(1..n)
  BY FS_Interval
<1>4. IsFiniteSet(Known(c))
  BY <1>2, <1>3, FS_Subset
<1>5. Cardinality(Known(c)) \in Nat
  BY <1>4, FS_CardinalityType
<1> QED
  BY <1>2, <1>4, <1>5

(* How many members of S are at most i. *)
UpTo(S, i) == {j \in S : j <= i}

LEMMA UpToGrows ==
    ASSUME NEW S, S \subseteq Nat, IsFiniteSet(S), NEW i \in Nat, i # 0
    PROVE  /\ IsFiniteSet(UpTo(S, i)) /\ Cardinality(UpTo(S, i)) \in Nat
           /\ Cardinality(UpTo(S, i - 1)) \in Nat
           /\ i \in S => Cardinality(UpTo(S, i)) = Cardinality(UpTo(S, i - 1)) + 1
           /\ i \notin S => Cardinality(UpTo(S, i)) = Cardinality(UpTo(S, i - 1))
<1> DEFINE A == UpTo(S, i)
           B == UpTo(S, i - 1)
<1>1. A \subseteq S /\ B \subseteq S
  BY DEF UpTo
<1>2. IsFiniteSet(A) /\ IsFiniteSet(B)
  BY <1>1, FS_Subset
<1>0. \A j \in S : j \in Nat /\ (j <= i <=> j <= i - 1 \/ j = i)
  OBVIOUS
<1>3. i \in S => A = B \cup {i} /\ i \notin B
  <2>1. ~(i <= i - 1)
    OBVIOUS
  <2> QED
    BY <1>0, <2>1, Zenon DEF UpTo
<1>4. i \notin S => A = B
  BY <1>0, Zenon DEF UpTo
<1> HIDE DEF A, B
<1>5. Cardinality(A) \in Nat /\ Cardinality(B) \in Nat
  BY <1>2, FS_CardinalityType
<1>6. i \notin B => Cardinality(B \cup {i}) = Cardinality(B) + 1
  BY <1>2, FS_AddElement
<1>7. i \in S => Cardinality(A) = Cardinality(B) + 1
  BY <1>3, <1>6
<1> QED
  BY <1>2, <1>4, <1>5, <1>7 DEF A, B

(* The k-th member of a finite set of numbers exists. *)
LEMMA NthExists ==
    ASSUME NEW S, NEW n \in Nat, S \subseteq 1..n, IsFiniteSet(S), NEW k \in 1..Cardinality(S)
    PROVE  \E i \in S : Cardinality(UpTo(S, i)) = k
<1> DEFINE W == {i \in 0..n : Cardinality(UpTo(S, i)) >= k}
<1>1. UpTo(S, n) = S /\ UpTo(S, 0) = {} /\ S \subseteq Nat
  <2>1. \A j \in S : j \in Nat /\ j <= n /\ ~(j <= 0)
    OBVIOUS
  <2> QED
    BY <2>1, Zenon DEF UpTo
<1>2. Cardinality(S) \in Nat /\ k \in Nat /\ k >= 1
  BY FS_CardinalityType
<1>3. n \in W
  BY <1>1, <1>2
<1>4. W \in SUBSET Nat /\ W # {}
  BY <1>3
<1>5. PICK m \in W : \A y \in W : m <= y
  <2> HIDE DEF W
  <2>1. PICK x \in W : \A y \in W : ~(<<y, x>> \in OpToRel(<, Nat))
    BY <1>4, NatLessThanWellFounded, WFMin
  <2>2. \A y \in W : x <= y
    <3> TAKE y \in W
    <3>1. x \in Nat /\ y \in Nat
      BY <1>4
    <3>2. ~(y < x)
      BY <2>1, <3>1 DEF OpToRel
    <3> QED
      BY <3>1, <3>2
  <2> QED
    BY <2>2
<1>6. m # 0
  <2>1. Cardinality(UpTo(S, 0)) = 0
    BY <1>1, FS_EmptySet
  <2> QED
    BY <1>2, <2>1
<1>7. m \in Nat /\ m - 1 \in 0..n /\ m - 1 \notin W /\ Cardinality(UpTo(S, m)) >= k
  BY <1>5, <1>6
<1>8. PICK a, b : a = Cardinality(UpTo(S, m)) /\ b = Cardinality(UpTo(S, m - 1))
  OBVIOUS
<1>9. /\ a \in Nat /\ b \in Nat
      /\ m \in S => a = b + 1
      /\ m \notin S => a = b
  BY <1>1, <1>6, <1>7, <1>8, UpToGrows
<1>10. b < k /\ a >= k
  BY <1>2, <1>7, <1>8, <1>9
<1>11. m \in S /\ a = k
  BY <1>2, <1>9, <1>10
<1> QED
  BY <1>8, <1>11

(* What AppendChanges returns: each change is the one that Select finds
   under the number it has (os22.cc, os40.cc). *)
LEMMA ChangesFacts ==
    ASSUME NEW j, j.conflict \in Conflicts \cup {NoConflict}
    PROVE  /\ N(j) \in Nat /\ DOMAIN Changes(j) = 1..N(j) /\ Len(Changes(j)) = N(j)
           /\ \A i \in 1..N(j) : Changes(j)[i].plugin = Selected(j.conflict, Changes(j)[i].id)
<1> DEFINE c == j.conflict
<1>1. Known(c) \subseteq Nat /\ N(j) \in Nat
  BY KnownFacts DEF N
<1>2. Changes(j) = [k \in 1..N(j) |-> [id |-> Place(c, k) - 1, plugin |-> c.map[Place(c, k)].plugin]]
  BY DEF Changes, AppendChanges, N
<1>3. DOMAIN Changes(j) = 1..N(j) /\ Len(Changes(j)) = N(j)
  BY <1>1, <1>2
<1>4. ASSUME NEW k \in 1..N(j)
      PROVE  Place(c, k) \in Nat
  <2>1. \E i \in Known(c) : Cardinality(UpTo(Known(c), i)) = k
    <3>1. PICK n \in Nat : Known(c) \subseteq 1..n /\ IsFiniteSet(Known(c))
      BY KnownFacts
    <3>2. PICK S : S = Known(c)
      OBVIOUS
    <3> QED
      BY <3>1, <3>2, NthExists DEF N
  <2>2. Place(c, k) = CHOOSE i \in Known(c) : Cardinality(UpTo(Known(c), i)) = k
    BY DEF Place, UpTo
  <2>3. Place(c, k) \in Known(c)
    BY <2>1, <2>2
  <2> QED
    BY <1>1, <2>3
<1>5. ASSUME NEW k \in 1..N(j)
      PROVE  Changes(j)[k].plugin = Selected(c, Changes(j)[k].id)
  <2>1. PICK q \in Nat : q = Place(c, k)
    BY <1>4
  <2>2. Changes(j)[k] = [id |-> q - 1, plugin |-> c.map[q].plugin]
    BY <1>2, <2>1
  <2>3. Selected(c, q - 1) = c.map[q].plugin
    BY <2>1 DEF Selected
  <2> QED
    BY <2>2, <2>3
<1> QED
  BY <1>1, <1>3, <1>5

-----------------------------------------------------------------------------
(* What a step leaves alone. *)

LEMMA TalkStays ==
    ASSUME NEW q, Talk(q), jail'[q] = jail[q], conn'[q] = conn[q], toConflict'[q] = toConflict[q],
           linked'[q] = linked[q], Asks(q)' = Asks(q), Ending(q)' <=> Ending(q),
           proc[q].sig # "none" => proc'[q].sig # "none", cur = End => cur' = End'
    PROVE  Talk(q)'
<1>1. Idle(q)' <=> Idle(q)
  BY DEF Idle
<1>2. Reading(q)' <=> Reading(q)
  BY DEF Reading
<1>3. Asking(q)' <=> Asking(q)
  BY DEF Asking
<1>4. KilledBy(q)' <=> KilledBy(q)
  BY DEF KilledBy
<1>5. Resolve(q)' = Resolve(q)
  BY DEF Resolve
<1>6. AsAnswered(q) => AsAnswered(q)'
  BY <1>5 DEF AsAnswered, MayStayUnresolved
<1> HIDE DEF Talk
<1> QED
  BY <1>1, <1>2, <1>3, <1>4, <1>6 DEF Talk

(* A step of the dialog or of a jail that does not concern the jail q. *)
LEMMA ServedStays ==
    ASSUME Serving, UNCHANGED <<execVars, shown, roster, cur>>, NEW q \in Pids, Served(q),
           jail'[q] = jail[q], conn'[q] = conn[q], toConflict'[q] = toConflict[q],
           linked'[q] = linked[q], Asks(q)' = Asks(q), Ending(q)' <=> Ending(q),
           kill' # NotKilling => kill'.running
    PROVE  Attends(q)' /\ Talk(q)'
<1>1. UNCHANGED <<proc, callback, appPid>> /\ End' = End
  BY DEF execVars, End
<1>2. Attends(q) /\ Talk(q)
  BY DEF Serving
<1>3. Attends(q)'
  BY <1>1, <1>2 DEF Attends
<1>4. Talk(q)'
  BY <1>1, <1>2, TalkStays
<1> QED
  BY <1>3, <1>4

(* A step that starts and ends no child: who is served stays so. *)
LEMMA SameServed ==
    ASSUME UNCHANGED execVars
    PROVE  Pids' = Pids /\ \A q : Served(q)' <=> Served(q)
BY DEF execVars, Pids, Served, Alive

(* While a jail is served, its child is running, and a kill that begins says so. *)
LEMMA ServedRuns ==
    ASSUME IInv, Serving, NEW q \in Pids, Served(q)
    PROVE  /\ Attends(q) /\ Talk(q) /\ IsAppRunning /\ q # 0 /\ shown
           /\ \A who : KillSync(who) => kill'.running /\ kill'.by = who[1] /\ kill'.jail = who[2]
<1>1. Attends(q) /\ Talk(q) /\ q # 0
  BY Facts DEF Serving
<1>2. IsAppRunning /\ shown
  BY <1>1 DEF Attends, IsAppRunning
<1> QED
  BY <1>1, <1>2 DEF KillSync

LEMMA NoEnding ==
    ASSUME NEW q
    PROVE  kill = NotKilling => ~Ending(q)
BY DEF Ending, NotKilling

-----------------------------------------------------------------------------
(* The boxes of a jail. *)

LEMMA BoxNames ==
    /\ \A p : KillBox # ConflictBox(p)
    /\ \A p, q : ConflictBox(p) = ConflictBox(q) => p = q
    /\ \A p : ConflictBox(p) # Dialog
<1>1. KillBox[1] = "kill" /\ Dialog[1] = "dialog"
      /\ \A p : ConflictBox(p)[1] = "conflict" /\ ConflictBox(p)[2] = p
  BY DEF KillBox, ConflictBox, Dialog
<1>2. "kill" # "conflict" /\ "dialog" # "conflict"
  OBVIOUS
<1>3. \A p : KillBox # ConflictBox(p) /\ ConflictBox(p) # Dialog
  BY <1>1, <1>2
<1>4. ASSUME NEW p, NEW q, ConflictBox(p) = ConflictBox(q)
      PROVE  p = q
  <2>1. ConflictBox(p)[2] = p /\ ConflictBox(q)[2] = q
    BY <1>1
  <2> QED
    BY <1>4, <2>1
<1> QED
  BY <1>3, <1>4

LEMMA OneMoreBox ==
    ASSUME IInv, NEW b, boxes' = Append(boxes, b), NEW q
    PROVE  /\ b # ConflictBox(q) => Asks(q)' = Asks(q)
           /\ b = ConflictBox(q) => Asks(q)' = Asks(q) \cup {Len(boxes) + 1}
           /\ Len(boxes) + 1 \in Nat
<1> DEFINE n == Len(boxes)
<1>1. boxes \in Seq(Boxes(Len(proc))) /\ n \in Nat /\ DOMAIN boxes = 1..n
  BY Facts
<1>2. DOMAIN boxes' = 1..(n + 1) /\ boxes'[n + 1] = b /\ \A i \in 1..n : boxes'[i] = boxes[i]
  <2>1. List(boxes, n)
    BY <1>1, SeqIsList
  <2>2. Longer(boxes', boxes, n, b)
    BY <1>1, <2>1, AppendList
  <2> QED
    BY <1>1, <2>2, ListFacts DEF Longer
<1> HIDE DEF n
<1>3. \A i : i \in 1..(n + 1) <=> i \in 1..n \/ i = n + 1
  BY <1>1
<1>4. n + 1 \notin 1..n
  BY <1>1
<1>5. \A i : i \in Asks(q)' <=> i \in Asks(q) \/ (i = n + 1 /\ b = ConflictBox(q))
  BY <1>1, <1>2, <1>3, <1>4, Zenon DEF Asks
<1>6. b # ConflictBox(q) => Asks(q)' = Asks(q)
  BY <1>5, Zenon
<1>7. b = ConflictBox(q) => Asks(q)' = Asks(q) \cup {n + 1}
  BY <1>5, Zenon
<1> QED
  BY <1>1, <1>6, <1>7 DEF n

LEMMA OneBoxLess ==
    ASSUME IInv, Top # Dialog, boxes' = Front(boxes), NEW q
    PROVE  /\ Top # ConflictBox(q) => Asks(q)' = Asks(q)
           /\ Top = ConflictBox(q) => Asks(q)' = Asks(q) \ {Len(boxes)} /\ Len(boxes) \in Asks(q)
<1> DEFINE n == Len(boxes)
<1>1. boxes \in Seq(Boxes(Len(proc))) /\ boxes # <<>>
  BY Facts DEF Top
<1>2. n \in Nat /\ n >= 1 /\ DOMAIN boxes = 1..n /\ Top = boxes[n]
  BY <1>1 DEF Top, Last
<1>3. DOMAIN boxes' = 1..(n - 1) /\ \A i \in 1..(n - 1) : boxes'[i] = boxes[i]
  BY <1>1, <1>2 DEF Front
<1> HIDE DEF n
<1>4. \A i : i \in 1..n <=> i \in 1..(n - 1) \/ i = n
  BY <1>2
<1>5. n \notin 1..(n - 1)
  BY <1>2
<1>6. \A i : i \in Asks(q)' <=> i \in Asks(q) /\ i # n
  BY <1>2, <1>3, <1>4, <1>5, Zenon DEF Asks
<1>7. n \in Asks(q) <=> Top = ConflictBox(q)
  BY <1>2, <1>4, Zenon DEF Asks
<1>8. Top # ConflictBox(q) => Asks(q)' = Asks(q)
  BY <1>6, <1>7, Zenon
<1>9. Top = ConflictBox(q) => Asks(q)' = Asks(q) \ {n} /\ n \in Asks(q)
  BY <1>6, <1>7, Zenon
<1> QED
  BY <1>8, <1>9 DEF n

-----------------------------------------------------------------------------
(* The steps of the roster: nobody is served before, and the child that is
   started, if any, is served after. *)

LEMMA NewConnFields == \A f : DOMAIN NewConn(f) = ConnFields /\ NewConn(f).asking = FALSE
<1> SUFFICES ASSUME NEW f PROVE DOMAIN NewConn(f) = ConnFields /\ NewConn(f).asking = FALSE
  OBVIOUS
<1>1. PICK a : a = NewAlways(f)
  OBVIOUS
<1>2. NewConn(f) = [asking |-> FALSE, seq |-> -1, offset |-> -1, expected |-> 0, supported |-> {},
                    changes |-> <<>>, always |-> a]
  BY <1>1 DEF NewConn
<1> QED
  BY <1>2 DEF ConnFields

(* A jail that is started is attended. *)
LEMMA NewIsServed ==
    ASSUME IInv, NEW r \in Seq(Devices), NEW k \in 1..(Len(r) + 1), Launches(r, k), pending' = <<>>,
           roster' = r, cur' = k, shown' = TRUE, boxes' = boxes, kill = NotKilling, kill' = kill,
           NEW q, q = Len(proc) + 1
    PROVE  Attends(q)' /\ Talk(q)'
<1> DEFINE n == Len(proc)
<1>1. n \in Nat /\ boxes \in Seq(Boxes(n)) /\ List(jail, n) /\ List(conn, n) /\ List(toConflict, n)
  BY Facts
<1>2. /\ jail' = Append(jail, NewJail(r[k])) /\ conn' = Append(conn, NewConn(""))
      /\ toConflict' = Append(toConflict, <<>>) /\ callback' = q /\ appPid' = q /\ k <= Len(r)
  BY DEF Launches, Run, JailStarted
<1>3. toConflict'[q] = <<>>
  <2>1. Longer(toConflict', toConflict, n, <<>>)
    BY <1>1, <1>2, AppendList
  <2> QED
    BY <2>1 DEF Longer
<1>4. conn'[q] = NewConn("")
  <2>1. PICK e : e = NewConn("")
    OBVIOUS
  <2>2. Longer(conn', conn, n, e)
    BY <1>1, <1>2, <2>1, AppendList
  <2> QED
    BY <2>1, <2>2 DEF Longer
<1>5. jail'[q].pc = "connect"
  <2>1. PICK e : e = NewJail(r[k])
    OBVIOUS
  <2>2. Longer(jail', jail, n, e)
    BY <1>1, <1>2, <2>1, AppendList
  <2> QED
    BY <2>1, <2>2 DEF Longer, NewJail
<1>6. cur' # End'
  <2>1. Len(r) \in Nat /\ End' = Len(r) + 1 /\ cur' = k
    BY DEF End
  <2>2. k <= Len(r)
    BY DEF Launches
  <2>3. k # Len(r) + 1
    BY <2>1, <2>2
  <2> QED
    BY <2>1, <2>3
<1>7. Asks(q)' = {}
  <2>1. ASSUME NEW i \in DOMAIN boxes, boxes[i] = ConflictBox(q)
        PROVE  FALSE
    <3>1. boxes[i] \in Boxes(n)
      BY <1>1
    <3>2. \A p \in 1..n : p # q
      BY <1>1
    <3> QED
      BY <2>1, <3>1, <3>2, BoxNames DEF Boxes
  <2> QED
    BY <2>1 DEF Asks
<1>8. ~Ending(q)'
  BY DEF Ending, NotKilling
<1>9. Attends(q)'
  BY <1>2, <1>5, <1>6 DEF Attends
<1>10. Talk(q)'
  <2>1. DOMAIN conn'[q] = ConnFields /\ conn'[q].asking = FALSE
    BY <1>4, NewConnFields
  <2>2. Idle(q)'
    BY <1>3, <1>7, <1>8 DEF Idle
  <2> QED
    BY <1>5, <2>1, <2>2 DEF Talk
<1> QED
  BY <1>9, <1>10

LEMMA StartServes ==
    ASSUME IInv, \A q \in Pids : ~Served(q),
           NEW r \in Seq(Devices), NEW i \in 1..(Len(r) + 1), StartNextSync(r, i),
           pending' = <<>>, shown' = TRUE, boxes' = boxes, kill = NotKilling, kill' = kill
    PROVE  Serving'
<1> DEFINE n == Len(proc)
<1>0. n \in Nat /\ Pids = 1..n /\ Len(r) \in Nat
  BY Facts
<1>1. PICK k \in i..(Len(r) + 1) : /\ roster' = r /\ killing' = FALSE /\ cur' = k
                                   /\ Rests(r, k) \/ Launches(r, k)
  BY StartsAt, Zenon
<1>2. k \in 1..(Len(r) + 1)
  BY <1>0
<1>3. CASE Rests(r, k)
  <2>1. UNCHANGED <<proc, attached>>
    BY <1>3, Zenon DEF Rests, Skipped
  <2>2. Pids' = Pids /\ \A q : Served(q)' <=> Served(q)
    BY <2>1 DEF Served, Alive, Pids
  <2> QED
    BY <2>2 DEF Serving
<1>4. CASE Launches(r, k)
  <2>1. Children' /\ Added(r[k])
    BY <1>2, <1>4, LaunchAdds DEF IInv
  <2>2. Pids' = 1..(n + 1)
    BY <2>1 DEF Added, Pids, Children
  <2>3. ASSUME NEW q \in Pids', Served(q)'
        PROVE  q = n + 1
    <3>1. q \in 1..n => proc'[q] = proc[q] /\ attached'[q] = attached[q]
      BY <2>1 DEF Added
    <3>2. q \notin 1..n
      BY <1>0, <2>3, <3>1 DEF Served, Alive
    <3> QED
      BY <1>0, <2>2, <3>2
  <2>4. \A q : q = n + 1 => Attends(q)' /\ Talk(q)'
    BY <1>1, <1>2, <1>4, NewIsServed
  <2> QED
    BY <2>3, <2>4 DEF Serving
<1> QED
  BY <1>1, <1>3, <1>4

(* Nobody is served where no dialog is shown, where it offers to close, and
   where the end of a child is reported. *)
LEMMA NobodyServed ==
    ASSUME IInv, Serving, ~shown \/ buttons = "close" \/ pending # <<>>
    PROVE  \A q \in Pids : ~Served(q)
<1>1. callback = 0
  BY DEF IInv, OneChild
<1>2. \A q \in Pids : q # 0
  BY Facts
<1> QED
  BY <1>1, <1>2 DEF Serving, Attends

LEMMA RosterServes ==
    ASSUME IInv, Serving, OnSyncNow \/ OnSyncAgain \/ OnExecTerminated
    PROVE  Serving'
<1>1. \A q \in Pids : ~Served(q)
  BY NobodyServed DEF OnSyncNow, OnSyncAgain, OnExecTerminated
<1>2. /\ boxes' = boxes /\ kill' = kill /\ shown' = TRUE
      /\ kill = NotKilling
      /\ pending' = <<>>
  <2>1. CASE OnSyncNow
    BY <2>1 DEF OnSyncNow, IInv, OneChild, Dialogs
  <2>2. CASE OnSyncAgain
    BY <2>2 DEF OnSyncAgain, Loop, IInv, OneChild, Dialogs
  <2>3. CASE OnExecTerminated
    <3>1. pending \in Seq(1..Len(proc)) /\ Len(pending) <= 1 /\ pending # <<>> /\ pending' = Tail(pending)
      BY <2>3 DEF OnExecTerminated, IInv, Children, OneChild
    <3>2. pending' = <<>>
      BY <3>1
    <3> QED
      BY <2>3, <3>2 DEF OnExecTerminated, Loop, IInv, Dialogs
  <2> QED
    BY <2>1, <2>2, <2>3
<1>3. \E r \in Seq(Devices) : \E i \in 1..(Len(r) + 1) : StartNextSync(r, i)
  <2>1. roster \in Seq(Devices) /\ next \in 1..(Len(roster) + 1)
    BY DEF IInv, Dialogs, End
  <2>2. CASE OnSyncNow
    <3>1. PICK r \in Rosters : StartNextSync(r, 1)
      BY <2>2 DEF OnSyncNow
    <3>2. r \in Seq(Devices)
      BY SyncAssumption
    <3>3. 1 \in 1..(Len(r) + 1)
      BY <3>2
    <3> QED
      BY <3>1, <3>2, <3>3
  <2>3. CASE OnSyncAgain
    <3>1. StartNextSync(roster, 1) /\ 1 \in 1..(Len(roster) + 1)
      BY <2>1, <2>3 DEF OnSyncAgain
    <3> QED
      BY <2>1, <3>1
  <2>4. CASE OnExecTerminated
    <3>1. StartNextSync(roster, next)
      BY <2>4 DEF OnExecTerminated
    <3> QED
      BY <2>1, <3>1
  <2> QED
    BY <2>2, <2>3, <2>4
<1> QED
  BY <1>1, <1>2, <1>3, StartServes

-----------------------------------------------------------------------------
(* The steps of the processes, and of the dialog about itself. *)

LEMMA OneOther ==
    ASSUME NEW n \in Nat, NEW s, List(s, n), NEW p, NEW e, NEW t, t = [s EXCEPT ![p] = e],
           NEW q \in 1..n
    PROVE  (q # p => t[q] = s[q]) /\ (q = p => t[q] = e)
BY DEF List

LEMMA ProcessesServe ==
    ASSUME IInv, Serving, NEW p \in Pids, UNCHANGED <<jailVars, dlgVars>>,
           OnTerminate(p) \/ OnTerminateSignal(p)
    PROVE  Serving'
<1> DEFINE n == Len(proc)
<1>0. /\ proc \in Seq(Child) /\ n \in Nat /\ Pids = 1..n
      /\ UNCHANGED <<jail, conn, toConflict, linked, boxes, kill, roster, cur, shown, attached>>
  BY Facts DEF IInv, Children, jailVars, dlgVars, OnTerminate, OnTerminateSignal
<1>1. /\ Pids' = Pids
      /\ \A q \in Pids : proc'[q].sig = proc[q].sig /\ (proc'[q].st = "alive" => proc[q].st = "alive" /\ q # p)
  <2>1. CASE OnTerminate(p)
    <3>1. proc' = [proc EXCEPT ![p].st = "gone"] /\ proc[p].st = "zombie"
      BY <2>1 DEF OnTerminate
    <3>2. \A q \in Pids : proc[q] \in Child
      BY <1>0
    <3>3. \A q \in Pids : q # p => proc'[q] = proc[q]
      BY <1>0, <3>1
    <3>4. proc'[p].st = "gone" /\ proc'[p].sig = proc[p].sig
      BY <1>0, <3>1, <3>2 DEF Child
    <3>5. Pids' = Pids
      BY <1>0, <3>1 DEF Pids
    <3> QED
      BY <3>3, <3>4, <3>5
  <2>2. CASE OnTerminateSignal(p)
    <3>1. proc' = proc /\ proc[p].st = "gone"
      BY <2>2 DEF OnTerminateSignal, IInv, OneChild
    <3> QED
      BY <3>1 DEF Pids
  <2> QED
    BY <2>1, <2>2
<1> SUFFICES ASSUME NEW q \in Pids, Served(q)'
             PROVE  Attends(q)' /\ Talk(q)'
  BY <1>1 DEF Serving
<1>2. Served(q) /\ q # p
  BY <1>0, <1>1 DEF Served, Alive
<1>3. Attends(q) /\ Talk(q)
  BY <1>2 DEF Serving
<1>4. callback = q
  BY <1>3 DEF Attends
<1>5. callback' = callback /\ appPid' = appPid
  <2>1. CASE OnTerminate(p)
    BY <1>2, <1>4, <2>1 DEF OnTerminate
  <2>2. CASE OnTerminateSignal(p)
    BY <1>2, <1>4, <2>2 DEF OnTerminateSignal, IInv, OneChild
  <2> QED
    BY <2>1, <2>2
<1>6. End' = End /\ Asks(q)' = Asks(q) /\ Ending(q)' = Ending(q)
  BY <1>0 DEF End, Asks, Ending
<1>7. Attends(q)'
  BY <1>0, <1>1, <1>3, <1>5, <1>6 DEF Attends
<1>8. Talk(q)'
  BY <1>0, <1>1, <1>3, <1>6, TalkStays
<1> QED
  BY <1>7, <1>8

LEMMA JailEndsServes ==
    ASSUME IInv, Serving, NEW p \in Pids, JailEnds(p), UNCHANGED dlgVars
    PROVE  Serving'
<1> DEFINE n == Len(proc)
           e == [NewJail(jail[p].dev) EXCEPT !.pc = "exit"]
<1>0. /\ proc \in Seq(Child) /\ n \in Nat /\ Pids = 1..n
      /\ UNCHANGED <<conn, toConflict, linked, boxes, kill, roster, cur, shown, attached, callback, appPid>>
      /\ proc' = [proc EXCEPT ![p].st = "zombie"] /\ jail' = [jail EXCEPT ![p] = e]
  BY Facts DEF IInv, Children, dlgVars, JailEnds, Ends
<1> HIDE DEF e
<1>1. /\ Pids' = Pids /\ proc'[p].st = "zombie"
      /\ \A q \in Pids : q # p => proc'[q] = proc[q] /\ jail'[q] = jail[q]
  <2>1. proc[p] \in Child
    BY <1>0
  <2>2. proc'[p].st = "zombie"
    BY <1>0, <2>1 DEF Child
  <2>3. Pids' = Pids /\ \A q \in Pids : q # p => proc'[q] = proc[q]
    BY <1>0 DEF Pids
  <2>4. \A q \in Pids : q # p => jail'[q] = jail[q]
    BY <1>0, Facts, OneOther
  <2> QED
    BY <2>2, <2>3, <2>4
<1> SUFFICES ASSUME NEW q \in Pids, Served(q)'
             PROVE  Attends(q)' /\ Talk(q)'
  BY <1>1 DEF Serving
<1>2. Served(q) /\ q # p
  BY <1>0, <1>1 DEF Served, Alive
<1>3. Attends(q) /\ Talk(q)
  BY <1>2 DEF Serving
<1>4. End' = End /\ Asks(q)' = Asks(q) /\ Ending(q)' = Ending(q)
  BY <1>0 DEF End, Asks, Ending
<1>5. Attends(q)'
  BY <1>0, <1>1, <1>2, <1>3, <1>4 DEF Attends
<1>6. Talk(q)'
  BY <1>0, <1>1, <1>2, <1>3, <1>4, TalkStays
<1> QED
  BY <1>5, <1>6

(* The destructor detaches the child it waited for. *)
LEMMA DestroyedServes ==
    ASSUME IInv, Serving, Destroyed
    PROVE  Serving'
<1>1. /\ proc' \in {proc, Signalled(FALSE)}
      /\ attached' = [q \in Pids |-> attached[q] /\ q # callback]
  BY DEF Destroyed, DestroyKills, KillApp, ExecDestroyed
<1>2. proc \in Seq(Child)
  BY DEF IInv, Children
<1>3. Len(proc') = Len(proc) /\ proc' \in Seq(Child) /\ \A q \in Pids : proc'[q].st = proc[q].st
  BY <1>1, <1>2, SignalledFacts
<1>4. Pids' = Pids
  BY <1>2, <1>3 DEF Pids
<1>5. ASSUME NEW q \in Pids, Served(q)'
      PROVE  FALSE
  <2>1. attached[q] /\ q # callback /\ Alive(q)
    BY <1>1, <1>3, <1>5 DEF Served, Alive
  <2>2. callback = q
    BY <2>1 DEF Serving, Served, Attends
  <2> QED
    BY <2>1, <2>2
<1> QED
  BY <1>4, <1>5 DEF Serving

(* A step in which messages, jails and what is shown stay as they are for q. *)
LEMMA ClicksServe ==
    ASSUME IInv, Serving, OnKillClose \/ KillAnswered \/ WindowClosed
                          \/ \E p \in Pids : StatusOnPoke(p)
    PROVE  Serving'
<1>1. /\ UNCHANGED <<execVars, jail, toConflict, linked, conn, shown, roster, cur>>
      /\ kill = NotKilling
      /\ kill' = kill \/ KillSync(<<"destroy", 0>>) \/ KillSync(<<"user", 0>>)
         \/ \E p \in Pids : KillSync(<<"slow", p>>)
  BY DEF OnKillClose, KillAnswered, WindowClosed, StatusOnPoke, Loop, jailVars
<1>2. Pids' = Pids /\ \A q : Served(q)' <=> Served(q)
  BY <1>1, SameServed
<1> SUFFICES ASSUME NEW q \in Pids, Served(q)
             PROVE  Attends(q)' /\ Talk(q)'
  BY <1>2 DEF Serving
<1>3. ~Ending(q)' /\ (kill' # NotKilling => kill'.running)
  <2>1. CASE kill' = kill
    BY <1>1, <2>1 DEF Ending, NotKilling
  <2>2. CASE KillSync(<<"destroy", 0>>) \/ KillSync(<<"user", 0>>)
             \/ \E p \in Pids : KillSync(<<"slow", p>>)
    <3>1. ASSUME NEW b \in {"destroy", "user", "slow"}, NEW j, KillSync(<<b, j>>)
          PROVE  ~Ending(q)' /\ (kill' # NotKilling => kill'.running)
      <4>1. IsAppRunning
        BY ServedRuns
      <4>2. kill'.running /\ kill'.by = b
        BY <3>1, <4>1 DEF KillSync
      <4>3. b # "conflict"
        OBVIOUS
      <4> QED
        BY <4>2, <4>3 DEF Ending
    <3>2. CASE KillSync(<<"destroy", 0>>)
      BY <3>1, <3>2
    <3>3. CASE KillSync(<<"user", 0>>)
      BY <3>1, <3>3
    <3>4. ASSUME NEW p \in Pids, KillSync(<<"slow", p>>)
          PROVE  ~Ending(q)' /\ (kill' # NotKilling => kill'.running)
      BY <3>1, <3>4
    <3> QED
      BY <2>2, <3>2, <3>3, <3>4
  <2> QED
    BY <1>1, <2>1, <2>2
<1>4. Asks(q)' = Asks(q)
  <2>1. CASE boxes' = boxes
    BY <2>1 DEF Asks
  <2>2. CASE boxes' = Append(boxes, KillBox)
    BY <2>2, OneMoreBox, BoxNames
  <2>3. CASE Top = KillBox /\ boxes' = Front(boxes)
    BY <2>3, OneBoxLess, BoxNames, TopFacts
  <2> QED
    BY <2>1, <2>2, <2>3 DEF OnKillClose, KillAnswered, WindowClosed, StatusOnPoke
<1> QED
  BY <1>1, <1>3, <1>4, NoEnding, ServedStays

-----------------------------------------------------------------------------
(* Messages, pokes and answers, as functions of what is read. *)

LEMMA ReplyNames ==
    /\ Null # NoReply
    /\ \A s, c, i : <<"reply", s, c, i>> # NoReply /\ <<"reply", s, c, i>> # Null
<1>1. /\ Null[1] = "null" /\ NoReply[1] = "none"
      /\ \A s, c, i : <<"reply", s, c, i>>[1] = "reply"
  BY DEF Null, NoReply
<1>2. "null" # "none" /\ "reply" # "none" /\ "reply" # "null"
  OBVIOUS
<1> QED
  BY <1>1, <1>2

(* What is written about a conflict, between a first and a last message. *)
Framed(t, n, a, s, b) ==
    List(t, n + 2) /\ t[1] = a /\ t[n + 2] = b /\ \A i \in 1..n : t[i + 1] = s[i]

LEMMA Written ==
    ASSUME NEW n \in Nat, NEW s, List(s, n), NEW a, NEW b
    PROVE  Framed(<<>> \o <<a>> \o s \o <<b>>, n, a, s, b)
<1>0. PICK t : t = <<>> \o <<a>> \o s \o <<b>>
  OBVIOUS
<1> DEFINE R == {s[i] : i \in 1..n} \cup {a, b}
<1>1. s \in Seq(R) /\ Len(s) = n
  <2>1. s = [i \in 1..n |-> s[i]]
    BY DEF List
  <2>2. [i \in 1..n |-> s[i]] \in [1..n -> R]
    OBVIOUS
  <2>3. s \in [1..n -> R]
    BY <2>1, <2>2
  <2> QED
    BY <2>3
<1>2. a \in R /\ b \in R
  OBVIOUS
<1> HIDE DEF R
<1>3. PICK u : u = <<>> \o <<a>> \o s
  OBVIOUS
<1>4. u \in Seq(R) /\ Len(u) = n + 1 /\ u[1] = a /\ \A i \in 1..n : u[i + 1] = s[i]
  BY <1>1, <1>2, <1>3
<1>5. t = u \o <<b>>
  BY <1>0, <1>3
<1>6. t \in Seq(R) /\ Len(t) = n + 2 /\ t[n + 2] = b /\ \A i \in 1..(n + 1) : t[i] = u[i]
  <2>1. /\ u \o <<b>> \in Seq(R) /\ Len(u \o <<b>>) = Len(u) + 1
        /\ (u \o <<b>>)[Len(u) + 1] = b
        /\ \A i \in 1..Len(u) : (u \o <<b>>)[i] = u[i]
    BY <1>2, <1>4
  <2>2. Len(u) + 1 = n + 2
    BY <1>4
  <2> QED
    BY <1>4, <1>5, <2>1, <2>2
<1>7. List(t, n + 2)
  BY <1>6, SeqIsList
<1>8. t[1] = a /\ \A i \in 1..n : t[i + 1] = s[i]
  <2>1. 1 \in 1..(n + 1) /\ \A i \in 1..n : i + 1 \in 1..(n + 1)
    OBVIOUS
  <2> QED
    BY <1>4, <1>6, <2>1
<1> QED
  BY <1>0, <1>6, <1>7, <1>8 DEF Framed

(* The first message that is read leaves the others. *)
LEMMA RestTail ==
    ASSUME NEW j, N(j) \in Nat, NEW w, NEW m \in Nat, Rest(j, w, m), Len(w) > 1
    PROVE  m \in 0..N(j) /\ Head(w) = Message(j, m + 1) /\ Rest(j, Tail(w), m + 1)
<1> DEFINE k == N(j) + 2 - m
           R == {w[i] : i \in 1..k}
<1>1. m \in 0..N(j) + 1 /\ k \in Nat /\ List(w, k) /\ \A i \in 1..k : w[i] = Message(j, m + i)
  BY DEF Rest
<1>2. w \in Seq(R) /\ Len(w) = k
  <2>1. w = [i \in 1..k |-> w[i]]
    BY <1>1 DEF List
  <2>2. [i \in 1..k |-> w[i]] \in [1..k -> R]
    OBVIOUS
  <2> HIDE DEF k
  <2>3. w \in [1..k -> R]
    BY <2>1, <2>2
  <2> QED
    BY <1>1, <2>3
<1>3. k > 1 /\ m \in 0..N(j)
  BY <1>1, <1>2
<1>4. PICK K \in Nat : K = k
  BY <1>1
<1> HIDE DEF R, k
<1>5. Head(w) = w[1] /\ Tail(w) \in Seq(R) /\ Len(Tail(w)) = K - 1
      /\ \A i \in 1..(K - 1) : Tail(w)[i] = w[i + 1]
  BY <1>2, <1>3, <1>4
<1>6. Head(w) = Message(j, m + 1)
  <2>1. 1 \in 1..k
    BY <1>3, <1>4
  <2> QED
    BY <1>1, <1>5, <2>1
<1>7. N(j) + 2 - (m + 1) = K - 1 /\ m + 1 \in 0..N(j) + 1
  BY <1>1, <1>3, <1>4 DEF k
<1>8. List(Tail(w), K - 1)
  BY <1>5, SeqIsList
<1>9. ASSUME NEW i \in 1..(K - 1)
      PROVE  Tail(w)[i] = Message(j, (m + 1) + i)
  <2>1. i + 1 \in 1..k /\ m + (i + 1) = (m + 1) + i
    BY <1>3, <1>4
  <2>2. w[i + 1] = Message(j, m + (i + 1))
    BY <1>1, <2>1
  <2> QED
    BY <1>5, <2>1, <2>2
<1> QED
  BY <1>3, <1>6, <1>7, <1>8, <1>9 DEF Rest

(* A poke that is read: OnPoke of the ConflictConnection. *)
LEMMA PokeKnows ==
    ASSUME NEW j, j.conflict \in Conflicts \cup {NoConflict}, j.seq \in Nat,
           NEW c, DOMAIN c = ConnFields, NEW m \in 0..N(j), m > 0 => Knows(j, c, m),
           ~c.asking
    PROVE  Knows(j, Poke(c, Message(j, m + 1)), m + 1)
<1>0. N(j) \in Nat /\ m \in Nat
  BY ChangesFacts
<1>1. CASE m = 0
  <2> DEFINE S == Supported(j.dev, j.conflict)
             d == PokeStart(c, <<"Start", j.seq, N(j), S>>)
  <2>1. Message(j, m + 1) = <<"Start", j.seq, N(j), S>>
    BY <1>1 DEF Message
  <2>2. Poke(c, Message(j, m + 1)) = d
    BY <2>1 DEF Poke
  <2> HIDE DEF S
  <2>3. N(j) < 2 => d.seq = -1
    BY DEF PokeStart, ConnFields
  <2>4. ~(N(j) < 2) => /\ d.seq = j.seq /\ d.offset = 0 /\ d.expected = N(j) /\ d.supported = S
                       /\ d.changes = <<>>
    BY DEF PokeStart, ConnFields
  <2> HIDE DEF d
  <2>5. List(<<>>, 0)
    BY DEF List
  <2>6. m + 1 - 1 = 0
    BY <1>1
  <2> QED
    BY <2>2, <2>3, <2>4, <2>5, <2>6 DEF Knows, S
<1>2. CASE m > 0
  <2>1. Message(j, m + 1) = <<"Change", j.seq, m, Changes(j)[m]>>
    <3>1. m + 1 # 1 /\ m + 1 # N(j) + 2 /\ m + 1 - 1 = m
      BY <1>0, <1>2
    <3> QED
      BY <3>1 DEF Message
  <2>2. PICK e : e = Changes(j)[m]
    OBVIOUS
  <2>3. Poke(c, Message(j, m + 1)) = PokeChange(c, <<"Change", j.seq, m, e>>)
    BY <2>1, <2>2 DEF Poke
  <2>4. CASE N(j) < 2
    <3>1. c.seq = -1
      BY <1>2, <2>4 DEF Knows
    <3>2. PokeChange(c, <<"Change", j.seq, m, e>>) = c
      BY <3>1 DEF PokeChange
    <3> QED
      BY <2>3, <2>4, <3>1, <3>2 DEF Knows
  <2>5. CASE ~(N(j) < 2)
    <3> DEFINE d == [c EXCEPT !.offset = m, !.changes = Append(c.changes, e)]
    <3>1. /\ c.seq = j.seq /\ c.offset = m - 1 /\ c.expected = N(j)
          /\ c.supported = Supported(j.dev, j.conflict)
          /\ List(c.changes, m - 1)
          /\ \A i \in 1..m - 1 : c.changes[i] = Changes(j)[i]
      BY <1>2, <2>5 DEF Knows
    <3>2. PokeChange(c, <<"Change", j.seq, m, e>>) = d
      <4>1. m = c.offset + 1
        BY <1>0, <3>1
      <4> QED
        BY <3>1, <4>1 DEF PokeChange
    <3>3. PICK s : s = Append(c.changes, e)
      OBVIOUS
    <3>4. d.seq = c.seq /\ d.offset = m /\ d.expected = c.expected /\ d.supported = c.supported
          /\ d.changes = s
      BY <3>3 DEF ConnFields
    <3> HIDE DEF d
    <3>5. Longer(s, c.changes, m - 1, e)
      <4>1. m - 1 \in Nat
        BY <1>0, <1>2
      <4> QED
        BY <3>1, <3>3, <4>1, AppendList
    <3>6. List(s, m) /\ \A i \in 1..m : s[i] = Changes(j)[i]
      <4>1. (m - 1) + 1 = m /\ \A i \in 1..m : i \in 1..m - 1 \/ i = m
        BY <1>0
      <4> QED
        BY <2>2, <3>1, <3>5, <4>1 DEF Longer
    <3>7. m + 1 - 1 = m
      BY <1>0
    <3> QED
      BY <2>3, <2>5, <3>1, <3>2, <3>4, <3>6, <3>7 DEF Knows
  <2> QED
    BY <2>4, <2>5
<1> QED
  BY <1>0, <1>1, <1>2

LEMMA PokeFields ==
    ASSUME NEW c, DOMAIN c = ConnFields, NEW m
    PROVE  DOMAIN Poke(c, m) = ConnFields /\ Poke(c, m).asking = c.asking
           /\ (c.asking => Poke(c, m) = c)
<1>1. DOMAIN PokeStart(c, m) = ConnFields /\ PokeStart(c, m).asking = c.asking
  BY DEF PokeStart, ConnFields
<1>2. DOMAIN PokeChange(c, m) = ConnFields /\ PokeChange(c, m).asking = c.asking
  BY DEF PokeChange, ConnFields
<1> QED
  BY <1>1, <1>2 DEF Poke

-----------------------------------------------------------------------------
(* What the answer does to the conflict. *)

(* Resolve, of the jail's own record. *)
Result(j) ==
    IF j.reply = Null
    THEN IF IsAbortSupported(j.dev) THEN <<"A">> ELSE <<"lost">>
    ELSE IF j.reply[2] # j.seq \/ j.reply[3] = "" \/ j.reply[3] \notin Supported(j.dev, j.conflict)
    THEN <<"refused", j.reply[3]>>
    ELSE IF j.reply[3] = "S"
    THEN <<"S", Selected(j.conflict, j.reply[4])>>
    ELSE <<j.reply[3]>>

LEMMA ResolveIs == \A p : Resolve(p) = Result(jail[p])
BY DEF Resolve, Result

LEMMA SupportedNames ==
    ASSUME NEW d, NEW c
    PROVE  /\ Supported(d, c) \subseteq {"S", "D", "A", "I", "N"} /\ "S" \in Supported(d, c)
BY DEF Supported

(* A command that the dialog may send for the jail j, whose conflict c knows. *)
Fair(j, c, f) ==
    /\ f.by \in {"user", "favour", "always"}
    /\ f.cmd = "S" => \E i \in 1..N(j) : f.change = c.changes[i]
    /\ f.by # "always" => f.cmd \in Supported(j.dev, j.conflict)

LEMMA ReplyResolves ==
    ASSUME NEW j, j.conflict \in Conflicts \cup {NoConflict}, NEW c, NEW f,
           N(j) >= 2, Knows(j, c, N(j) + 1), Fair(j, c, f),
           j.reply = <<"reply", c.seq, f.cmd, f.change.id>>, j.told = Choice(f)
    PROVE  /\ j.told.by \in {"user", "favour"} => Result(j) = j.told.what
           /\ Result(j)[1] \in {"lost", "refused"} =>
                  j.told.by = "always" /\ j.told.what[1] \notin Supported(j.dev, j.conflict)
<1> DEFINE S == Supported(j.dev, j.conflict)
<1>1. N(j) \in Nat /\ \A i \in 1..N(j) : Changes(j)[i].plugin = Selected(j.conflict, Changes(j)[i].id)
  BY ChangesFacts
<1>2. c.seq = j.seq /\ \A i \in 1..N(j) : c.changes[i] = Changes(j)[i]
  <2>1. N(j) + 1 - 1 = N(j) /\ ~(N(j) < 2)
    BY <1>1
  <2>2. c.seq = j.seq /\ \A i \in 1..(N(j) + 1) - 1 : c.changes[i] = Changes(j)[i]
    BY <2>1, Zenon DEF Knows
  <2>3. \A i \in 1..N(j) : i \in 1..(N(j) + 1) - 1
    BY <1>1
  <2> QED
    BY <2>2, <2>3, Zenon
<1>3. j.reply # Null /\ j.reply[2] = j.seq /\ j.reply[3] = f.cmd /\ j.reply[4] = f.change.id
  BY <1>2, ReplyNames
<1>4. S \subseteq {"S", "D", "A", "I", "N"} /\ "S" \in S
  BY SupportedNames
<1>5. j.told.by = f.by /\ j.told.what = IF f.cmd = "S" THEN <<"S", f.change.plugin>> ELSE <<f.cmd>>
  BY DEF Choice
<1> HIDE DEF S
<1>6. CASE f.cmd = "S"
  <2>1. f.change.plugin = Selected(j.conflict, f.change.id)
    BY <1>1, <1>2, <1>6 DEF Fair
  <2>2. Result(j) = <<"S", Selected(j.conflict, f.change.id)>>
    BY <1>3, <1>4, <1>6 DEF Result, S
  <2>3. Result(j) = j.told.what /\ Result(j)[1] = "S"
    BY <1>5, <1>6, <2>1, <2>2
  <2> QED
    BY <2>3
<1>7. CASE f.cmd # "S" /\ f.cmd \in S
  <2>1. f.cmd # "" /\ f.cmd \notin {"lost", "refused"}
    BY <1>4, <1>7
  <2>2. Result(j) = <<f.cmd>>
    BY <1>3, <1>7, <2>1 DEF Result, S
  <2>3. Result(j) = j.told.what /\ Result(j)[1] = f.cmd
    BY <1>5, <1>7, <2>2
  <2> QED
    BY <2>1, <2>3
<1>8. CASE f.cmd \notin S
  <2>1. f.by = "always" /\ f.cmd # "S"
    BY <1>4, <1>8 DEF Fair, S
  <2>2. j.told.by = "always" /\ j.told.what[1] = f.cmd
    BY <1>5, <2>1
  <2>3. "always" \notin {"user", "favour"}
    OBVIOUS
  <2> QED
    BY <1>8, <2>2, <2>3 DEF S
<1> QED
  BY <1>4, <1>6, <1>7, <1>8

(* A request that comes to nothing: the jail may leave its conflict as it is
   if it has too few known changes or was told to die. *)
LEMMA NullResolves ==
    ASSUME NEW p, jail'[p].reply = Null, jail'[p].told = Unanswered,
           N(jail'[p]) < 2 \/ proc'[p].sig # "none",
           jail'[p].conflict \in Conflicts \cup {NoConflict}
    PROVE  AsAnswered(p)'
<1>1. MayStayUnresolved(p)'
  <2>1. Len(Changes(jail'[p])) = N(jail'[p])
    BY ChangesFacts
  <2> QED
    BY <2>1 DEF MayStayUnresolved, Changes
<1>2. jail'[p].told.by = "nobody"
  BY DEF Unanswered
<1> QED
  BY <1>1, <1>2 DEF AsAnswered

(* The jail p that is answered, and the others. *)
LEMMA RepliedTo ==
    ASSUME IInv, NEW p \in Pids, NEW r, NEW choice, Replied(p, r, choice)
    PROVE  /\ \A q \in Pids : q # p => jail'[q] = jail[q]
           /\ linked[p] /\ Alive(p) =>
                 /\ jail'[p].reply = r /\ jail'[p].told = choice
                 /\ jail'[p].pc = jail[p].pc /\ jail'[p].seq = jail[p].seq
                 /\ jail'[p].conflict = jail[p].conflict /\ jail'[p].dev = jail[p].dev
<1> DEFINE e == [jail[p] EXCEPT !.reply = r, !.told = choice]
<1>1. jail' = jail \/ jail' = [jail EXCEPT ![p] = e]
  BY DEF Replied
<1>2. linked[p] /\ Alive(p) => jail' = [jail EXCEPT ![p] = e]
  BY DEF Replied
<1>3. /\ e.reply = r /\ e.told = choice
      /\ e.pc = jail[p].pc /\ e.seq = jail[p].seq
      /\ e.conflict = jail[p].conflict /\ e.dev = jail[p].dev
  BY Facts DEF GoodJail, JailFields
<1> HIDE DEF e
<1>4. \A q \in Pids : q # p => jail'[q] = jail[q]
  BY <1>1, Facts, OneOther
<1>5. linked[p] /\ Alive(p) => jail'[p] = e
  BY <1>2, Facts, OneOther
<1> QED
  BY <1>3, <1>4, <1>5

(* What a connection knows depends on the conflict, its number and the device. *)
LEMMA SameKnows ==
    ASSUME NEW j, NEW k, k.seq = j.seq, k.conflict = j.conflict, k.dev = j.dev
    PROVE  /\ N(k) = N(j) /\ Changes(k) = Changes(j)
           /\ \A c, m : Knows(k, c, m) <=> Knows(j, c, m)
           /\ \A w, m : Rest(k, w, m) <=> Rest(j, w, m)
<1>1. N(k) = N(j) /\ Changes(k) = Changes(j)
  BY DEF N, Changes
<1>2. \A c, m : Knows(k, c, m) <=> Knows(j, c, m)
  BY <1>1, Zenon DEF Knows
<1>3. \A m : Message(k, m) = Message(j, m)
  BY <1>1, Zenon DEF Message
<1>4. \A w, m : Rest(k, w, m) <=> Rest(j, w, m)
  BY <1>1, <1>3, Zenon DEF Rest
<1> QED
  BY <1>1, <1>2, <1>4

(* What holds of a jail that is served: where its conflict is. *)
LEMMA TalkFacts ==
    ASSUME IInv, Serving, NEW p \in Pids, Served(p)
    PROVE  /\ Attends(p) /\ Talk(p) /\ Alive(p)
           /\ jail[p].conflict \in Conflicts \cup {NoConflict} /\ jail[p].seq \in Nat
           /\ N(jail[p]) \in Nat
           /\ toConflict[p] # <<>> => /\ jail[p].pc = "wait" /\ jail[p].reply = NoReply
                                      /\ linked[p] /\ Reading(p)
           /\ Asks(p) # {} => /\ jail[p].pc = "wait" /\ jail[p].reply = NoReply
                              /\ linked[p] /\ Asking(p)
<1>1. Attends(p) /\ Talk(p) /\ Alive(p)
  BY DEF Serving, Served
<1>2. jail[p].conflict \in Conflicts \cup {NoConflict} /\ jail[p].seq \in Nat
  BY Facts DEF GoodJail
<1>3. N(jail[p]) \in Nat
  BY <1>2, ChangesFacts
<1>4. ASSUME toConflict[p] # <<>> \/ Asks(p) # {}
      PROVE  /\ jail[p].pc = "wait" /\ jail[p].reply = NoReply /\ linked[p]
             /\ toConflict[p] # <<>> => Reading(p)
             /\ Asks(p) # {} => Asking(p)
  <2>1. ~Idle(p) /\ ~KilledBy(p)
    BY <1>4 DEF Idle, KilledBy
  <2>2. jail[p].pc = "wait" /\ jail[p].reply = NoReply /\ (Reading(p) \/ Asking(p))
    BY <1>1, <2>1 DEF Talk, Attends
  <2>3. linked[p]
    BY <1>1, <2>2 DEF Attends
  <2>4. Reading(p) => Asks(p) = {}
    BY DEF Reading
  <2>5. Asking(p) => toConflict[p] = <<>>
    BY DEF Asking
  <2> QED
    BY <2>2, <2>3, <2>4, <2>5
<1> QED
  BY <1>1, <1>2, <1>3, <1>4

-----------------------------------------------------------------------------
(* The steps of a jail. *)

LEMMA ConnectServes ==
    ASSUME IInv, Serving, NEW p \in Pids, Connect(p)
    PROVE  Serving'
<1>1. /\ UNCHANGED <<execVars, toConflict, shown, roster, cur, boxes, kill>>
      /\ jail[p].pc = "connect"
  BY DEF Connect
<1>2. Pids' = Pids /\ \A q : Served(q)' <=> Served(q)
  BY <1>1, SameServed
<1> SUFFICES ASSUME NEW q \in Pids, Served(q)
             PROVE  Attends(q)' /\ Talk(q)'
  BY <1>2 DEF Serving
<1>3. shown /\ Attends(q) /\ Talk(q)
  BY TalkFacts DEF Attends
<1>4. PICK f : /\ jail' = [jail EXCEPT ![p].pc = "sync"] /\ linked' = [linked EXCEPT ![p] = TRUE]
               /\ conn' = [conn EXCEPT ![p] = NewConn(f)] /\ kill = NotKilling
  BY <1>3, Zenon DEF Connect, Loop
<1>5. Asks(q)' = Asks(q) /\ ~Ending(q) /\ ~Ending(q)'
  BY <1>1, <1>4, NoEnding DEF Asks, Ending, NotKilling
<1>6. CASE q # p
  <2>1. jail'[q] = jail[q] /\ conn'[q] = conn[q]
    <3>1. PICK e, c : jail' = [jail EXCEPT ![p] = e] /\ conn' = [conn EXCEPT ![p] = c]
      BY <1>4
    <3> QED
      BY <1>6, <3>1, Facts, OneOther
  <2>2. linked'[q] = linked[q]
    BY <1>4, <1>6, Facts
  <2> QED
    BY <1>1, <1>4, <1>5, <2>1, <2>2, ServedStays
<1>7. CASE q = p
  <2>1. jail'[p].pc = "sync"
    <3> DEFINE e == [jail[p] EXCEPT !.pc = "sync"]
    <3>1. jail' = [jail EXCEPT ![p] = e]
      BY <1>4
    <3>2. e.pc = "sync"
      BY Facts DEF GoodJail, JailFields
    <3> HIDE DEF e
    <3> QED
      BY <3>1, <3>2, Facts, OneOther
  <2>2. conn'[p] = NewConn(f)
    <3>1. PICK c : c = NewConn(f)
      OBVIOUS
    <3>2. conn' = [conn EXCEPT ![p] = c]
      BY <1>4, <3>1
    <3>3. conn'[p] = c
      <4>1. List(conn, Len(proc)) /\ p \in 1..Len(proc)
        BY Facts
      <4> QED
        BY <3>2, <4>1 DEF List
    <3> QED
      BY <3>1, <3>3
  <2>3. linked'[p]
    BY <1>4, Facts
  <2>4. Idle(p)
    BY <1>1, <1>3, <1>7 DEF Talk
  <2>5. Idle(p)'
    BY <1>1, <1>5, <1>7, <2>4 DEF Idle
  <2>6. Talk(p)'
    BY <2>1, <2>2, <2>5, NewConnFields DEF Talk
  <2>7. Attends(p)'
    BY <1>1, <1>3, <1>4, <1>7, <2>1, <2>3 DEF Attends, execVars, End
  <2> QED
    BY <1>7, <2>6, <2>7
<1> QED
  BY <1>6, <1>7

(* A step of the jail p leaves the others alone. *)
LEMMA JailOthers ==
    ASSUME IInv, Serving, NEW p \in Pids, UNCHANGED <<execVars, dlgVars, linked>>,
           NEW e, jail' = [jail EXCEPT ![p] = e],
           NEW w, toConflict' = toConflict \/ toConflict' = [toConflict EXCEPT ![p] = w],
           Served(p) => Attends(p)' /\ Talk(p)'
    PROVE  Serving'
<1>1. UNCHANGED <<shown, roster, cur, boxes, kill, conn>>
  BY DEF dlgVars
<1>2. Pids' = Pids /\ \A q : Served(q)' <=> Served(q)
  BY SameServed
<1> SUFFICES ASSUME NEW q \in Pids, Served(q), q # p
             PROVE  Attends(q)' /\ Talk(q)'
  BY <1>2 DEF Serving
<1>3. jail'[q] = jail[q] /\ toConflict'[q] = toConflict[q]
  <2>1. jail'[q] = jail[q]
    BY Facts, OneOther
  <2>2. CASE toConflict' = [toConflict EXCEPT ![p] = w]
    BY <2>2, Facts, OneOther
  <2> QED
    BY <2>1, <2>2
<1>4. Asks(q)' = Asks(q) /\ (Ending(q)' <=> Ending(q)) /\ (kill' # NotKilling => kill'.running)
  BY <1>1, TalkFacts DEF Asks, Ending, Attends
<1> QED
  BY <1>1, <1>3, <1>4, ServedStays

LEMMA EngineStatusServes ==
    ASSUME IInv, Serving, NEW p \in Pids, EngineStatus(p), UNCHANGED dlgVars
    PROVE  Serving'
<1> DEFINE e == [jail[p] EXCEPT !.slow = TRUE]
<1>1. /\ jail' = [jail EXCEPT ![p] = e] /\ UNCHANGED <<execVars, toConflict, linked>>
      /\ jail[p].pc = "sync"
  BY DEF EngineStatus
<1>2. e.pc = jail[p].pc
  BY Facts DEF GoodJail, JailFields
<1> HIDE DEF e
<1>3. UNCHANGED <<shown, roster, cur, boxes, kill, conn, callback, appPid, proc>>
  BY <1>1 DEF dlgVars, execVars
<1>4. ASSUME Served(p)
      PROVE  Attends(p)' /\ Talk(p)'
  <2>1. Attends(p) /\ Talk(p)
    BY <1>4, TalkFacts
  <2>2. jail'[p].pc = "sync"
    BY <1>1, <1>2, Facts, OneOther
  <2>3. Idle(p)'
    BY <1>1, <1>3, <2>1 DEF Talk, Idle, Asks, Ending
  <2>4. Talk(p)'
    BY <1>3, <2>1, <2>2, <2>3 DEF Talk, Asks, End
  <2>5. Attends(p)'
    BY <1>1, <1>3, <2>1, <2>2 DEF Attends, End
  <2> QED
    BY <2>4, <2>5
<1> QED
  BY <1>1, <1>4, JailOthers

LEMMA AnsweredServes ==
    ASSUME IInv, Serving, NEW p \in Pids, Answered(p), UNCHANGED dlgVars
    PROVE  Serving'
<1> DEFINE e == [jail[p] EXCEPT !.pc = "sync", !.reply = NoReply, !.told = Unanswered,
                                !.conflict = NoConflict]
<1>1. /\ jail' = [jail EXCEPT ![p] = e] /\ UNCHANGED <<execVars, toConflict, linked>>
      /\ jail[p].pc = "wait" /\ jail[p].reply # NoReply
  BY DEF Answered
<1>2. e.pc = "sync"
  BY Facts DEF GoodJail, JailFields
<1> HIDE DEF e
<1>3. UNCHANGED <<shown, roster, cur, boxes, kill, conn, callback, appPid, proc>>
  BY <1>1 DEF dlgVars, execVars
<1>4. ASSUME Served(p)
      PROVE  Attends(p)' /\ Talk(p)'
  <2>1. Attends(p) /\ Talk(p)
    BY <1>4, TalkFacts
  <2>2. jail'[p].pc = "sync"
    BY <1>1, <1>2, Facts, OneOther
  <2>3. Idle(p)'
    BY <1>1, <1>3, <2>1 DEF Talk, Idle, Asks, Ending
  <2>4. Talk(p)'
    BY <1>3, <2>1, <2>2, <2>3 DEF Talk, Asks, End
  <2>5. Attends(p)'
    BY <1>1, <1>3, <2>1, <2>2 DEF Attends, End
  <2> QED
    BY <2>4, <2>5
<1> QED
  BY <1>1, <1>4, JailOthers

LEMMA HandleConflictServes ==
    ASSUME IInv, Serving, NEW p \in Pids, HandleConflict(p), UNCHANGED dlgVars
    PROVE  Serving'
<1>1. PICK c \in Conflicts :
        LET s == jail[p].seq + 1
            changes == AppendChanges(c)
            start == <<"Start", s, Len(changes), Supported(jail[p].dev, c)>>
            change == [i \in DOMAIN changes |-> <<"Change", s, i, changes[i]>>]
        IN  /\ jail' = [jail EXCEPT ![p].seq = s, ![p].conflict = c, ![p].pc = "wait",
                                    ![p].reply = IF linked[p] THEN NoReply ELSE Null]
            /\ toConflict' = IF linked[p]
                             THEN [toConflict EXCEPT ![p] = @ \o <<start>> \o change \o <<<<"Answer">>>>]
                             ELSE toConflict
  BY DEF HandleConflict
<1>2. PICK z : z = IF linked[p] THEN NoReply ELSE Null
  OBVIOUS
<1>3. PICK s : s = jail[p].seq + 1
  OBVIOUS
<1> DEFINE e == [jail[p] EXCEPT !.seq = s, !.conflict = c, !.pc = "wait", !.reply = z]
           change == [i \in DOMAIN AppendChanges(c) |-> <<"Change", s, i, AppendChanges(c)[i]>>]
           start == <<"Start", s, Len(AppendChanges(c)), Supported(jail[p].dev, c)>>
           w == toConflict[p] \o <<start>> \o change \o <<<<"Answer">>>>
<1>4. jail' = [jail EXCEPT ![p] = e]
  BY <1>1, <1>2, <1>3
<1>5. toConflict' = IF linked[p] THEN [toConflict EXCEPT ![p] = w] ELSE toConflict
  BY <1>1, <1>3
<1>6. /\ e.seq = s /\ e.conflict = c /\ e.pc = "wait" /\ e.reply = z /\ e.dev = jail[p].dev
  BY Facts DEF GoodJail, JailFields
<1> HIDE DEF e
<1>7. /\ UNCHANGED <<shown, roster, cur, boxes, kill, conn, callback, appPid, proc, linked, execVars>>
      /\ jail[p].pc = "sync"
  BY DEF HandleConflict, dlgVars, execVars
<1>8. ASSUME Served(p)
      PROVE  Attends(p)' /\ Talk(p)'
  <2>1. Attends(p) /\ Talk(p)
    BY <1>8, TalkFacts
  <2>2. linked[p] /\ linked'[p] /\ z = NoReply
    BY <1>2, <1>7, <2>1 DEF Attends
  <2>3. jail'[p] = e
    BY <1>4, Facts, OneOther
  <2>4. Idle(p)
    BY <1>7, <2>1 DEF Talk
  <2>5. toConflict'[p] = w
    <3>1. PICK v : v = w
      OBVIOUS
    <3>2. toConflict' = [toConflict EXCEPT ![p] = v]
      BY <1>5, <2>2, <3>1
    <3>3. toConflict'[p] = v
      <4>1. List(toConflict, Len(proc)) /\ p \in 1..Len(proc)
        BY Facts
      <4> QED
        BY <3>2, <4>1 DEF List
    <3> QED
      BY <3>1, <3>3
  <2>6. N(e) \in Nat /\ Changes(e) = AppendChanges(c) /\ DOMAIN AppendChanges(c) = 1..N(e)
        /\ Len(AppendChanges(c)) = N(e)
    <3>1. Changes(e) = AppendChanges(c)
      BY <1>6 DEF Changes
    <3> QED
      BY <1>6, <3>1, ChangesFacts
  <2>7. List(change, N(e)) /\ \A i \in 1..N(e) : change[i] = <<"Change", s, i, Changes(e)[i]>>
    BY <2>6 DEF List
  <2>8. w = <<>> \o <<start>> \o change \o <<<<"Answer">>>>
    BY <2>4 DEF Idle
  <2>9. start = <<"Start", e.seq, N(e), Supported(e.dev, e.conflict)>>
    BY <1>6, <2>6
  <2> HIDE DEF w, change, start
  <2>10. List(w, N(e) + 2) /\ w[1] = start /\ w[N(e) + 2] = <<"Answer">>
         /\ \A i \in 1..N(e) : w[i + 1] = change[i]
    <3>1. PICK a, b : a = start /\ b = <<"Answer">>
      OBVIOUS
    <3>2. w = <<>> \o <<a>> \o change \o <<b>>
      BY <2>8, <3>1
    <3>3. PICK n \in Nat : n = N(e)
      BY <2>6
    <3>4. List(change, n)
      BY <2>7, <3>3
    <3>5. Framed(w, n, a, change, b)
      BY <3>2, <3>4, Written
    <3> QED
      BY <3>1, <3>3, <3>5 DEF Framed
  <2>11. Rest(e, w, 0)
    <3>1. PICK n \in Nat : n = N(e)
      BY <2>6
    <3>2. ASSUME NEW i \in 1..(n + 2)
          PROVE  w[i] = Message(e, i)
      <4>1. CASE i = 1
        BY <2>9, <2>10, <4>1 DEF Message
      <4>2. CASE i = n + 2
        <5>1. i # 1
          BY <4>2
        <5> QED
          BY <2>10, <3>1, <4>2, <5>1 DEF Message
      <4>3. CASE i # 1 /\ i # n + 2
        <5>1. PICK k \in 1..n : i = k + 1
          <6>1. i - 1 \in 1..n /\ i = (i - 1) + 1
            BY <4>3
          <6> QED
            BY <6>1
        <5>2. w[i] = <<"Change", s, k, Changes(e)[k]>>
          BY <2>7, <2>10, <3>1, <5>1
        <5>3. k = i - 1
          BY <5>1
        <5>4. Message(e, i) = <<"Change", e.seq, k, Changes(e)[k]>>
          BY <3>1, <4>3, <5>3 DEF Message
        <5> QED
          BY <1>6, <5>2, <5>4
      <4> QED
        BY <4>1, <4>2, <4>3
    <3>3. n + 2 - 0 = n + 2 /\ 0 \in 0..n + 1 /\ \A i \in 1..(n + 2) : 0 + i = i
      OBVIOUS
    <3> QED
      BY <2>10, <3>1, <3>2, <3>3 DEF Rest
  <2>12. Asks(p)' = Asks(p) /\ Asks(p) = {} /\ ~Ending(p)'
    BY <1>7, <2>4 DEF Asks, Ending, Idle
  <2>13. Reading(p)'
    <3>1. Rest(jail'[p], toConflict'[p], 0) /\ ~(0 > 0) /\ 0 \in Nat
      BY <2>3, <2>5, <2>11
    <3> QED
      BY <2>12, <3>1 DEF Reading
  <2>14. jail'[p].pc = "wait" /\ jail'[p].reply = NoReply
    BY <1>6, <2>2, <2>3
  <2>15. Talk(p)'
    BY <1>7, <2>1, <2>12, <2>13, <2>14 DEF Talk, End
  <2>16. Attends(p)'
    BY <1>7, <2>1, <2>2, <2>14 DEF Attends, End
  <2> QED
    BY <2>15, <2>16
<1>9. \E v : toConflict' = toConflict \/ toConflict' = [toConflict EXCEPT ![p] = v]
  BY <1>5
<1> QED
  BY <1>4, <1>7, <1>8, <1>9, JailOthers

-----------------------------------------------------------------------------
(* The steps of the dialog with the jail p. *)

(* A step about the connection of p leaves the other jails alone. *)
LEMMA TalkOthers ==
    ASSUME IInv, Serving, NEW p \in Pids, UNCHANGED <<execVars, shown, roster, cur, linked>>,
           \A q \in Pids : q # p => /\ jail'[q] = jail[q] /\ conn'[q] = conn[q]
                                    /\ toConflict'[q] = toConflict[q]
                                    /\ Asks(q)' = Asks(q) /\ (Ending(q)' <=> Ending(q)),
           kill' # NotKilling => kill'.running \/ \A q \in Pids : ~Served(q),
           Served(p) => Attends(p)' /\ Talk(p)'
    PROVE  Serving'
<1>1. Pids' = Pids /\ \A q : Served(q)' <=> Served(q)
  BY SameServed
<1> SUFFICES ASSUME NEW q \in Pids, Served(q), q # p
             PROVE  Attends(q)' /\ Talk(q)'
  BY <1>1 DEF Serving
<1>2. kill' # NotKilling => kill'.running
  OBVIOUS
<1> QED
  BY <1>2, ServedStays

(* How the dialog stands to p does not change unless a kill begins. *)
LEMMA AttendsStays ==
    ASSUME NEW p, Attends(p), UNCHANGED <<execVars, shown, roster, cur, linked>>,
           jail'[p].pc = jail[p].pc, kill' # NotKilling => kill'.running
    PROVE  Attends(p)'
BY DEF Attends, execVars, End

(* One entry of each of the lists of connections and messages changes. *)
LEMMA EntriesChange ==
    ASSUME IInv, NEW p \in Pids,
           NEW c, conn' = [conn EXCEPT ![p] = c] \/ (conn' = conn /\ c = conn[p]),
           NEW w, toConflict' = [toConflict EXCEPT ![p] = w]
                  \/ (toConflict' = toConflict /\ w = toConflict[p])
    PROVE  /\ conn'[p] = c /\ toConflict'[p] = w
           /\ \A q \in Pids : q # p => conn'[q] = conn[q] /\ toConflict'[q] = toConflict[q]
<1>1. List(conn, Len(proc)) /\ List(toConflict, Len(proc)) /\ Pids = 1..Len(proc)
  BY Facts
<1>2. conn'[p] = c /\ \A q \in Pids : q # p => conn'[q] = conn[q]
  BY <1>1 DEF List
<1>3. toConflict'[p] = w /\ \A q \in Pids : q # p => toConflict'[q] = toConflict[q]
  BY <1>1 DEF List
<1> QED
  BY <1>2, <1>3

LEMMA ConflictOnPokeServes ==
    ASSUME IInv, Serving, NEW p \in Pids, ConflictOnPoke(p)
    PROVE  Serving'
<1>1. PICK c, w : c = Poke(conn[p], Head(toConflict[p])) /\ w = Tail(toConflict[p])
  OBVIOUS
<1>2. /\ UNCHANGED <<execVars, shown, roster, cur, linked, jail, boxes, kill>>
      /\ Len(toConflict[p]) > 1 /\ kill = NotKilling
      /\ conn' = [conn EXCEPT ![p] = c] /\ toConflict' = [toConflict EXCEPT ![p] = w]
  BY <1>1 DEF ConflictOnPoke, Loop
<1>3. /\ conn'[p] = c /\ toConflict'[p] = w
      /\ \A q \in Pids : q # p => conn'[q] = conn[q] /\ toConflict'[q] = toConflict[q]
  BY <1>2, EntriesChange
<1>4. \A q : Asks(q)' = Asks(q) /\ (Ending(q)' <=> Ending(q))
  BY <1>2 DEF Asks, Ending
<1>5. ASSUME Served(p)
      PROVE  Attends(p)' /\ Talk(p)'
  <2>1. toConflict[p] # <<>>
    BY <1>2
  <2>2. /\ Attends(p) /\ Talk(p) /\ Reading(p) /\ jail[p].pc = "wait" /\ jail[p].reply = NoReply
        /\ N(jail[p]) \in Nat /\ jail[p].seq \in Nat
        /\ jail[p].conflict \in Conflicts \cup {NoConflict}
    BY <1>5, <2>1, TalkFacts
  <2>3. PICK m \in Nat : /\ Rest(jail[p], toConflict[p], m)
                         /\ m > 0 /\ ~conn[p].asking => Knows(jail[p], conn[p], m)
    BY <2>2 DEF Reading
  <2>4. PICK j : j = jail[p]
    OBVIOUS
  <2>5. /\ m \in 0..N(j) /\ Head(toConflict[p]) = Message(j, m + 1) /\ Rest(j, w, m + 1)
    BY <1>1, <1>2, <2>2, <2>3, <2>4, RestTail
  <2>6. DOMAIN conn[p] = ConnFields
    BY <2>2 DEF Talk
  <2>7. DOMAIN c = ConnFields /\ c.asking = conn[p].asking
    BY <1>1, <2>6, PokeFields
  <2>8. ~conn[p].asking => Knows(j, c, m + 1)
    BY <1>1, <2>2, <2>3, <2>4, <2>5, <2>6, PokeKnows
  <2>9. Reading(p)'
    <3>1. Rest(jail'[p], toConflict'[p], m + 1) /\ m + 1 \in Nat
      BY <1>2, <1>3, <2>4, <2>5
    <3>2. ~conn'[p].asking => Knows(jail'[p], conn'[p], m + 1)
      BY <1>2, <1>3, <2>4, <2>7, <2>8
    <3>3. Asks(p)' = {} /\ ~Ending(p)'
      BY <1>4, <2>2 DEF Reading
    <3> QED
      BY <3>1, <3>2, <3>3 DEF Reading
  <2>10. Talk(p)'
    BY <1>2, <1>3, <1>4, <2>2, <2>7, <2>9 DEF Talk, End
  <2>11. Attends(p)'
    BY <1>2, <2>2, AttendsStays
  <2> QED
    BY <2>10, <2>11
<1> QED
  BY <1>2, <1>3, <1>4, <1>5, TalkOthers

(* A box that is answered was the only one of its jail. *)
LEMMA AskedFacts ==
    ASSUME IInv, Serving, NEW p \in Pids, Served(p), Top = ConflictBox(p), boxes' = Front(boxes)
    PROVE  /\ Asking(p) /\ Asks(p)' = {} /\ jail[p].pc = "wait" /\ jail[p].reply = NoReply /\ linked[p]
<1>1. Asks(p)' = Asks(p) \ {Len(boxes)} /\ Len(boxes) \in Asks(p)
  BY OneBoxLess, BoxNames
<1>2. Asking(p) /\ jail[p].pc = "wait" /\ jail[p].reply = NoReply /\ linked[p]
  BY <1>1, TalkFacts
<1> QED
  BY <1>1, <1>2 DEF Asking

LEMMA AskedDomain ==
    ASSUME NEW c, DOMAIN c = ConnFields, NEW f, NEW always
    PROVE  DOMAIN Asked(c, f, always) = ConnFields /\ Asked(c, f, always).asking = FALSE
<1>1. PICK a : Asked(c, f, always) = [c EXCEPT !.asking = FALSE, !.always = a]
  BY DEF Asked, ConnFields
<1> QED
  BY <1>1 DEF ConnFields

(* The answer that p gets is one of its own conflict, as it was chosen. *)
LEMMA ReplyServes ==
    ASSUME IInv, Serving, NEW p \in Pids, Served(p), linked[p], jail[p].pc = "wait",
           NEW c, N(jail[p]) >= 2, Knows(jail[p], c, N(jail[p]) + 1), NEW f, Fair(jail[p], c, f),
           Replied(p, Reply(c, f), Choice(f)), linked' = linked, proc' = proc
    PROVE  jail'[p].pc = "wait" /\ jail'[p].reply # NoReply /\ AsAnswered(p)'
<1>1. Alive(p) /\ jail[p].conflict \in Conflicts \cup {NoConflict}
  BY TalkFacts
<1>2. PICK k : k = jail'[p]
  OBVIOUS
<1>3. /\ k.reply = Reply(c, f) /\ k.told = Choice(f) /\ k.pc = "wait" /\ k.seq = jail[p].seq
      /\ k.conflict = jail[p].conflict /\ k.dev = jail[p].dev
  BY <1>1, <1>2, RepliedTo
<1>4. k.reply = <<"reply", c.seq, f.cmd, f.change.id>>
  BY <1>3 DEF Reply
<1>5. N(k) = N(jail[p]) /\ Knows(k, c, N(k) + 1)
  <2>1. PICK j : j = jail[p]
    OBVIOUS
  <2>2. N(k) = N(j) /\ (Knows(k, c, N(j) + 1) <=> Knows(j, c, N(j) + 1))
    BY <1>3, <2>1, SameKnows
  <2> QED
    BY <2>1, <2>2
<1>6. Fair(k, c, f)
  BY <1>3, <1>5 DEF Fair
<1>7. /\ k.told.by \in {"user", "favour"} => Result(k) = k.told.what
      /\ Result(k)[1] \in {"lost", "refused"} =>
             k.told.by = "always" /\ k.told.what[1] \notin Supported(k.dev, k.conflict)
  BY <1>1, <1>3, <1>4, <1>5, <1>6, ReplyResolves
<1>8. Resolve(p)' = Result(k)
  BY <1>2 DEF Resolve, Result
<1>9. AsAnswered(p)'
  BY <1>2, <1>7, <1>8 DEF AsAnswered, MayStayUnresolved
<1> QED
  BY <1>2, <1>3, <1>4, <1>9, ReplyNames

-----------------------------------------------------------------------------
(* Which answers are offered and remembered. *)

LEMMA KnowsAll ==
    ASSUME NEW j, N(j) \in Nat, NEW c, Knows(j, c, N(j) + 1), N(j) >= 2
    PROVE  /\ c.seq = j.seq /\ c.offset = N(j) /\ c.expected = N(j)
           /\ c.supported = Supported(j.dev, j.conflict)
           /\ DOMAIN c.changes = 1..N(j) /\ Len(c.changes) = N(j)
<1>1. PICK n \in Nat : n = N(j) /\ n >= 2
  OBVIOUS
<1>2. (n + 1) - 1 = n /\ ~(n < 2)
  BY <1>1
<1>3. /\ c.seq = j.seq /\ c.offset = (n + 1) - 1 /\ c.expected = n
      /\ c.supported = Supported(j.dev, j.conflict)
      /\ List(c.changes, (n + 1) - 1)
  BY <1>1, <1>2, Zenon DEF Knows
<1>4. List(c.changes, n)
  BY <1>2, <1>3
<1>5. DOMAIN c.changes = 1..n
  BY <1>4, ListFacts
<1>6. Len(c.changes) = n
  <2>1. PICK s : s = c.changes
    OBVIOUS
  <2>2. s = [i \in 1..n |-> s[i]]
    BY <1>4, <2>1 DEF List
  <2>3. Len([i \in 1..n |-> s[i]]) = n
    OBVIOUS
  <2> QED
    BY <2>1, <2>2, <2>3
<1> QED
  BY <1>1, <1>2, <1>3, <1>5, <1>6

LEMMA ButtonsFair ==
    ASSUME NEW j, N(j) \in Nat, NEW c, Knows(j, c, N(j) + 1), N(j) >= 2, NEW f \in Buttons(c)
    PROVE  Fair(j, c, f)
<1>1. c.supported = Supported(j.dev, j.conflict) /\ DOMAIN c.changes = 1..N(j)
  BY KnowsAll
<1>2. "S" \in Supported(j.dev, j.conflict)
  BY SupportedNames
<1>3. CASE \E i \in DOMAIN c.changes : f = [by |-> "user", cmd |-> "S", change |-> c.changes[i]]
  <2>1. PICK i \in 1..N(j) : f = [by |-> "user", cmd |-> "S", change |-> c.changes[i]]
    BY <1>1, <1>3
  <2>2. f.by = "user" /\ f.cmd = "S" /\ f.change = c.changes[i]
    BY <2>1
  <2> QED
    BY <1>2, <2>2 DEF Fair
<1>4. CASE \E x \in c.supported \ {"S"} : f = [by |-> "user", cmd |-> x, change |-> NoChange]
  <2>1. PICK x \in c.supported \ {"S"} : f = [by |-> "user", cmd |-> x, change |-> NoChange]
    BY <1>4
  <2>2. f.by = "user" /\ f.cmd = x
    BY <2>1
  <2> QED
    BY <1>1, <2>1, <2>2 DEF Fair
<1> QED
  BY <1>3, <1>4, Zenon DEF Buttons

LEMMA RememberedFair ==
    ASSUME NEW j, N(j) \in Nat, NEW c, Knows(j, c, N(j) + 1), N(j) >= 2, NEW f \in Remembered(c)
    PROVE  Fair(j, c, f)
<1> DEFINE of(name) == {i \in DOMAIN c.changes : c.changes[i].plugin = name}
<1>1. DOMAIN c.changes = 1..N(j)
  BY KnowsAll
<1>2. "S" \in Supported(j.dev, j.conflict)
  BY SupportedNames
<1>3. ASSUME NEW x, of(x) # {}
      PROVE  Min(of(x)) \in 1..N(j)
  <2>1. of(x) \in SUBSET Nat /\ of(x) \subseteq 1..N(j)
    BY <1>1
  <2>2. Min(of(x)) \in of(x)
    BY <1>3, <2>1, MinFacts
  <2> QED
    BY <2>1, <2>2
<1>4. \/ /\ of(c.always.favour) # {}
         /\ f = [by |-> "favour", cmd |-> "S", change |-> c.changes[Min(of(c.always.favour))]]
      \/ /\ of(c.always.plugin) # {}
         /\ f = [by |-> "always", cmd |-> "S", change |-> c.changes[Min(of(c.always.plugin))]]
      \/ /\ c.always.last # "S"
         /\ f = [by |-> "always", cmd |-> c.always.last, change |-> NoChange]
  BY DEF Remembered
<1> HIDE DEF of
<1>5. CASE \E x : of(x) # {} /\ \E b \in {"favour", "always"} :
              f = [by |-> b, cmd |-> "S", change |-> c.changes[Min(of(x))]]
  <2>1. PICK x, b : /\ of(x) # {} /\ b \in {"favour", "always"}
                    /\ f = [by |-> b, cmd |-> "S", change |-> c.changes[Min(of(x))]]
    BY <1>5
  <2>2. f.by = b /\ f.cmd = "S" /\ f.change = c.changes[Min(of(x))]
    BY <2>1
  <2>3. Min(of(x)) \in 1..N(j)
    BY <1>3, <2>1
  <2> QED
    BY <1>2, <2>1, <2>2, <2>3 DEF Fair
<1>6. CASE /\ c.always.last # "S"
           /\ f = [by |-> "always", cmd |-> c.always.last, change |-> NoChange]
  <2>1. f.by = "always" /\ f.cmd # "S"
    BY <1>6
  <2> QED
    BY <2>1 DEF Fair
<1> QED
  BY <1>4, <1>5, <1>6

LEMMA ConflictAnsweredServes ==
    ASSUME IInv, Serving, NEW p \in Pids, ConflictAnswered(p)
    PROVE  Serving'
<1>1. /\ UNCHANGED <<execVars, shown, roster, cur, linked, toConflict, kill>>
      /\ kill = NotKilling /\ Top = ConflictBox(p) /\ boxes' = Front(boxes)
  BY DEF ConflictAnswered, Loop
<1>2. PICK f \in Buttons(conn[p]), always \in BOOLEAN :
          /\ conn' = [conn EXCEPT ![p] = Asked(conn[p], f, always)]
          /\ Replied(p, Reply(conn[p], f), Choice(f))
  BY DEF ConflictAnswered
<1>3. PICK c : c = Asked(conn[p], f, always)
  OBVIOUS
<1>4. conn' = [conn EXCEPT ![p] = c]
  BY <1>2, <1>3
<1>5. /\ conn'[p] = c /\ toConflict'[p] = toConflict[p]
      /\ \A q \in Pids : q # p => conn'[q] = conn[q] /\ toConflict'[q] = toConflict[q]
  BY <1>1, <1>4, EntriesChange
<1>6. \A q \in Pids : q # p => jail'[q] = jail[q]
  BY <1>2, RepliedTo
<1>7. \A q : ~Ending(q) /\ ~Ending(q)'
  BY <1>1, NoEnding DEF Ending, NotKilling
<1>8. \A q : q # p => Asks(q)' = Asks(q)
  BY <1>1, OneBoxLess, BoxNames
<1>9. ASSUME Served(p)
      PROVE  Attends(p)' /\ Talk(p)'
  <2>1. Asking(p) /\ Asks(p)' = {} /\ jail[p].pc = "wait" /\ jail[p].reply = NoReply /\ linked[p]
    BY <1>1, <1>9, AskedFacts
  <2>2. /\ Attends(p) /\ Talk(p) /\ N(jail[p]) \in Nat
    BY <1>9, TalkFacts
  <2>3. toConflict[p] = <<>> /\ N(jail[p]) >= 2 /\ Knows(jail[p], conn[p], N(jail[p]) + 1)
    BY <2>1 DEF Asking
  <2>4. Fair(jail[p], conn[p], f)
    BY <2>2, <2>3, ButtonsFair
  <2>5. jail'[p].pc = "wait" /\ jail'[p].reply # NoReply /\ AsAnswered(p)'
    BY <1>1, <1>2, <1>9, <2>1, <2>3, <2>4, ReplyServes DEF execVars
  <2>6. DOMAIN conn'[p] = ConnFields /\ ~conn'[p].asking
    <3>1. PICK d : d = conn[p]
      OBVIOUS
    <3>2. DOMAIN d = ConnFields
      BY <2>2, <3>1 DEF Talk
    <3>3. DOMAIN c = ConnFields /\ c.asking = FALSE
      <4>1. PICK g : c = Asked(d, g, always)
        BY <1>3, <3>1
      <4>2. DOMAIN Asked(d, g, always) = ConnFields /\ Asked(d, g, always).asking = FALSE
        BY <3>2, AskedDomain
      <4> QED
        BY <4>1, <4>2
    <3> QED
      BY <1>5, <3>3
  <2>7. Idle(p)'
    BY <1>5, <1>7, <2>1, <2>3 DEF Idle
  <2>8. Talk(p)'
    BY <2>5, <2>6, <2>7 DEF Talk
  <2>9. Attends(p)'
    BY <1>1, <2>1, <2>2, <2>5, AttendsStays
  <2> QED
    BY <2>8, <2>9
<1> QED
  BY <1>1, <1>5, <1>6, <1>7, <1>8, <1>9, TalkOthers

LEMMA ConflictKilledServes ==
    ASSUME IInv, Serving, NEW p \in Pids, ConflictKilled(p)
    PROVE  Serving'
<1>1. /\ UNCHANGED <<execVars, jail, shown, roster, cur, linked, toConflict>>
      /\ kill = NotKilling /\ Top = ConflictBox(p) /\ boxes' = Front(boxes)
      /\ kill' = [by |-> "conflict", jail |-> p, running |-> IsAppRunning]
  BY DEF ConflictKilled, Loop, jailVars, KillSync
<1>2. PICK always \in BOOLEAN : conn' = [conn EXCEPT ![p] = Asked(conn[p], KillButton, always)]
  BY DEF ConflictKilled
<1>3. PICK c : c = Asked(conn[p], KillButton, always)
  OBVIOUS
<1>4. conn' = [conn EXCEPT ![p] = c]
  BY <1>2, <1>3
<1>5. /\ conn'[p] = c /\ toConflict'[p] = toConflict[p]
      /\ \A q \in Pids : q # p => conn'[q] = conn[q] /\ toConflict'[q] = toConflict[q]
  BY <1>1, <1>4, EntriesChange
<1>6. kill'.by = "conflict" /\ kill'.jail = p /\ (kill'.running <=> IsAppRunning)
  BY <1>1
<1>7. Ending(p)' /\ \A q : ~Ending(q) /\ (q # p => ~Ending(q)')
  BY <1>1, <1>6, NoEnding DEF Ending
<1>8. \A q : q # p => Asks(q)' = Asks(q)
  BY <1>1, OneBoxLess, BoxNames
<1>9. kill'.running \/ \A q \in Pids : ~Served(q)
  BY <1>6, ServedRuns
<1>10. ASSUME Served(p)
       PROVE  Attends(p)' /\ Talk(p)'
  <2>1. Asking(p) /\ Asks(p)' = {} /\ jail[p].pc = "wait" /\ jail[p].reply = NoReply /\ linked[p]
    BY <1>1, <1>10, AskedFacts
  <2>2. Attends(p) /\ Talk(p)
    BY <1>10, TalkFacts
  <2>3. DOMAIN conn'[p] = ConnFields /\ ~conn'[p].asking
    <3>1. PICK d : d = conn[p]
      OBVIOUS
    <3>2. DOMAIN d = ConnFields
      BY <2>2, <3>1 DEF Talk
    <3>3. DOMAIN c = ConnFields /\ c.asking = FALSE
      <4>1. PICK g : c = Asked(d, g, always)
        BY <1>3, <3>1
      <4>2. DOMAIN Asked(d, g, always) = ConnFields /\ Asked(d, g, always).asking = FALSE
        BY <3>2, AskedDomain
      <4> QED
        BY <4>1, <4>2
    <3> QED
      BY <1>5, <3>3
  <2>4. KilledBy(p)'
    BY <1>5, <1>7, <2>1 DEF KilledBy, Asking
  <2>5. Talk(p)'
    BY <1>1, <2>1, <2>3, <2>4 DEF Talk
  <2>6. Attends(p)'
    BY <1>1, <1>9, <1>10, <2>1, <2>2, AttendsStays
  <2> QED
    BY <2>5, <2>6
<1> QED
  BY <1>1, <1>5, <1>7, <1>8, <1>9, <1>10, TalkOthers

-----------------------------------------------------------------------------
(* The request. *)

LEMMA ListLen ==
    ASSUME NEW k \in Nat, NEW s, List(s, k)
    PROVE  Len(s) = k
<1>1. s = [i \in 1..k |-> s[i]]
  BY DEF List
<1>2. Len([i \in 1..k |-> s[i]]) = k
  OBVIOUS
<1> QED
  BY <1>1, <1>2

(* What is known when the request comes. *)
LEMMA RequestFacts ==
    ASSUME IInv, Serving, NEW p \in Pids, Served(p), Len(toConflict[p]) = 1
    PROVE  /\ jail[p].pc = "wait" /\ jail[p].reply = NoReply /\ linked[p] /\ Asks(p) = {}
           /\ conn[p].asking => cur = End
           /\ cur = End => proc[p].sig # "none"
           /\ ~conn[p].asking => Knows(jail[p], conn[p], N(jail[p]) + 1)
<1>1. toConflict[p] # <<>>
  OBVIOUS
<1>2. /\ Attends(p) /\ Talk(p) /\ Reading(p) /\ jail[p].pc = "wait" /\ jail[p].reply = NoReply
      /\ linked[p] /\ N(jail[p]) \in Nat
  BY <1>1, TalkFacts
<1>3. PICK m \in Nat : /\ Rest(jail[p], toConflict[p], m)
                       /\ m > 0 /\ ~conn[p].asking => Knows(jail[p], conn[p], m)
  BY <1>2 DEF Reading
<1>4. PICK n \in Nat : n = N(jail[p])
  BY <1>2
<1>5. m \in 0..n + 1 /\ List(toConflict[p], n + 2 - m)
  BY <1>3, <1>4 DEF Rest
<1>6. m = n + 1 /\ m > 0
  <2>1. n + 2 - m \in Nat
    BY <1>5
  <2>2. Len(toConflict[p]) = n + 2 - m
    BY <1>5, <2>1, ListLen
  <2>3. n + 2 - m = 1
    BY <2>2
  <2> QED
    BY <1>5, <2>3
<1>7. Asks(p) = {}
  BY <1>2 DEF Reading
<1>8. conn[p].asking => cur = End
  BY <1>2, <1>7 DEF Talk
<1>9. cur = End => proc[p].sig # "none"
  BY <1>2 DEF Attends
<1> QED
  BY <1>2, <1>3, <1>4, <1>6, <1>7, <1>8, <1>9

(* A conflict is asked about if it has two known changes, and only then. *)
LEMMA ValidIs ==
    ASSUME NEW j, N(j) \in Nat, j.seq \in Nat, NEW c, Knows(j, c, N(j) + 1)
    PROVE  ValidRequest(c) <=> N(j) >= 2
<1>1. CASE N(j) < 2
  <2>1. c.seq = -1
    BY <1>1 DEF Knows
  <2> QED
    BY <1>1, <2>1 DEF ValidRequest
<1>2. CASE N(j) >= 2
  <2>1. c.seq = j.seq /\ c.offset = N(j) /\ c.expected = N(j) /\ Len(c.changes) = N(j)
    BY <1>2, KnowsAll
  <2>2. j.seq # -1 /\ N(j) # -1
    OBVIOUS
  <2> QED
    BY <1>2, <2>1, <2>2 DEF ValidRequest
<1> QED
  BY <1>1, <1>2

(* A request that comes to nothing. *)
LEMMA NullServes ==
    ASSUME IInv, Serving, NEW p \in Pids, Served(p), linked[p], jail[p].pc = "wait",
           Replied(p, Null, Unanswered), N(jail[p]) < 2 \/ proc'[p].sig # "none"
    PROVE  jail'[p].pc = "wait" /\ jail'[p].reply # NoReply /\ AsAnswered(p)'
<1>1. Alive(p) /\ jail[p].conflict \in Conflicts \cup {NoConflict}
  BY TalkFacts
<1>2. /\ jail'[p].reply = Null /\ jail'[p].told = Unanswered /\ jail'[p].pc = "wait"
      /\ jail'[p].seq = jail[p].seq /\ jail'[p].conflict = jail[p].conflict
      /\ jail'[p].dev = jail[p].dev
  BY <1>1, RepliedTo
<1>3. N(jail'[p]) = N(jail[p])
  BY <1>2 DEF N
<1>4. AsAnswered(p)'
  BY <1>1, <1>2, <1>3, NullResolves
<1> QED
  BY <1>2, <1>4, ReplyNames

(* A connection in which only m_asking_user changes. *)
LEMMA OnlyAsking ==
    ASSUME NEW c, DOMAIN c = ConnFields, NEW b
    PROVE  /\ DOMAIN [c EXCEPT !.asking = b] = ConnFields /\ [c EXCEPT !.asking = b].asking = b
           /\ \A j, m : Knows(j, c, m) => Knows(j, [c EXCEPT !.asking = b], m)
<1>1. PICK d : d = [c EXCEPT !.asking = b]
  OBVIOUS
<1>2. /\ DOMAIN d = ConnFields /\ d.asking = b
      /\ d.seq = c.seq /\ d.offset = c.offset /\ d.expected = c.expected
      /\ d.supported = c.supported /\ d.changes = c.changes
  BY <1>1 DEF ConnFields
<1>3. \A j, m : Knows(j, c, m) => Knows(j, d, m)
  BY <1>2, Zenon DEF Knows
<1> QED
  BY <1>1, <1>2, <1>3

(* The request of a jail that is served: it is answered, or a box is up. *)
LEMMA RequestServed ==
    ASSUME IInv, Serving, NEW p \in Pids, Served(p), OnRequest(p)
    PROVE  Attends(p)' /\ Talk(p)'
<1>1. /\ UNCHANGED <<execVars, shown, roster, cur, linked, kill>>
      /\ Len(toConflict[p]) = 1 /\ kill = NotKilling
      /\ toConflict' = [toConflict EXCEPT ![p] = <<>>]
  BY DEF OnRequest, Loop
<1>2. proc' = proc /\ End' = End /\ ~Ending(p)'
  BY <1>1, NoEnding DEF execVars, End, Ending, NotKilling
<1>3. toConflict'[p] = <<>>
  <2>1. List(toConflict, Len(proc)) /\ p \in 1..Len(proc)
    BY Facts
  <2> QED
    BY <1>1, <2>1 DEF List
<1>4. /\ Attends(p) /\ Talk(p) /\ Alive(p) /\ N(jail[p]) \in Nat /\ jail[p].seq \in Nat
  BY TalkFacts
<1>5. /\ jail[p].pc = "wait" /\ jail[p].reply = NoReply /\ linked[p] /\ Asks(p) = {}
      /\ conn[p].asking => cur = End
      /\ cur = End => proc[p].sig # "none"
      /\ ~conn[p].asking => Knows(jail[p], conn[p], N(jail[p]) + 1)
  BY <1>1, RequestFacts
<1>6. PICK c : c = conn[p]
  OBVIOUS
<1>7. DOMAIN c = ConnFields
  BY <1>4, <1>6 DEF Talk
<1>8. ~conn[p].asking => (ValidRequest(c) <=> N(jail[p]) >= 2)
  BY <1>4, <1>5, <1>6, ValidIs
<1>9. ASSUME jail'[p].pc = "wait", jail'[p].reply # NoReply, AsAnswered(p)', boxes' = boxes,
             DOMAIN conn'[p] = ConnFields, conn'[p].asking => cur = End
      PROVE  Attends(p)' /\ Talk(p)'
  <2>1. Asks(p)' = {}
    BY <1>5, <1>9 DEF Asks
  <2>2. Idle(p)'
    BY <1>2, <1>3, <2>1 DEF Idle
  <2>3. Talk(p)'
    BY <1>1, <1>2, <1>9, <2>2 DEF Talk
  <2>4. Attends(p)'
    BY <1>1, <1>4, <1>5, <1>9, AttendsStays
  <2> QED
    BY <2>3, <2>4
<1>10. CASE /\ ~ValidRequest(c) /\ NullReply(p) /\ UNCHANGED <<conn, boxes>>
  <2>1. N(jail[p]) < 2 \/ proc'[p].sig # "none"
    BY <1>2, <1>4, <1>5, <1>8, <1>10
  <2>2. jail'[p].pc = "wait" /\ jail'[p].reply # NoReply /\ AsAnswered(p)'
    BY <1>5, <1>10, <2>1, NullServes DEF NullReply
  <2> QED
    BY <1>5, <1>6, <1>7, <1>9, <1>10, <2>2
<1>11. CASE /\ GetCurrentDevice = {} /\ NullReply(p) /\ UNCHANGED boxes
            /\ conn' = [conn EXCEPT ![p].asking = TRUE]
  <2>1. cur = End
    BY <1>11 DEF GetCurrentDevice
  <2>2. jail'[p].pc = "wait" /\ jail'[p].reply # NoReply /\ AsAnswered(p)'
    BY <1>2, <1>5, <1>11, <2>1, NullServes DEF NullReply
  <2>3. PICK d : d = [c EXCEPT !.asking = TRUE]
    OBVIOUS
  <2>4. conn'[p] = d
    <3>1. conn' = [conn EXCEPT ![p] = d]
      BY <1>6, <1>11, <2>3
    <3>2. List(conn, Len(proc)) /\ p \in 1..Len(proc)
      BY Facts
    <3> QED
      BY <3>1, <3>2 DEF List
  <2>5. DOMAIN conn'[p] = ConnFields
    BY <1>7, <2>3, <2>4, OnlyAsking
  <2> QED
    BY <1>9, <1>11, <2>1, <2>2, <2>5
<1>12. CASE /\ ValidRequest(c) /\ GetCurrentDevice # {} /\ UNCHANGED boxes
            /\ \E f \in Remembered(c) : Replied(p, Reply(c, f), Choice(f))
            /\ conn' = [conn EXCEPT ![p].asking = FALSE]
  <2>1. cur # End
    BY <1>12 DEF GetCurrentDevice
  <2>2. N(jail[p]) >= 2 /\ Knows(jail[p], c, N(jail[p]) + 1)
    BY <1>5, <1>6, <1>8, <1>12, <2>1
  <2>3. PICK f \in Remembered(c) : Replied(p, Reply(c, f), Choice(f))
    BY <1>12
  <2>4. Fair(jail[p], c, f)
    BY <1>4, <2>2, RememberedFair
  <2>5. jail'[p].pc = "wait" /\ jail'[p].reply # NoReply /\ AsAnswered(p)'
    BY <1>1, <1>2, <1>5, <2>2, <2>3, <2>4, ReplyServes
  <2>6. PICK d : d = [c EXCEPT !.asking = FALSE]
    OBVIOUS
  <2>7. conn'[p] = d
    <3>1. conn' = [conn EXCEPT ![p] = d]
      BY <1>6, <1>12, <2>6
    <3>2. List(conn, Len(proc)) /\ p \in 1..Len(proc)
      BY Facts
    <3> QED
      BY <3>1, <3>2 DEF List
  <2>8. DOMAIN conn'[p] = ConnFields /\ ~conn'[p].asking
    <3>1. DOMAIN d = ConnFields /\ d.asking = FALSE
      BY <1>7, <2>6, OnlyAsking
    <3> QED
      BY <2>7, <3>1
  <2> QED
    BY <1>9, <1>12, <2>5, <2>8
<1>13. CASE /\ ValidRequest(c) /\ GetCurrentDevice # {} /\ UNCHANGED jail
            /\ conn' = [conn EXCEPT ![p].asking = TRUE]
            /\ boxes' = Append(boxes, ConflictBox(p))
  <2>1. cur # End
    BY <1>13 DEF GetCurrentDevice
  <2>2. N(jail[p]) >= 2 /\ Knows(jail[p], c, N(jail[p]) + 1)
    BY <1>5, <1>6, <1>8, <1>13, <2>1
  <2>3. PICK d : d = [c EXCEPT !.asking = TRUE]
    OBVIOUS
  <2>4. conn'[p] = d
    <3>1. conn' = [conn EXCEPT ![p] = d]
      BY <1>6, <1>13, <2>3
    <3>2. List(conn, Len(proc)) /\ p \in 1..Len(proc)
      BY Facts
    <3> QED
      BY <3>1, <3>2 DEF List
  <2>5. DOMAIN d = ConnFields /\ Knows(jail[p], d, N(jail[p]) + 1)
    <3>1. PICK j : j = jail[p]
      OBVIOUS
    <3>2. PICK m : m = N(j) + 1
      OBVIOUS
    <3>3. Knows(j, c, m)
      BY <2>2, <3>1, <3>2
    <3>4. Knows(j, d, m) /\ DOMAIN d = ConnFields
      BY <1>7, <2>3, <3>3, OnlyAsking
    <3> QED
      BY <3>1, <3>2, <3>4
  <2>6. Asks(p)' = {Len(boxes) + 1} /\ Len(boxes) + 1 \in Nat
    BY <1>5, <1>13, OneMoreBox
  <2>7. jail'[p] = jail[p]
    BY <1>13
  <2>8. Asking(p)'
    BY <1>2, <1>3, <2>2, <2>4, <2>5, <2>6, <2>7 DEF Asking
  <2>9. Talk(p)'
    BY <1>5, <2>4, <2>5, <2>6, <2>7, <2>8 DEF Talk
  <2>10. Attends(p)'
    BY <1>1, <1>4, <2>7, AttendsStays
  <2> QED
    BY <2>9, <2>10
<1> QED
  BY <1>6, <1>10, <1>11, <1>12, <1>13, Zenon DEF OnRequest

LEMMA OnRequestServes ==
    ASSUME IInv, Serving, NEW p \in Pids, OnRequest(p)
    PROVE  Serving'
<1>1. /\ UNCHANGED <<execVars, shown, roster, cur, linked, kill>>
      /\ kill = NotKilling
      /\ toConflict' = [toConflict EXCEPT ![p] = <<>>]
  BY DEF OnRequest, Loop
<1>2. \A q \in Pids : q # p => jail'[q] = jail[q]
  <2>1. UNCHANGED jail \/ \E r, choice : Replied(p, r, choice)
    BY Zenon DEF OnRequest, NullReply
  <2> QED
    BY <2>1, RepliedTo
<1>3. \A q \in Pids : q # p => conn'[q] = conn[q]
  <2>1. conn' = conn \/ \E c : conn' = [conn EXCEPT ![p] = c]
    BY DEF OnRequest
  <2>2. List(conn, Len(proc)) /\ Pids = 1..Len(proc)
    BY Facts
  <2> QED
    BY <2>1, <2>2 DEF List
<1>4. \A q \in Pids : q # p => toConflict'[q] = toConflict[q]
  BY <1>1, Facts, OneOther
<1>5. \A q : Ending(q)' <=> Ending(q)
  BY <1>1 DEF Ending
<1>6. \A q : q # p => Asks(q)' = Asks(q)
  <2>1. boxes' = boxes \/ boxes' = Append(boxes, ConflictBox(p))
    BY DEF OnRequest
  <2>2. CASE boxes' = boxes
    BY <2>2 DEF Asks
  <2>3. CASE boxes' = Append(boxes, ConflictBox(p))
    BY <2>3, OneMoreBox, BoxNames
  <2> QED
    BY <2>1, <2>2, <2>3
<1> QED
  BY <1>1, <1>2, <1>3, <1>4, <1>5, <1>6, RequestServed, TalkOthers

-----------------------------------------------------------------------------
(* A stop reaches the jail that is served. *)

LEMMA SignalledHits ==
    ASSUME NEW q \in Pids, Alive(q), appPid = q, q # 0, NEW hard
    PROVE  Signalled(hard)[q].sig # "none"
<1> DEFINE sig == IF hard THEN "kill" ELSE "term"
           hit == IF appPid = 0 THEN {p \in Pids : Alive(p)} ELSE {p \in {appPid} : Alive(p)}
<1>1. Signalled(hard)[q] = IF q \in hit /\ proc[q].sig # "kill"
                           THEN [proc[q] EXCEPT !.sig = sig] ELSE proc[q]
  BY DEF Signalled
<1>2. q \in hit
  OBVIOUS
<1>3. sig # "none" /\ "kill" # "none"
  OBVIOUS
<1> HIDE DEF hit, sig
<1>4. CASE proc[q].sig = "kill"
  BY <1>1, <1>3, <1>4
<1>5. CASE proc[q].sig # "kill"
  BY <1>1, <1>2, <1>3, <1>5
<1> QED
  BY <1>4, <1>5

LEMMA KillSyncSignalsServes ==
    ASSUME IInv, Serving, KillSyncSignals
    PROVE  Serving'
<1>1. /\ UNCHANGED <<attached, callback, appPid, toConflict, linked, shown, roster, boxes, conn>>
      /\ kill # NotKilling /\ kill' = NotKilling /\ cur' = End /\ End' = End
      /\ proc' \in {proc, Signalled(killing)}
      /\ kill.running => proc' = Signalled(killing)
  BY DEF KillSyncSignals, KillSyncJumps, KillApp, End
<1>2. proc \in Seq(Child)
  BY DEF IInv, Children
<1>3. proc' \in Seq(Child) /\ Len(proc') = Len(proc) /\ \A q \in Pids : proc'[q].st = proc[q].st
  BY <1>1, <1>2, SignalledFacts
<1>4. Pids' = Pids
  BY <1>2, <1>3 DEF Pids
<1> SUFFICES ASSUME NEW q \in Pids, Served(q)'
             PROVE  Attends(q)' /\ Talk(q)'
  BY <1>4 DEF Serving
<1>5. Served(q)
  BY <1>1, <1>3 DEF Served, Alive
<1>6. Attends(q) /\ Talk(q) /\ Alive(q) /\ q # 0
  BY <1>5, TalkFacts, ServedRuns
<1>7. proc'[q].sig # "none"
  <2>1. kill.running /\ appPid = q
    BY <1>1, <1>6 DEF Attends
  <2> QED
    BY <1>1, <1>6, <2>1, SignalledHits
<1>8. ~Ending(q)' /\ Asks(q)' = Asks(q)
  BY <1>1 DEF Ending, NotKilling, Asks
<1>9. CASE Ending(q)
  <2>1. /\ KilledBy(q) /\ jail[q].pc = "wait" /\ jail[q].reply = NoReply /\ linked[q]
    <3>1. ~Idle(q) /\ ~Reading(q) /\ ~Asking(q)
      BY <1>9 DEF Idle, Reading, Asking
    <3>2. jail[q].pc = "wait"
      BY <1>6, <3>1 DEF Talk, Attends
    <3> QED
      BY <1>6, <3>1, <3>2 DEF Talk, Attends
  <2>2. Replied(q, Null, Unanswered)
    BY <1>9 DEF KillSyncSignals, Ending
  <2>3. jail'[q].pc = "wait" /\ jail'[q].reply # NoReply /\ AsAnswered(q)'
    BY <1>5, <1>7, <2>1, <2>2, NullServes
  <2>4. Idle(q)'
    BY <1>1, <1>8, <2>1 DEF Idle, KilledBy
  <2>5. Talk(q)'
    BY <1>1, <1>6, <2>3, <2>4 DEF Talk
  <2>6. Attends(q)'
    BY <1>1, <1>6, <1>7, <2>1, <2>3 DEF Attends
  <2> QED
    BY <2>5, <2>6
<1>10. CASE ~Ending(q)
  <2>1. jail'[q] = jail[q]
    <3>1. CASE kill.by = "conflict"
      <4>1. kill.jail # q
        BY <1>10, <3>1 DEF Ending
      <4>2. jail' = jail \/ \E e : jail' = [jail EXCEPT ![kill.jail] = e]
        BY <3>1 DEF KillSyncSignals, Replied
      <4> QED
        BY <4>1, <4>2, Facts, OneOther
    <3>2. CASE kill.by # "conflict"
      BY <3>2 DEF KillSyncSignals
    <3> QED
      BY <3>1, <3>2
  <2>2. Talk(q)'
    BY <1>1, <1>6, <1>7, <1>8, <1>10, <2>1, TalkStays
  <2>3. Attends(q)'
    BY <1>1, <1>6, <1>7, <2>1 DEF Attends
  <2> QED
    BY <2>2, <2>3
<1> QED
  BY <1>9, <1>10

-----------------------------------------------------------------------------
(* The second invariant, and what it says of the answers. *)

LEMMA InitServes == Init => Serving
<1> SUFFICES ASSUME Init PROVE Serving
  OBVIOUS
<1>1. Pids = {}
  BY DEF Init, ExecInit, Pids
<1> QED
  BY <1>1 DEF Serving

LEMMA JailStepServes ==
    ASSUME IInv, Serving, NEW p \in Pids, JailStep(p)
    PROVE  Serving'
<1>1. UNCHANGED dlgVars
  BY DEF JailStep
<1>2. CASE JailExits(p) \/ JailKilled(p) \/ JailCrashes(p)
  <2>1. JailEnds(p)
    BY <1>2 DEF JailExits, JailKilled, JailCrashes
  <2> QED
    BY <1>1, <2>1, JailEndsServes
<1> QED
  BY <1>1, <1>2, EngineStatusServes, HandleConflictServes, AnsweredServes DEF JailStep

LEMMA ServingStep == IInv /\ Serving /\ [Next]_vars => Serving'
<1> SUFFICES ASSUME IInv, Serving, [Next]_vars PROVE Serving'
  OBVIOUS
<1>1. CASE DialogStep
  <2>1. CASE OnSyncNow \/ OnSyncAgain \/ OnExecTerminated
    BY <2>1, RosterServes
  <2>2. CASE OnKillClose \/ KillAnswered \/ WindowClosed \/ \E p \in Pids : StatusOnPoke(p)
    BY <2>2, ClicksServe
  <2>3. CASE KillSyncSignals \/ Destroyed
    BY <2>3, KillSyncSignalsServes, DestroyedServes
  <2>4. ASSUME NEW p \in Pids, ConflictAnswered(p) \/ ConflictKilled(p)
        PROVE  Serving'
    BY <2>4, ConflictAnsweredServes, ConflictKilledServes
  <2>5. ASSUME NEW p \in Pids, Connect(p) \/ ReadsConflict(p)
        PROVE  Serving'
    BY <2>5, ConnectServes, ConflictOnPokeServes, OnRequestServes DEF ReadsConflict
  <2> QED
    BY <1>1, <2>1, <2>2, <2>3, <2>4, <2>5, Zenon DEF DialogStep, AnswersBox
<1>2. ASSUME NEW p \in Pids, JailStep(p)
      PROVE  Serving'
  BY <1>2, JailStepServes
<1>3. ASSUME NEW p \in Pids, WaitThread(p)
      PROVE  Serving'
  BY <1>3, ProcessesServe DEF WaitThread
<1>4. CASE UNCHANGED vars
  <2>1. /\ UNCHANGED <<execVars, jail, conn, toConflict, linked, boxes, kill, shown, roster, cur>>
    BY <1>4 DEF vars, jailVars, dlgVars
  <2>2. Pids' = Pids /\ \A q : Served(q)' <=> Served(q)
    BY <2>1, SameServed
  <2>3. ASSUME NEW q \in Pids, Served(q)
        PROVE  Attends(q)' /\ Talk(q)'
    <3>1. Asks(q)' = Asks(q) /\ (Ending(q)' <=> Ending(q)) /\ (kill' # NotKilling => kill'.running)
      BY <2>1, <2>3, TalkFacts DEF Asks, Ending, Attends
    <3> QED
      BY <2>1, <2>3, <3>1, ServedStays
  <2> QED
    BY <2>2, <2>3 DEF Serving
<1> QED
  BY <1>1, <1>2, <1>3, <1>4 DEF Next

(* What is done to a conflict is what the user or the favoured plugin chose,
   for any list of changes the engine may give, whatever pokes, ends, stops
   and clicks come in between (OnRequest, SyncStatusDlg.cc:180, and
   HandleConflict, bsyncjail.cc:177): a conflict of a jail whose dialog is
   there is left unresolved only if it has fewer than two changes that are
   known, if the jail was told to die, or if a remembered command is not one
   that this conflict supports. *)
THEOREM AnswersAreKept == Spec => []ResolvedAsAnswered
<1>1. IInv /\ Serving => ResolvedAsAnswered
  <2> SUFFICES ASSUME IInv, Serving, NEW p \in Pids, HasReply(p), attached[p]
               PROVE  /\ jail[p].told.by \in {"user", "favour"} => Resolve(p) = jail[p].told.what
                      /\ Resolve(p)[1] \in {"lost", "refused"} => MayStayUnresolved(p)
    BY DEF ResolvedAsAnswered
  <2>1. Served(p) /\ jail[p].pc = "wait" /\ jail[p].reply # NoReply
    BY DEF HasReply, Served
  <2>2. AsAnswered(p)
    BY <2>1, TalkFacts DEF Talk
  <2> QED
    BY <2>2 DEF AsAnswered
<1>2. Spec => [](IInv /\ Serving)
  BY InitInv, StepInv, InitServes, ServingStep, PTL DEF Spec
<1> QED
  BY <1>1, <1>2, PTL

-----------------------------------------------------------------------------
(* What NothingHangs rests on: what the dialog or a jail waits for is on its
   way. *)

(* The end of the child p will be reported; if the roster was stopped, p was
   told to die. *)
Reports(p) ==
    /\ callback = p /\ attached[p] /\ waiter[p] \in {"waitpid", "clearing"}
    /\ waiter[p] = "waitpid" => appPid = p /\ (killing /\ Alive(p) => proc[p].sig # "none")

Expected ==
    /\ shown /\ buttons = "running" /\ ~broken => pending # <<>> \/ \E p \in Pids : Reports(p)
    /\ kill # NotKilling /\ ~kill.running => callback = 0 \/ appPid = 0

(* A jail that waits has its request, or messages before it, in its
   connection, or a question is shown, or its answer is the kill under way. *)
Waits(p) == Alive(p) /\ jail[p].pc = "wait" /\ jail[p].reply = NoReply
OnItsWay(p) == linked[p] /\ (toConflict[p] # <<>> \/ Asks(p) # {} \/ Ending(p))
Heard(p) ==
    /\ \E R : toConflict[p] \in Seq(R)
    /\ Waits(p) => OnItsWay(p)

AllHeard == \A p \in Pids : Heard(p)

LEMMA ExpectedFrame ==
    ASSUME Expected, UNCHANGED <<execVars, shown, buttons, killing>>,
           kill' = kill \/ kill' = NotKilling \/ \E who : KillSync(who)
    PROVE  Expected'
<1>1. UNCHANGED <<proc, waiter, attached, callback, appPid, pending, broken>>
  BY DEF execVars
<1>2. \A p : Reports(p)' <=> Reports(p)
  BY <1>1 DEF Reports, Alive
<1>3. kill' # NotKilling /\ ~kill'.running => callback = 0 \/ appPid = 0
  <2>1. ASSUME NEW who, KillSync(who)
        PROVE  ~kill'.running => callback = 0 \/ appPid = 0
    BY <2>1 DEF KillSync, IsAppRunning
  <2> QED
    BY <2>1 DEF Expected
<1>4. Pids' = Pids
  BY <1>1 DEF Pids
<1> QED
  BY <1>1, <1>2, <1>3, <1>4, Zenon DEF Expected

LEMMA ExpectedStarts ==
    ASSUME IInv, NEW r \in Seq(Devices), NEW i \in 1..(Len(r) + 1), StartNextSync(r, i),
           pending' = <<>>, kill' = NotKilling
    PROVE  Expected'
<1> DEFINE n == Len(proc)
<1>0. n \in Nat /\ Len(r) \in Nat
  BY Facts
<1>1. PICK k \in i..(Len(r) + 1) : killing' = FALSE /\ (Rests(r, k) \/ Launches(r, k))
  BY StartsAt, Zenon
<1>2. k \in 1..(Len(r) + 1)
  BY <1>0
<1>3. CASE Rests(r, k)
  BY <1>3 DEF Rests, Expected
<1>4. CASE Launches(r, k)
  <2>1. Children' /\ Added(r[k])
    BY <1>2, <1>4, LaunchAdds DEF IInv
  <2>2. PICK q : q = n + 1
    OBVIOUS
  <2>3. callback' = q /\ appPid' = q /\ waiter'[q] = "waitpid" /\ attached' = Append(attached, TRUE)
    BY <1>4, <2>1, <2>2 DEF Added, Launches, Run
  <2>4. attached'[q]
    <3>1. List(attached, n)
      BY SeqIsList DEF IInv, Children
    <3>2. Longer(attached', attached, n, TRUE)
      BY <1>0, <2>3, <3>1, AppendList
    <3> QED
      BY <2>2, <3>2 DEF Longer
  <2>5. q \in Pids'
    BY <1>0, <2>1, <2>2 DEF Added, Pids, Children
  <2>6. Reports(q)'
    BY <1>1, <2>3, <2>4 DEF Reports
  <2> QED
    BY <2>5, <2>6 DEF Expected
<1> QED
  BY <1>1, <1>3, <1>4

(* A stop signals the child that is waited for. *)
LEMMA ExpectedKills ==
    ASSUME IInv, Expected, KillSyncSignals
    PROVE  Expected'
<1>1. /\ UNCHANGED <<waiter, attached, callback, appPid, pending, broken, shown, buttons>>
      /\ kill # NotKilling /\ kill' = NotKilling
      /\ proc' \in {proc, Signalled(killing)}
      /\ kill.running => proc' = Signalled(killing)
  BY DEF KillSyncSignals, KillApp
<1>2. proc \in Seq(Child)
  BY DEF IInv, Children
<1>3. proc' \in Seq(Child) /\ Len(proc') = Len(proc) /\ \A q \in Pids : proc'[q].st = proc[q].st
  BY <1>1, <1>2, SignalledFacts
<1>4. Pids' = Pids /\ \A q \in Pids : q # 0
  BY <1>2, <1>3 DEF Pids
<1>5. ASSUME NEW p \in Pids, Reports(p)
      PROVE  Reports(p)'
  <2>1. CASE waiter[p] = "waitpid" /\ Alive(p)
    <3>1. callback = p /\ appPid = p
      BY <1>5, <2>1 DEF Reports
    <3>2. kill.running
      BY <1>1, <1>4, <3>1 DEF Expected
    <3>3. proc'[p].sig # "none"
      BY <1>1, <1>4, <2>1, <3>1, <3>2, SignalledHits
    <3> QED
      BY <1>1, <1>5, <3>3 DEF Reports
  <2>2. CASE ~(waiter[p] = "waitpid" /\ Alive(p))
    BY <1>1, <1>3, <1>5, <2>2 DEF Reports, Alive
  <2> QED
    BY <2>1, <2>2
<1> QED
  BY <1>1, <1>4, <1>5 DEF Expected

LEMMA ExpectedProcesses ==
    ASSUME IInv, Expected, NEW p \in Pids, UNCHANGED dlgVars,
           OnTerminate(p) \/ OnTerminateSignal(p) \/ JailEnds(p)
    PROVE  Expected'
<1>1. /\ UNCHANGED <<shown, buttons, killing, kill, attached>> /\ proc \in Seq(Child)
      /\ Pids = 1..Len(proc) /\ Len(proc) \in Nat
  BY Facts DEF dlgVars, OnTerminate, OnTerminateSignal, JailEnds, Ends, IInv, Children
<1>2. /\ Pids' = Pids
      /\ \A q \in Pids : proc'[q].sig = proc[q].sig /\ (Alive(q)' => Alive(q))
  <2>1. CASE \E s \in {"gone", "zombie"} : proc' = [proc EXCEPT ![p].st = s]
    <3>1. PICK s \in {"gone", "zombie"} : proc' = [proc EXCEPT ![p].st = s]
      BY <2>1
    <3>2. \A q \in Pids : proc[q] \in Child
      BY <1>1
    <3>3. \A q \in Pids : q # p => proc'[q] = proc[q]
      BY <1>1, <3>1
    <3>4. proc'[p].st = s /\ proc'[p].sig = proc[p].sig
      BY <1>1, <3>1, <3>2 DEF Child
    <3>5. Pids' = Pids
      BY <1>1, <3>1 DEF Pids
    <3> QED
      BY <3>3, <3>4, <3>5 DEF Alive
  <2>2. CASE proc' = proc
    BY <2>2 DEF Pids, Alive
  <2> QED
    BY <2>1, <2>2 DEF OnTerminate, OnTerminateSignal, JailEnds, Ends
<1>3. kill' # NotKilling /\ ~kill'.running => callback' = 0 \/ appPid' = 0
  BY <1>1 DEF OnTerminate, OnTerminateSignal, JailEnds, Ends, Expected
<1>4. CASE JailEnds(p)
  <2>1. UNCHANGED <<waiter, callback, appPid, pending, broken>>
    BY <1>4 DEF JailEnds, Ends
  <2>2. \A q \in Pids : Reports(q) => Reports(q)'
    BY <1>1, <1>2, <2>1 DEF Reports
  <2> QED
    BY <1>1, <1>2, <1>3, <2>1, <2>2 DEF Expected
<1>5. waiter \in Seq({"waitpid", "clearing", "done"}) /\ Len(waiter) = Len(proc)
  BY DEF IInv, Children
<1>6. CASE OnTerminate(p)
  <2>1. UNCHANGED <<callback, pending, broken>>
    BY <1>6 DEF OnTerminate
  <2>2. ASSUME NEW q \in Pids, Reports(q)
        PROVE  Reports(q)'
    <3>1. callback = q /\ attached[q]
      BY <2>2 DEF Reports
    <3>2. CASE q = p
      <4>1. waiter' = [waiter EXCEPT ![p] = "clearing"]
        BY <1>6, <3>1, <3>2 DEF OnTerminate
      <4>2. waiter'[q] = "clearing"
        BY <1>1, <1>5, <3>2, <4>1
      <4> QED
        BY <1>1, <2>1, <3>1, <4>2 DEF Reports
    <3>3. CASE q # p
      <4>1. waiter' = [waiter EXCEPT ![p] = "done"] /\ appPid' = appPid
        BY <1>6, <3>1, <3>3 DEF OnTerminate
      <4>2. waiter'[q] = waiter[q]
        BY <1>1, <1>5, <3>3, <4>1
      <4> QED
        BY <1>1, <1>2, <2>1, <2>2, <4>1, <4>2 DEF Reports
    <3> QED
      BY <3>2, <3>3
  <2> QED
    BY <1>1, <1>2, <1>3, <2>1, <2>2 DEF Expected
<1>7. CASE OnTerminateSignal(p)
  <2>1. waiter[p] = "clearing" /\ waiter' = [waiter EXCEPT ![p] = "done"] /\ appPid' = appPid
    BY <1>7 DEF OnTerminateSignal
  <2>2. CASE attached[p]
    <3>1. pending' = Append(pending, p) /\ pending \in Seq(1..Len(proc))
      BY <1>7, <2>2 DEF OnTerminateSignal, IInv, Children
    <3>2. pending' # <<>>
      BY <3>1
    <3> QED
      BY <1>3, <3>2 DEF Expected
  <2>3. CASE ~attached[p]
    <3>1. broken' = TRUE
      BY <1>7, <2>3 DEF OnTerminateSignal
    <3> QED
      BY <1>3, <3>1 DEF Expected
  <2> QED
    BY <2>2, <2>3
<1> QED
  BY <1>4, <1>6, <1>7

LEMMA ExpectedStep == IInv /\ Expected /\ [Next]_vars => Expected'
<1> SUFFICES ASSUME IInv, Expected, [Next]_vars PROVE Expected'
  OBVIOUS
<1>1. CASE OnSyncNow
  <2>1. PICK r \in Rosters : StartNextSync(r, 1)
    BY <1>1 DEF OnSyncNow
  <2>2. r \in Seq(Devices)
    BY SyncAssumption
  <2>3. 1 \in 1..(Len(r) + 1)
    BY <2>2
  <2>4. pending' = <<>> /\ kill' = NotKilling
    BY <1>1 DEF OnSyncNow, IInv, OneChild, Dialogs
  <2> QED
    BY <2>1, <2>2, <2>3, <2>4, ExpectedStarts
<1>2. CASE OnSyncAgain
  <2>1. roster \in Seq(Devices) /\ StartNextSync(roster, 1)
    BY <1>2 DEF OnSyncAgain, IInv, Dialogs
  <2>2. 1 \in 1..(Len(roster) + 1)
    BY <2>1
  <2>3. pending' = <<>> /\ kill' = NotKilling
    BY <1>2 DEF OnSyncAgain, Loop, IInv, OneChild
  <2> QED
    BY <2>1, <2>2, <2>3, ExpectedStarts
<1>3. CASE OnExecTerminated
  <2>1. /\ roster \in Seq(Devices) /\ next \in 1..(Len(roster) + 1)
        /\ StartNextSync(roster, next) /\ kill' = NotKilling
    BY <1>3 DEF OnExecTerminated, Loop, IInv, Dialogs, End
  <2>2. pending' = <<>>
    <3>1. pending \in Seq(1..Len(proc)) /\ Len(pending) <= 1 /\ pending # <<>> /\ pending' = Tail(pending)
      BY <1>3 DEF OnExecTerminated, IInv, Children, OneChild
    <3> QED
      BY <3>1
  <2> QED
    BY <2>1, <2>2, ExpectedStarts
<1>4. CASE KillSyncSignals
  BY <1>4, ExpectedKills
<1>5. CASE Destroyed
  BY <1>5 DEF Destroyed, Expected
<1>6. ASSUME NEW p \in Pids, JailStep(p)
      PROVE  Expected'
  <2>1. CASE JailEnds(p)
    BY <1>6, <2>1, ExpectedProcesses DEF JailStep
  <2>2. CASE EngineStatus(p) \/ HandleConflict(p) \/ Answered(p)
    BY <1>6, <2>2, ExpectedFrame DEF JailStep, EngineStatus, HandleConflict, Answered, dlgVars
  <2> QED
    BY <1>6, <2>1, <2>2 DEF JailStep, JailExits, JailKilled, JailCrashes
<1>7. ASSUME NEW p \in Pids, WaitThread(p)
      PROVE  Expected'
  BY <1>7, ExpectedProcesses DEF WaitThread
<1>8. CASE OnKillClose \/ WindowClosed \/ AnswersBox \/ UNCHANGED vars
           \/ \E p \in Pids : Connect(p) \/ StatusOnPoke(p) \/ ReadsConflict(p)
  <2>1. /\ UNCHANGED <<execVars, shown, buttons, killing>>
        /\ kill' = kill \/ \E who : KillSync(who)
    <3>1. CASE OnKillClose \/ WindowClosed \/ KillAnswered \/ UNCHANGED vars
      BY <3>1 DEF OnKillClose, WindowClosed, KillAnswered, vars, dlgVars
    <3>2. ASSUME NEW p \in Pids, ConflictAnswered(p) \/ ConflictKilled(p)
          PROVE  /\ UNCHANGED <<execVars, shown, buttons, killing>>
                 /\ kill' = kill \/ \E who : KillSync(who)
      BY <3>2 DEF ConflictAnswered, ConflictKilled
    <3>3. ASSUME NEW p \in Pids, Connect(p) \/ StatusOnPoke(p) \/ ConflictOnPoke(p) \/ OnRequest(p)
          PROVE  /\ UNCHANGED <<execVars, shown, buttons, killing>>
                 /\ kill' = kill \/ \E who : KillSync(who)
      BY <3>3 DEF Connect, StatusOnPoke, ConflictOnPoke, OnRequest
    <3> QED
      BY <1>8, <3>1, <3>2, <3>3 DEF AnswersBox, ReadsConflict
  <2> QED
    BY <2>1, ExpectedFrame
<1> QED
  BY <1>1, <1>2, <1>3, <1>4, <1>5, <1>6, <1>7, <1>8, Zenon DEF Next, DialogStep

-----------------------------------------------------------------------------
(* A jail that waits is heard. *)

LEMMA HeardStays ==
    ASSUME NEW q, Heard(q), Alive(q)' => Alive(q), jail'[q] = jail[q], linked'[q] = linked[q],
           toConflict'[q] = toConflict[q], Asks(q)' = Asks(q), Ending(q)' <=> Ending(q)
    PROVE  Heard(q)'
<1>1. Waits(q)' => Waits(q)
  BY DEF Waits
<1>2. \E R : toConflict'[q] \in Seq(R)
  BY DEF Heard, OnItsWay
<1> QED
  BY <1>1, <1>2 DEF Heard, OnItsWay

(* A step about the jail p leaves the others alone. *)
LEMMA HeardOthers ==
    ASSUME IInv, AllHeard, NEW p \in Pids, Pids' = Pids, \A q \in Pids : Alive(q)' => Alive(q),
           \A q \in Pids : q # p => /\ jail'[q] = jail[q] /\ linked'[q] = linked[q]
                                    /\ toConflict'[q] = toConflict[q]
                                    /\ Asks(q)' = Asks(q) /\ (Ending(q)' <=> Ending(q)),
           Heard(p)'
    PROVE  AllHeard'
<1> SUFFICES ASSUME NEW q \in Pids, q # p
             PROVE  Heard(q)'
  BY DEF AllHeard
<1>1. Heard(q)
  BY DEF AllHeard
<1> QED
  BY <1>1, HeardStays

(* A jail that is answered waits no more. *)
LEMMA RepliedHeard ==
    ASSUME IInv, NEW p \in Pids, Heard(p), NEW r, r # NoReply, NEW choice, Replied(p, r, choice),
           proc'[p].st = proc[p].st
    PROVE  ~Waits(p)'
<1>1. CASE linked[p] /\ Alive(p)
  BY <1>1, RepliedTo DEF Waits
<1>2. CASE ~(linked[p] /\ Alive(p))
  <2>1. jail' = jail
    BY <1>2 DEF Replied
  <2> QED
    BY <1>2, <2>1 DEF Heard, OnItsWay, Waits, Alive
<1> QED
  BY <1>1, <1>2

LEMMA HeardStarts ==
    ASSUME IInv, AllHeard, OnSyncNow \/ OnSyncAgain \/ OnExecTerminated
    PROVE  AllHeard'
<1> DEFINE n == Len(proc)
<1>0. n \in Nat /\ Pids = 1..n /\ List(toConflict, n) /\ linked \in Seq(BOOLEAN) /\ Len(linked) = n
  BY Facts
<1>1. boxes' = boxes /\ kill' = kill /\ kill = NotKilling /\ pending' = <<>>
  <2>1. CASE OnSyncNow
    BY <2>1 DEF OnSyncNow, IInv, OneChild, Dialogs
  <2>2. CASE OnSyncAgain
    BY <2>2 DEF OnSyncAgain, Loop, IInv, OneChild
  <2>3. CASE OnExecTerminated
    <3>1. pending \in Seq(1..Len(proc)) /\ Len(pending) <= 1 /\ pending # <<>> /\ pending' = Tail(pending)
      BY <2>3 DEF OnExecTerminated, IInv, Children, OneChild
    <3>2. pending' = <<>>
      BY <3>1
    <3> QED
      BY <2>3, <3>2 DEF OnExecTerminated, Loop
  <2> QED
    BY <2>1, <2>2, <2>3
<1>2. \E r \in Seq(Devices) : \E i \in 1..(Len(r) + 1) : StartNextSync(r, i)
  <2>1. roster \in Seq(Devices) /\ next \in 1..(Len(roster) + 1)
    BY DEF IInv, Dialogs, End
  <2>2. CASE OnSyncNow
    <3>1. PICK r \in Rosters : StartNextSync(r, 1)
      BY <2>2 DEF OnSyncNow
    <3>2. r \in Seq(Devices)
      BY SyncAssumption
    <3>3. 1 \in 1..(Len(r) + 1)
      BY <3>2
    <3> QED
      BY <3>1, <3>2, <3>3
  <2>3. CASE OnSyncAgain
    <3>1. StartNextSync(roster, 1) /\ 1 \in 1..(Len(roster) + 1)
      BY <2>1, <2>3 DEF OnSyncAgain
    <3> QED
      BY <2>1, <3>1
  <2>4. CASE OnExecTerminated
    <3>1. StartNextSync(roster, next)
      BY <2>4 DEF OnExecTerminated
    <3> QED
      BY <2>1, <3>1
  <2> QED
    BY <2>2, <2>3, <2>4
<1>x. PICK r \in Seq(Devices) : \E i \in 1..(Len(r) + 1) : StartNextSync(r, i)
  BY <1>2
<1>3. PICK i \in 1..(Len(r) + 1) : StartNextSync(r, i)
  BY <1>x
<1>4. PICK k \in i..(Len(r) + 1) : Rests(r, k) \/ Launches(r, k)
  BY <1>3, StartsAt, Zenon
<1>5. k \in 1..(Len(r) + 1)
  BY <1>4
<1>6. \A q : Asks(q)' = Asks(q) /\ (Ending(q)' <=> Ending(q))
  BY <1>1 DEF Asks, Ending
<1>7. CASE Rests(r, k)
  <2>1. UNCHANGED <<proc, jail, linked, toConflict>>
    BY <1>7, Zenon DEF Rests, Skipped, jailVars
  <2>2. ASSUME NEW q \in Pids
        PROVE  Heard(q)'
    <3>1. Heard(q)
      BY DEF AllHeard
    <3> QED
      BY <1>6, <2>1, <3>1, HeardStays DEF Alive
  <2> QED
    BY <2>1, <2>2 DEF AllHeard, Pids
<1>8. CASE Launches(r, k)
  <2>1. Children' /\ Added(r[k])
    BY <1>1, <1>5, <1>8, LaunchAdds DEF IInv
  <2>2. Pids' = 1..(n + 1)
    BY <2>1 DEF Added, Pids, Children
  <2>3. toConflict' = Append(toConflict, <<>>) /\ linked' = Append(linked, FALSE)
    BY <1>8 DEF Launches, JailStarted
  <2>4. Longer(toConflict', toConflict, n, <<>>)
    BY <1>0, <2>3, AppendList
  <2>5. \A q \in 1..n : linked'[q] = linked[q]
    <3>1. List(linked, n)
      BY <1>0, SeqIsList
    <3>2. Longer(linked', linked, n, FALSE)
      BY <1>0, <2>3, <3>1, AppendList
    <3> QED
      BY <3>2 DEF Longer
  <2>6. ASSUME NEW q \in 1..n
        PROVE  Heard(q)'
    <3>1. Heard(q)
      BY <1>0 DEF AllHeard
    <3>2. proc'[q] = proc[q] /\ jail'[q] = jail[q]
      BY <2>1 DEF Added
    <3>3. toConflict'[q] = toConflict[q]
      BY <2>4 DEF Longer
    <3> QED
      BY <1>6, <2>5, <3>1, <3>2, <3>3, HeardStays DEF Alive
  <2>7. PICK q : q = n + 1
    OBVIOUS
  <2>8. Heard(q)'
    <3>1. jail'[q].pc = "connect"
      <4>1. jail'[q] = NewJail(r[k])
        BY <2>1, <2>7 DEF Added
      <4> QED
        BY <4>1 DEF NewJail
    <3>2. toConflict'[q] = <<>>
      BY <2>4, <2>7 DEF Longer
    <3>3. toConflict'[q] \in Seq({})
      BY <3>2
    <3>4. ~Waits(q)'
      BY <3>1 DEF Waits
    <3> QED
      BY <3>3, <3>4 DEF Heard
  <2>9. \A x \in 1..(n + 1) : x \in 1..n \/ x = q
    BY <1>0, <2>7
  <2> QED
    BY <2>2, <2>6, <2>8, <2>9 DEF AllHeard
<1> QED
  BY <1>4, <1>7, <1>8

(* What is written behind messages that are unread is not nothing. *)
LEMMA WrittenBehind ==
    ASSUME NEW Q, NEW u \in Seq(Q), NEW n \in Nat, NEW s, List(s, n), NEW a, NEW b
    PROVE  LET t == u \o <<a>> \o s \o <<b>> IN t # <<>> /\ \E R : t \in Seq(R)
<1> DEFINE R == Q \cup {s[i] : i \in 1..n} \cup {a, b}
<1>1. s \in Seq(R) /\ u \in Seq(R)
  <2>1. s = [i \in 1..n |-> s[i]]
    BY DEF List
  <2>2. [i \in 1..n |-> s[i]] \in [1..n -> R]
    OBVIOUS
  <2>3. s \in [1..n -> R]
    BY <2>1, <2>2
  <2>4. Q \subseteq R
    OBVIOUS
  <2> HIDE DEF R
  <2> QED
    BY <2>3, <2>4
<1>2. a \in R /\ b \in R
  OBVIOUS
<1> HIDE DEF R
<1>3. PICK v : v = u \o <<a>> \o s
  OBVIOUS
<1>4. v \in Seq(R) /\ Len(v) \in Nat
  BY <1>1, <1>2, <1>3
<1>5. v \o <<b>> \in Seq(R) /\ Len(v \o <<b>>) = Len(v) + 1
  BY <1>2, <1>4
<1>6. v \o <<b>> # <<>>
  BY <1>4, <1>5
<1> QED
  BY <1>3, <1>5, <1>6

(* The processes: who ends waits no more. *)
LEMMA HeardProcesses ==
    ASSUME IInv, AllHeard, NEW p \in Pids, UNCHANGED dlgVars,
           \/ (OnTerminate(p) \/ OnTerminateSignal(p)) /\ UNCHANGED jailVars
           \/ JailEnds(p)
    PROVE  AllHeard'
<1>1. UNCHANGED <<toConflict, linked, boxes, kill>>
  BY DEF jailVars, dlgVars, JailEnds
<1>2. \A q : Asks(q)' = Asks(q) /\ (Ending(q)' <=> Ending(q))
  BY <1>1 DEF Asks, Ending
<1>3. Pids' = Pids /\ \A q \in Pids : Alive(q)' => Alive(q)
  <2>1. CASE \E s \in {"gone", "zombie"} : proc' = [proc EXCEPT ![p].st = s]
    <3>1. PICK s \in {"gone", "zombie"} : proc' = [proc EXCEPT ![p].st = s]
      BY <2>1
    <3>2. Pids = 1..Len(proc) /\ proc \in Seq(Child)
      BY Facts DEF IInv, Children
    <3>3. \A q \in Pids : q # p => proc'[q] = proc[q]
      BY <3>1, <3>2
    <3>4. proc'[p].st = s
      BY <3>1, <3>2 DEF Child
    <3>5. Pids' = Pids
      BY <3>1, <3>2 DEF Pids
    <3> QED
      BY <3>3, <3>4, <3>5 DEF Alive
  <2>2. CASE proc' = proc
    BY <2>2 DEF Pids, Alive
  <2> QED
    BY <2>1, <2>2 DEF OnTerminate, OnTerminateSignal, JailEnds, Ends
<1>4. ASSUME NEW q \in Pids, jail'[q] = jail[q]
      PROVE  Heard(q)'
  <2>1. Heard(q)
    BY DEF AllHeard
  <2> QED
    BY <1>1, <1>2, <1>3, <1>4, <2>1, HeardStays
<1>5. CASE UNCHANGED jailVars
  BY <1>3, <1>4, <1>5 DEF AllHeard, jailVars
<1>6. CASE JailEnds(p)
  <2> DEFINE e == [NewJail(jail[p].dev) EXCEPT !.pc = "exit"]
  <2>1. jail' = [jail EXCEPT ![p] = e]
    BY <1>6 DEF JailEnds
  <2>2. e.pc = "exit"
    BY DEF NewJail
  <2> HIDE DEF e
  <2>3. jail'[p] = e /\ \A q \in Pids : q # p => jail'[q] = jail[q]
    BY <2>1, Facts, OneOther
  <2>4. ~Waits(p)'
    BY <2>2, <2>3 DEF Waits
  <2>5. Heard(p)'
    BY <1>1, <2>4 DEF AllHeard, Heard
  <2> QED
    BY <1>3, <1>4, <2>3, <2>5 DEF AllHeard
<1> QED
  BY <1>5, <1>6

(* A jail at work. *)
LEMMA HeardJail ==
    ASSUME IInv, AllHeard, NEW p \in Pids, UNCHANGED dlgVars,
           EngineStatus(p) \/ Answered(p) \/ HandleConflict(p)
    PROVE  AllHeard'
<1>1. UNCHANGED <<execVars, linked, boxes, kill, proc>>
  BY DEF EngineStatus, Answered, HandleConflict, dlgVars, execVars
<1>2. \A q : Asks(q)' = Asks(q) /\ (Ending(q)' <=> Ending(q))
  BY <1>1 DEF Asks, Ending
<1>3. Pids' = Pids /\ \A q : Alive(q)' <=> Alive(q)
  BY <1>1 DEF Pids, Alive
<1>4. Heard(p)
  BY DEF AllHeard
<1>5. CASE EngineStatus(p) \/ Answered(p)
  <2>1. toConflict' = toConflict
    BY <1>5 DEF EngineStatus, Answered
  <2>2. PICK e : jail' = [jail EXCEPT ![p] = e] /\ e.pc = "sync"
    <3>1. CASE EngineStatus(p)
      <4> DEFINE e == [jail[p] EXCEPT !.slow = TRUE]
      <4>1. jail' = [jail EXCEPT ![p] = e] /\ jail[p].pc = "sync"
        BY <3>1 DEF EngineStatus
      <4>2. e.pc = jail[p].pc
        BY Facts DEF GoodJail, JailFields
      <4> HIDE DEF e
      <4> QED
        BY <4>1, <4>2
    <3>2. CASE Answered(p)
      <4> DEFINE e == [jail[p] EXCEPT !.pc = "sync", !.reply = NoReply, !.told = Unanswered,
                                      !.conflict = NoConflict]
      <4>1. jail' = [jail EXCEPT ![p] = e]
        BY <3>2 DEF Answered
      <4>2. e.pc = "sync"
        BY Facts DEF GoodJail, JailFields
      <4> HIDE DEF e
      <4> QED
        BY <4>1, <4>2
    <3> QED
      BY <1>5, <3>1, <3>2
  <2>3. jail'[p] = e /\ \A q \in Pids : q # p => jail'[q] = jail[q]
    BY <2>2, Facts, OneOther
  <2>4. ~Waits(p)'
    BY <2>2, <2>3 DEF Waits
  <2>5. Heard(p)'
    BY <1>4, <2>1, <2>4 DEF Heard
  <2> QED
    BY <1>1, <1>2, <1>3, <2>1, <2>3, <2>5, HeardOthers
<1>6. CASE HandleConflict(p)
  <2>1. PICK c \in Conflicts :
          LET s == jail[p].seq + 1
              changes == AppendChanges(c)
              start == <<"Start", s, Len(changes), Supported(jail[p].dev, c)>>
              change == [i \in DOMAIN changes |-> <<"Change", s, i, changes[i]>>]
          IN  /\ jail' = [jail EXCEPT ![p].seq = s, ![p].conflict = c, ![p].pc = "wait",
                                      ![p].reply = IF linked[p] THEN NoReply ELSE Null]
              /\ toConflict' = IF linked[p]
                               THEN [toConflict EXCEPT ![p] = @ \o <<start>> \o change \o <<<<"Answer">>>>]
                               ELSE toConflict
    BY <1>6 DEF HandleConflict
  <2>2. PICK z, s, a, b : /\ z = (IF linked[p] THEN NoReply ELSE Null) /\ s = jail[p].seq + 1
                          /\ a = <<"Start", s, Len(AppendChanges(c)), Supported(jail[p].dev, c)>>
                          /\ b = <<"Answer">>
    OBVIOUS
  <2>3. PICK f : f = [i \in DOMAIN AppendChanges(c) |-> <<"Change", s, i, AppendChanges(c)[i]>>]
    OBVIOUS
  <2>4. PICK t : t = toConflict[p] \o <<a>> \o f \o <<b>>
    OBVIOUS
  <2> DEFINE e == [jail[p] EXCEPT !.seq = s, !.conflict = c, !.pc = "wait", !.reply = z]
  <2>5. jail' = [jail EXCEPT ![p] = e]
    BY <2>1, <2>2
  <2>6. toConflict' = IF linked[p] THEN [toConflict EXCEPT ![p] = t] ELSE toConflict
    BY <2>1, <2>2, <2>3, <2>4
  <2>7. e.pc = "wait" /\ e.reply = z /\ e.conflict = c
    BY Facts DEF GoodJail, JailFields
  <2> HIDE DEF e
  <2>8. jail'[p] = e /\ \A q \in Pids : q # p => jail'[q] = jail[q]
    BY <2>5, Facts, OneOther
  <2>9. PICK n \in Nat : List(f, n)
    <3>1. N(e) \in Nat /\ Changes(e) = AppendChanges(c) /\ DOMAIN AppendChanges(c) = 1..N(e)
      <4>1. Changes(e) = AppendChanges(c)
        BY <2>7 DEF Changes
      <4> QED
        BY <2>7, <4>1, ChangesFacts
    <3> QED
      BY <2>3, <3>1 DEF List
  <2>10. t # <<>> /\ \E R : t \in Seq(R)
    <3>1. PICK Q : toConflict[p] \in Seq(Q)
      BY <1>4 DEF Heard
    <3>2. PICK u \in Seq(Q) : u = toConflict[p]
      BY <3>1
    <3> QED
      BY <2>4, <2>9, <3>2, WrittenBehind
  <2>11. \A q \in Pids : q # p => toConflict'[q] = toConflict[q]
    BY <2>6, Facts, OneOther
  <2>12. CASE linked[p]
    <3>1. toConflict'[p] = t
      <4>1. List(toConflict, Len(proc)) /\ p \in 1..Len(proc)
        BY Facts
      <4> QED
        BY <2>6, <2>12, <4>1 DEF List
    <3>2. Heard(p)'
      BY <1>1, <2>10, <2>12, <3>1 DEF Heard, OnItsWay
    <3> QED
      BY <1>1, <1>2, <1>3, <2>8, <2>11, <3>2, HeardOthers
  <2>13. CASE ~linked[p]
    <3>1. toConflict' = toConflict /\ jail'[p].reply = Null
      BY <2>2, <2>6, <2>7, <2>8, <2>13
    <3>2. ~Waits(p)'
      BY <3>1, ReplyNames DEF Waits
    <3>3. Heard(p)'
      BY <1>4, <3>1, <3>2 DEF Heard
    <3> QED
      BY <1>1, <1>2, <1>3, <2>8, <2>11, <3>3, HeardOthers
  <2> QED
    BY <2>12, <2>13
<1> QED
  BY <1>5, <1>6

-----------------------------------------------------------------------------
(* The steps of the dialog, and who waits. *)

(* The connections of a dialog that is gone are lost. *)
LEMMA HeardDestroyed ==
    ASSUME IInv, AllHeard, Destroyed
    PROVE  AllHeard'
<1>1. /\ proc' \in {proc, Signalled(FALSE)}
      /\ toConflict' = [q \in Pids |-> <<>>]
      /\ jail' = [q \in Pids |-> IF jail[q].pc = "wait" /\ jail[q].reply = NoReply
                                 THEN [jail[q] EXCEPT !.reply = Null] ELSE jail[q]]
  BY DEF Destroyed, DestroyKills, KillApp, Disconnected
<1>2. proc \in Seq(Child)
  BY DEF IInv, Children
<1>3. Pids' = Pids
  <2>1. Len(proc') = Len(proc) /\ proc' \in Seq(Child)
    BY <1>1, <1>2, SignalledFacts
  <2> QED
    BY <1>2, <2>1 DEF Pids
<1> SUFFICES ASSUME NEW q \in Pids
             PROVE  Heard(q)'
  BY <1>3 DEF AllHeard
<1>4. toConflict'[q] \in Seq({})
  BY <1>1
<1>5. ~Waits(q)'
  <2>1. CASE jail[q].pc = "wait" /\ jail[q].reply = NoReply
    <3> DEFINE e == [jail[q] EXCEPT !.reply = Null]
    <3>1. jail'[q] = e
      BY <1>1, <2>1
    <3>2. e.reply = Null
      BY Facts DEF GoodJail, JailFields
    <3> HIDE DEF e
    <3> QED
      BY <3>1, <3>2, ReplyNames DEF Waits
  <2>2. CASE ~(jail[q].pc = "wait" /\ jail[q].reply = NoReply)
    <3>1. jail'[q] = jail[q]
      BY <1>1, <2>2
    <3> QED
      BY <2>2, <3>1 DEF Waits
  <2> QED
    BY <2>1, <2>2
<1> QED
  BY <1>4, <1>5 DEF Heard

(* A kill that answered a conflict ends with the answer to its request. *)
LEMMA HeardKills ==
    ASSUME IInv, AllHeard, KillSyncSignals
    PROVE  AllHeard'
<1>1. /\ UNCHANGED <<toConflict, linked, boxes>> /\ kill # NotKilling /\ kill' = NotKilling
      /\ proc' \in {proc, Signalled(killing)}
  BY DEF KillSyncSignals, KillApp
<1>2. proc \in Seq(Child)
  BY DEF IInv, Children
<1>3. Pids' = Pids /\ \A q \in Pids : proc'[q].st = proc[q].st
  <2>1. /\ Len(proc') = Len(proc) /\ proc' \in Seq(Child)
        /\ \A q \in Pids : proc'[q].st = proc[q].st
    BY <1>1, <1>2, SignalledFacts
  <2> QED
    BY <1>2, <2>1 DEF Pids
<1> SUFFICES ASSUME NEW q \in Pids
             PROVE  Heard(q)'
  BY <1>3 DEF AllHeard
<1>4. Heard(q) /\ (Alive(q)' <=> Alive(q))
  BY <1>3 DEF AllHeard, Alive
<1>5. CASE Ending(q)
  <2>1. Replied(q, Null, Unanswered)
    BY <1>5 DEF KillSyncSignals, Ending
  <2>2. ~Waits(q)'
    BY <1>3, <1>4, <2>1, RepliedHeard, ReplyNames
  <2> QED
    BY <1>1, <1>4, <2>2 DEF Heard
<1>6. CASE ~Ending(q)
  <2>1. jail'[q] = jail[q]
    <3>1. CASE kill.by = "conflict"
      <4>1. kill.jail # q
        BY <1>6, <3>1 DEF Ending
      <4>2. jail' = jail \/ \E e : jail' = [jail EXCEPT ![kill.jail] = e]
        BY <3>1 DEF KillSyncSignals, Replied
      <4> QED
        BY <4>1, <4>2, Facts, OneOther
    <3>2. CASE kill.by # "conflict"
      BY <3>2 DEF KillSyncSignals
    <3> QED
      BY <3>1, <3>2
  <2>2. Asks(q)' = Asks(q) /\ ~Ending(q)'
    BY <1>1, NoEnding DEF Asks, Ending, NotKilling
  <2> QED
    BY <1>1, <1>4, <1>6, <2>1, <2>2, HeardStays
<1> QED
  BY <1>5, <1>6

(* A connection comes up, or there is no dialog. *)
LEMMA HeardConnects ==
    ASSUME IInv, AllHeard, NEW p \in Pids, Connect(p)
    PROVE  AllHeard'
<1>1. UNCHANGED <<execVars, toConflict, boxes, kill, proc>>
  BY DEF Connect, execVars
<1>2. \A q : Asks(q)' = Asks(q) /\ (Ending(q)' <=> Ending(q))
  BY <1>1 DEF Asks, Ending
<1>3. Pids' = Pids /\ \A q : Alive(q)' <=> Alive(q)
  BY <1>1 DEF Pids, Alive
<1>4. PICK e : jail' = [jail EXCEPT ![p] = e] /\ e.pc # "wait"
  <2>1. PICK x \in {"sync", "exit"} : jail' = [jail EXCEPT ![p].pc = x]
    BY DEF Connect
  <2> DEFINE e == [jail[p] EXCEPT !.pc = x]
  <2>2. jail' = [jail EXCEPT ![p] = e]
    BY <2>1
  <2>3. e.pc # "wait"
    BY Facts DEF GoodJail, JailFields
  <2> HIDE DEF e
  <2> QED
    BY <2>2, <2>3
<1>5. jail'[p] = e /\ \A q \in Pids : q # p => jail'[q] = jail[q]
  BY <1>4, Facts, OneOther
<1>6. \A q \in Pids : q # p => linked'[q] = linked[q]
  <2>1. linked' = linked \/ linked' = [linked EXCEPT ![p] = TRUE]
    BY DEF Connect
  <2> QED
    BY <2>1, Facts
<1>7. ~Waits(p)'
  BY <1>4, <1>5 DEF Waits
<1>8. Heard(p)'
  BY <1>1, <1>7 DEF AllHeard, Heard
<1> QED
  BY <1>1, <1>2, <1>3, <1>5, <1>6, <1>8, HeardOthers

(* A step in which messages, connections and jails stay as they are. *)
LEMMA HeardClicks ==
    ASSUME IInv, AllHeard, \/ OnKillClose \/ KillAnswered \/ WindowClosed
                           \/ \E p \in Pids : StatusOnPoke(p)
    PROVE  AllHeard'
<1>1. UNCHANGED <<execVars, jail, toConflict, linked, proc>> /\ kill = NotKilling
  BY DEF OnKillClose, KillAnswered, WindowClosed, StatusOnPoke, Loop, jailVars, execVars
<1>2. Pids' = Pids /\ \A q : Alive(q)' <=> Alive(q)
  BY <1>1 DEF Pids, Alive
<1> SUFFICES ASSUME NEW q \in Pids
             PROVE  Heard(q)'
  BY <1>2 DEF AllHeard
<1>3. Heard(q) /\ ~Ending(q)
  BY <1>1, NoEnding DEF AllHeard
<1>4. Asks(q)' = Asks(q)
  <2>1. CASE boxes' = boxes
    BY <2>1 DEF Asks
  <2>2. CASE boxes' = Append(boxes, KillBox)
    BY <2>2, OneMoreBox, BoxNames
  <2>3. CASE Top = KillBox /\ boxes' = Front(boxes)
    BY <2>3, OneBoxLess, BoxNames, TopFacts
  <2> QED
    BY <2>1, <2>2, <2>3 DEF OnKillClose, KillAnswered, WindowClosed, StatusOnPoke
<1>5. Waits(q)' <=> Waits(q)
  BY <1>1, <1>2 DEF Waits
<1> QED
  BY <1>1, <1>3, <1>4, <1>5 DEF Heard, OnItsWay

(* A poke is read, and the request stays behind it. *)
LEMMA HeardPokes ==
    ASSUME IInv, AllHeard, NEW p \in Pids, ConflictOnPoke(p)
    PROVE  AllHeard'
<1>1. PICK w : w = Tail(toConflict[p])
  OBVIOUS
<1>2. /\ UNCHANGED <<execVars, linked, jail, boxes, kill, proc>>
      /\ Len(toConflict[p]) > 1 /\ toConflict' = [toConflict EXCEPT ![p] = w]
  BY <1>1 DEF ConflictOnPoke, execVars
<1>3. \A q : Asks(q)' = Asks(q) /\ (Ending(q)' <=> Ending(q))
  BY <1>2 DEF Asks, Ending
<1>4. Pids' = Pids /\ \A q : (Alive(q)' <=> Alive(q)) /\ (Waits(q)' <=> Waits(q))
  BY <1>2 DEF Pids, Alive, Waits
<1>5. toConflict'[p] = w /\ \A q \in Pids : q # p => toConflict'[q] = toConflict[q]
  <2>1. List(toConflict, Len(proc)) /\ Pids = 1..Len(proc)
    BY Facts
  <2> QED
    BY <1>2, <2>1 DEF List
<1>6. Heard(p)
  BY DEF AllHeard
<1>7. w # <<>> /\ \E R : w \in Seq(R)
  <2>1. PICK R : toConflict[p] \in Seq(R)
    BY <1>6 DEF Heard
  <2>2. PICK t \in Seq(R) : t = toConflict[p] /\ Len(t) > 1 /\ w = Tail(t)
    BY <1>1, <1>2, <2>1
  <2>3. Tail(t) \in Seq(R) /\ Len(Tail(t)) = Len(t) - 1
    BY <2>2
  <2>4. Len(Tail(t)) # 0
    BY <2>2, <2>3
  <2> QED
    BY <2>2, <2>3, <2>4
<1>8. Heard(p)'
  BY <1>2, <1>4, <1>5, <1>6, <1>7 DEF Heard, OnItsWay
<1> QED
  BY <1>2, <1>3, <1>4, <1>5, <1>8, HeardOthers

(* The request is read: there is an answer, or a box. *)
LEMMA HeardRequests ==
    ASSUME IInv, AllHeard, NEW p \in Pids, OnRequest(p)
    PROVE  AllHeard'
<1>1. /\ UNCHANGED <<execVars, linked, kill, proc>> /\ kill = NotKilling
      /\ toConflict' = [toConflict EXCEPT ![p] = <<>>]
  BY DEF OnRequest, Loop, execVars
<1>2. Pids' = Pids /\ \A q : (Alive(q)' <=> Alive(q)) /\ (Ending(q)' <=> Ending(q))
  BY <1>1 DEF Pids, Alive, Ending
<1>3. toConflict'[p] = <<>> /\ \A q \in Pids : q # p => toConflict'[q] = toConflict[q]
  <2>1. List(toConflict, Len(proc)) /\ Pids = 1..Len(proc)
    BY Facts
  <2> QED
    BY <1>1, <2>1 DEF List
<1>4. \A q \in Pids : q # p => jail'[q] = jail[q]
  <2>1. UNCHANGED jail \/ \E r, choice : Replied(p, r, choice)
    BY Zenon DEF OnRequest, NullReply
  <2> QED
    BY <2>1, RepliedTo
<1>5. \A q : q # p => Asks(q)' = Asks(q)
  <2>1. boxes' = boxes \/ boxes' = Append(boxes, ConflictBox(p))
    BY DEF OnRequest
  <2>2. CASE boxes' = boxes
    BY <2>2 DEF Asks
  <2>3. CASE boxes' = Append(boxes, ConflictBox(p))
    BY <2>3, OneMoreBox, BoxNames
  <2> QED
    BY <2>1, <2>2, <2>3
<1>6. Heard(p)
  BY DEF AllHeard
<1>7. ~Waits(p)' \/ (jail' = jail /\ Asks(p)' # {})
  <2>1. PICK c : c = conn[p]
    OBVIOUS
  <2>2. CASE \E r, choice : r # NoReply /\ Replied(p, r, choice)
    BY <1>1, <1>6, <2>2, RepliedHeard
  <2>3. CASE UNCHANGED jail /\ boxes' = Append(boxes, ConflictBox(p))
    BY <2>3, OneMoreBox
  <2>4. \/ Replied(p, Null, Unanswered)
        \/ \E f : Replied(p, Reply(c, f), Choice(f))
        \/ UNCHANGED jail /\ boxes' = Append(boxes, ConflictBox(p))
    BY <2>1, Zenon DEF OnRequest, NullReply
  <2>5. Null # NoReply /\ \A f : Reply(c, f) # NoReply
    BY ReplyNames DEF Reply
  <2> QED
    BY <2>2, <2>3, <2>4, <2>5, Zenon
<1>8. Heard(p)'
  <2>1. toConflict'[p] \in Seq({})
    BY <1>3
  <2>2. ASSUME jail' = jail, Asks(p)' # {}, Waits(p)'
        PROVE  OnItsWay(p)'
    <3>1. Waits(p)
      BY <1>2, <2>2 DEF Waits
    <3>2. linked[p]
      BY <1>6, <3>1 DEF Heard, OnItsWay
    <3> QED
      BY <1>1, <2>2, <3>2 DEF OnItsWay
  <2> QED
    BY <1>7, <2>1, <2>2 DEF Heard
<1> QED
  BY <1>2, <1>3, <1>4, <1>5, <1>1, <1>8, HeardOthers

(* A button of a question: an answer, or a kill that will bring one. *)
LEMMA HeardButtons ==
    ASSUME IInv, AllHeard, NEW p \in Pids, ConflictAnswered(p) \/ ConflictKilled(p)
    PROVE  AllHeard'
<1>1. /\ UNCHANGED <<execVars, linked, toConflict, proc>> /\ kill = NotKilling
      /\ Top = ConflictBox(p) /\ boxes' = Front(boxes)
  BY DEF ConflictAnswered, ConflictKilled, Loop, jailVars, execVars
<1>2. Pids' = Pids /\ \A q : Alive(q)' <=> Alive(q)
  BY <1>1 DEF Pids, Alive
<1>3. \A q : q # p => Asks(q)' = Asks(q)
  BY <1>1, OneBoxLess, BoxNames
<1>4. Heard(p)
  BY DEF AllHeard
<1>5. CASE ConflictAnswered(p)
  <2>1. PICK f, c : Replied(p, Reply(c, f), Choice(f))
    BY <1>5 DEF ConflictAnswered
  <2>2. PICK r : r = Reply(c, f) /\ r # NoReply
    BY ReplyNames DEF Reply
  <2>3. \A q \in Pids : q # p => jail'[q] = jail[q]
    BY <2>1, RepliedTo
  <2>4. ~Waits(p)'
    BY <1>1, <1>4, <2>1, <2>2, RepliedHeard
  <2>5. Heard(p)'
    BY <1>1, <1>4, <2>4 DEF Heard
  <2>6. \A q : Ending(q)' <=> Ending(q)
    BY <1>5 DEF ConflictAnswered, Ending
  <2> QED
    BY <1>1, <1>2, <1>3, <2>3, <2>5, <2>6, HeardOthers
<1>6. CASE ConflictKilled(p)
  <2>1. jail' = jail /\ kill' = [by |-> "conflict", jail |-> p, running |-> IsAppRunning]
    BY <1>6 DEF ConflictKilled, jailVars, KillSync
  <2>2. kill'.by = "conflict" /\ kill'.jail = p
    BY <2>1
  <2>3. Ending(p)' /\ \A q : ~Ending(q) /\ (q # p => ~Ending(q)')
    BY <1>1, <2>2, NoEnding DEF Ending
  <2>4. Waits(p)' => Waits(p)
    BY <1>2, <2>1 DEF Waits
  <2>5. Heard(p)'
    BY <1>1, <1>4, <2>3, <2>4 DEF Heard, OnItsWay
  <2> QED
    BY <1>1, <1>2, <1>3, <2>1, <2>3, <2>5, HeardOthers
<1> QED
  BY <1>5, <1>6

LEMMA HeardStep == IInv /\ AllHeard /\ [Next]_vars => AllHeard'
<1> SUFFICES ASSUME IInv, AllHeard, [Next]_vars PROVE AllHeard'
  OBVIOUS
<1>1. CASE OnSyncNow \/ OnSyncAgain \/ OnExecTerminated
  BY <1>1, HeardStarts
<1>2. CASE KillSyncSignals
  BY <1>2, HeardKills
<1>3. CASE Destroyed
  BY <1>3, HeardDestroyed
<1>4. CASE OnKillClose \/ WindowClosed \/ KillAnswered
  BY <1>4, HeardClicks
<1>5. ASSUME NEW p \in Pids, ConflictAnswered(p) \/ ConflictKilled(p)
      PROVE  AllHeard'
  BY <1>5, HeardButtons
<1>6. ASSUME NEW p \in Pids, Connect(p) \/ StatusOnPoke(p) \/ ReadsConflict(p)
      PROVE  AllHeard'
  BY <1>6, HeardConnects, HeardClicks, HeardPokes, HeardRequests DEF ReadsConflict
<1>7. ASSUME NEW p \in Pids, JailStep(p)
      PROVE  AllHeard'
  <2>1. CASE JailEnds(p)
    BY <1>7, <2>1, HeardProcesses DEF JailStep
  <2>2. CASE EngineStatus(p) \/ HandleConflict(p) \/ Answered(p)
    BY <1>7, <2>2, HeardJail DEF JailStep
  <2> QED
    BY <1>7, <2>1, <2>2 DEF JailStep, JailExits, JailKilled, JailCrashes
<1>8. ASSUME NEW p \in Pids, WaitThread(p)
      PROVE  AllHeard'
  BY <1>8, HeardProcesses DEF WaitThread
<1>9. CASE UNCHANGED vars
  <2>1. UNCHANGED <<proc, jail, linked, toConflict, boxes, kill>>
    BY <1>9 DEF vars, execVars, jailVars, dlgVars
  <2>2. \A q : Heard(q)' <=> Heard(q)
    BY <2>1 DEF Heard, OnItsWay, Waits, Alive, Asks, Ending
  <2> QED
    BY <2>1, <2>2 DEF AllHeard, Pids
<1> QED
  BY <1>1, <1>2, <1>3, <1>4, <1>5, <1>6, <1>7, <1>8, <1>9, Zenon DEF Next, DialogStep, AnswersBox

(* What is waited for is on its way.  While the dialog shows that a sync is
   running, the end of a child is waiting to be handled or a WaitThread will
   report it, and once the roster was stopped that child was told to die
   (KillSync, SyncStatusDlg.cc:469; OnTerminate, exechelper.h:110).  And a jail
   that waits in HandleConflict (bsyncjail.cc:177) is connected, and its
   messages are unread, or a ConflictDlg about it is shown, or the kill of that
   dialog is under way and answers it (OnRequest, SyncStatusDlg.cc:180). *)
ComesToAnEnd ==
    /\ shown /\ buttons = "running" /\ ~broken => pending # <<>> \/ \E p \in Pids : Reports(p)
    /\ \A p \in Pids : Waits(p) => OnItsWay(p)

THEOREM NobodyIsForgotten == Spec => []ComesToAnEnd
<1>1. Init => Expected /\ AllHeard
  <2> SUFFICES ASSUME Init PROVE Expected /\ AllHeard
    OBVIOUS
  <2>1. Pids = {} /\ ~shown /\ kill = NotKilling
    BY DEF Init, ExecInit, Pids
  <2> QED
    BY <2>1 DEF Expected, AllHeard
<1>2. Expected /\ AllHeard => ComesToAnEnd
  BY DEF Expected, AllHeard, Heard, ComesToAnEnd
<1>3. IInv /\ Expected /\ AllHeard /\ [Next]_vars => Expected' /\ AllHeard'
  BY ExpectedStep, HeardStep
<1> QED
  BY <1>1, <1>2, <1>3, Inductive, PTL DEF Spec
=============================================================================
