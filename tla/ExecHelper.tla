----------------------------- MODULE ExecHelper -----------------------------
(***************************************************************************)
(* The child processes of Barry Desktop (exechelper.h, exechelper.cc).     *)
(* Run forks a child and starts a WaitThread for it; that thread blocks in *)
(* waitpid and then runs AppCallback::OnTerminate, which changes the       *)
(* members of the ExecHelper that the GUI thread reads, with no lock.      *)
(*                                                                         *)
(* Run is one step.  A child that ends before Run has stored its pid       *)
(* leaves a pid with no callback, which IsAppRunning takes for no child,   *)
(* as it takes -1.                                                         *)
(***************************************************************************)
EXTENDS Naturals, Sequences

CONSTANT MaxRuns        \* bound: children started

ASSUME ExecAssumption == MaxRuns \in Nat

VARIABLES
    proc,       \* the children, in the order of their start; a pid is an index
    waiter,     \* per child: where its WaitThread is
    attached,   \* per child: AppCallback::m_container is set
    callback,   \* m_app_callback: the child it waits for, or 0
    appPid,     \* m_app_pid, 0 standing for -1
    pending,    \* wxProcessEvents posted and not handled, as pids
    stray,      \* kill was called with pid -1: every process of the user
    broken      \* OnTerminate went on with a container that was taken away

execVars == <<proc, waiter, attached, callback, appPid, pending, stray, broken>>

NewChild == [st |-> "alive", sig |-> "none"]
Pids == DOMAIN proc
Alive(p) == proc[p].st = "alive"

ExecTypeOK ==
    /\ Len(proc) <= MaxRuns
    /\ \A p \in Pids : /\ proc[p].st \in {"alive", "zombie", "gone"}
                       /\ proc[p].sig \in {"none", "term", "kill"}
    /\ DOMAIN waiter = Pids /\ DOMAIN attached = Pids
    /\ \A p \in Pids : /\ waiter[p] \in {"waitpid", "clearing", "done"}
                       /\ attached[p] \in BOOLEAN
    /\ callback \in Pids \cup {0} /\ appPid \in Pids \cup {0}
    /\ pending \in Seq(Pids)
    /\ stray \in BOOLEAN /\ broken \in BOOLEAN

ExecInit ==
    /\ proc = <<>> /\ waiter = <<>> /\ attached = <<>>
    /\ callback = 0 /\ appPid = 0 /\ pending = <<>>
    /\ stray = FALSE /\ broken = FALSE

IsAppRunning == callback # 0 /\ appPid # 0

(* Run, with the fork that succeeds. *)
Run ==
    /\ ~IsAppRunning /\ Len(proc) < MaxRuns
    /\ proc' = Append(proc, NewChild)
    /\ waiter' = Append(waiter, "waitpid") /\ attached' = Append(attached, TRUE)
    /\ callback' = Len(proc) + 1 /\ appPid' = Len(proc) + 1
    /\ UNCHANGED <<stray, broken>>

(* WaitThread::Entry: waitpid returns, and OnTerminate runs up to           *)
(* m_app_pid = -1.                                                          *)
OnTerminate(p) ==
    /\ waiter[p] = "waitpid" /\ proc[p].st = "zombie"
    /\ proc' = [proc EXCEPT ![p].st = "gone"]
    /\ IF attached[p] /\ callback = p
       THEN /\ appPid' = 0 /\ waiter' = [waiter EXCEPT ![p] = "clearing"]
       ELSE /\ waiter' = [waiter EXCEPT ![p] = "done"] /\ UNCHANGED appPid
    /\ UNCHANGED <<attached, callback, pending, stray, broken>>

(* The rest of it: the status, m_app_callback = 0 and ExecTerminated, which *)
(* posts the event.  m_container is read again: a null pointer if Detach    *)
(* came in between.                                                         *)
OnTerminateSignal(p) ==
    /\ waiter[p] = "clearing"
    /\ waiter' = [waiter EXCEPT ![p] = "done"]
    /\ IF attached[p]
       THEN callback' = 0 /\ pending' = Append(pending, p) /\ UNCHANGED broken
       ELSE broken' = TRUE /\ UNCHANGED <<callback, pending>>
    /\ UNCHANGED <<proc, attached, appPid, stray>>

(* What kill does: m_app_pid is read again after IsAppRunning.  A child      *)
(* that was waited for is out of its reach.                                  *)
Signalled(hard) ==
    LET sig == IF hard THEN "kill" ELSE "term"
        hit == IF appPid = 0 THEN {p \in Pids : Alive(p)} ELSE {p \in {appPid} : Alive(p)}
    IN  [p \in Pids |-> IF p \in hit /\ proc[p].sig # "kill"
                        THEN [proc[p] EXCEPT !.sig = sig] ELSE proc[p]]

KillApp(hard) ==
    /\ proc' = Signalled(hard)
    /\ stray' = (stray \/ appPid = 0)

(* ~ExecHelper, and the events of a handler that is destroyed. *)
ExecDestroyed ==
    /\ attached' = [p \in Pids |-> attached[p] /\ p # callback]
    /\ callback' = 0 /\ appPid' = 0 /\ pending' = <<>>

(* A child that a signal ends, or that ends by itself.  External. *)
Ends(p) ==
    /\ Alive(p)
    /\ proc' = [proc EXCEPT ![p].st = "zombie"]
    /\ UNCHANGED <<waiter, attached, callback, appPid, pending, stray, broken>>
=============================================================================
