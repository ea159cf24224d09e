--------------------------- MODULE WaitBlockerSet ---------------------------
(***************************************************************************)
(* The waits of a process for its children: sys$waitid(), the WaitBlocker  *)
(* of a waiting thread and the WaitBlockerSet of its process               *)
(* (Kernel/Tasks/ThreadBlockers.cpp).  The processor is one, so that what  *)
(* holds a spinlock is one step.  A waiting thread gives up the big lock,  *)
(* and may have to wait for it when it is woken: until then its blocker    *)
(* stays in the set.  Tracers and the end of the parent are left out.      *)
(***************************************************************************)
EXTENDS Naturals, Sequences, FiniteSets, SequencesExt

CONSTANTS Threads,   \* the threads of the parent
          Children,
          Waits      \* what the calls wait for

UnblockFlags == {"Terminated", "Stopped", "Continued"}

\* The states that WEXITED, WSTOPPED and WCONTINUED stand for (WSTOPPED is
\* WUNTRACED, and WCONTINUED without it matches nothing that is not traced).
States == {S \in SUBSET UnblockFlags : "Continued" \in S => "Stopped" \in S}

\* P_PGID is a set of children: who is in a process group does not change.
IsWaitee(idtype, waitee) ==
    CASE idtype = "P_ALL"  -> waitee = Children
      [] idtype = "P_PID"  -> \E c \in Children : waitee = {c}
      [] idtype = "P_PGID" -> waitee \subseteq Children

ASSUME WaitAssumption ==
    /\ IsFiniteSet(Threads) /\ IsFiniteSet(Children)
    /\ Waits \subseteq [idtype : {"P_ALL", "P_PID", "P_PGID"}, waitee : SUBSET Children,
                        states : States, is_wait : BOOLEAN]
    /\ \A w \in Waits : IsWaitee(w.idtype, w.waitee)

VARIABLES phase,         \* what a child does
          owned,         \* the children whose ppid is the parent's
          m_processes,   \* the states of children to be waited for
          m_blockers,    \* the threads whose blocker is in the set
          pc, wait,      \* where a thread is, and the wait it has called
          m_result,      \* of a blocker; NoInfo while ~m_did_unblock
          signal,        \* m_was_interrupted_by_signal
          reaped         \* ghost: children whose death a wait has consumed

vars == <<phase, owned, m_processes, m_blockers, pc, wait, m_result, signal, reaped>>

NoWait == [idtype |-> "none", waitee |-> {}, states |-> {}, is_wait |-> FALSE]

None == "none"

Info(c, flags) == [process |-> c, flags |-> flags]
NoInfo == Info(None, None)

Entry(c, flags, waited) == [process |-> c, flags |-> flags, was_waited |-> waited]

Init ==
    /\ phase = [c \in Children |-> "running"]
    /\ owned = Children
    /\ m_processes = <<>>
    /\ m_blockers = {}
    /\ pc = [t \in Threads |-> "outside"]
    /\ wait = [t \in Threads |-> NoWait]
    /\ m_result = [t \in Threads |-> NoInfo]
    /\ signal = [t \in Threads |-> None]
    /\ reaped = {}

-----------------------------------------------------------------------------
(* WaitBlocker::unblock(): does the blocker take this state of this child?  *)

\* Fault: a blocker that has its result takes another one.
UnblocksAgain(t, c, flags) == c \in wait[t].waitee /\ flags \in wait[t].states

Unblocks(t, c, flags) ==
    /\ c \in wait[t].waitee /\ flags \in wait[t].states
    /\ m_result[t] = NoInfo

\* The entries that a blocker takes; the first one is taken.
TakenBy(t, ignore_waited) ==
    {i \in 1..Len(m_processes) :
        /\ Unblocks(t, m_processes[i].process, m_processes[i].flags)
        /\ ~(ignore_waited /\ m_processes[i].was_waited /\ wait[t].is_wait)}

First(S) == CHOOSE i \in S : \A j \in S : i <= j

\* Fault: a death that was waited for stays in the list.
ListAfterKept(t, i, marks) == m_processes

\* What becomes of the list when thread t takes its i-th entry.
ListAfter(t, i, marks) ==
    IF ~wait[t].is_wait THEN m_processes
    ELSE IF m_processes[i].flags = "Terminated" THEN RemoveAt(m_processes, i)
    ELSE IF marks THEN [m_processes EXCEPT ![i] = Entry(@.process, @.flags, TRUE)]
    ELSE m_processes

\* A death reported to waits (of which one consumes it) is reaped.
ReapedAfter(S, c, flags) ==
    IF flags = "Terminated" /\ \E t \in S : wait[t].is_wait THEN reaped \cup {c} ELSE reaped

\* Thread t takes the i-th entry; try_unblock() marks what it has waited for,
\* should_add_blocker() does not.
TakeEntry(t, i, marks) ==
    LET e == m_processes[i]
    IN  /\ m_result' = [m_result EXCEPT ![t] = Info(e.process, e.flags)]
        /\ m_processes' = ListAfter(t, i, marks)
        /\ reaped' = ReapedAfter({t}, e.process, e.flags)

TryUnblock(t) ==
    LET S == TakenBy(t, TRUE)
    IN  IF S # {} THEN TakeEntry(t, First(S), TRUE)
                  ELSE UNCHANGED <<m_result, m_processes, reaped>>

-----------------------------------------------------------------------------
(* sys$waitid().                                                            *)

\* The process of a child exists as long as somebody refers to it.
Exists(c) ==
    \/ c \notin reaped
    \/ \E i \in 1..Len(m_processes) : m_processes[i].process = c
    \/ \E t \in Threads : wait[t].idtype = "P_PID" /\ c \in wait[t].waitee

\* The waitee is looked up, under the big lock (a process group is there as
\* long as anybody is in it, children of others included) ...
Waitid(t) ==
    /\ pc[t] = "outside" /\ \A u \in Threads : pc[u] # "calling"
    /\ \E w \in Waits :
         /\ w.idtype = "P_PID" => w.waitee \subseteq owned /\ \A c \in w.waitee : Exists(c)
         /\ wait' = [wait EXCEPT ![t] = w]
    /\ pc' = [pc EXCEPT ![t] = "calling"]
    /\ UNCHANGED <<phase, owned, m_processes, m_blockers, m_result, signal, reaped>>

\* ... with WNOHANG an entry is taken if there is one ...
WaitNoHang(t) ==
    /\ pc[t] = "calling"
    /\ TryUnblock(t)
    /\ pc' = [pc EXCEPT ![t] = "returning"]
    /\ UNCHANGED <<phase, owned, m_blockers, wait, signal>>

\* Fault: the thread goes to sleep without a look at the list.
MatchesNever(t) == {}

Matches(t) == TakenBy(t, FALSE)

\* ... and without it should_add_blocker() takes one, waited for or not, or
\* the thread goes to sleep.  (With a result try_unblock() changes nothing.)
Block(t) ==
    /\ pc[t] = "calling"
    /\ IF Matches(t) # {}
         THEN /\ TakeEntry(t, First(Matches(t)), FALSE)
              /\ pc' = [pc EXCEPT ![t] = "returning"]
              /\ UNCHANGED m_blockers
         ELSE /\ m_blockers' = m_blockers \cup {t}
              /\ pc' = [pc EXCEPT ![t] = "asleep"]
              /\ UNCHANGED <<m_result, m_processes, reaped>>
    /\ UNCHANGED <<phase, owned, wait, signal>>

\* A signal with a handler, SIGCHLD or another one, wakes a sleeping thread.
Interrupt(t, sig) ==
    /\ pc[t] = "asleep" /\ m_result[t] = NoInfo /\ signal[t] = None
    /\ signal' = [signal EXCEPT ![t] = sig]
    /\ UNCHANGED <<phase, owned, m_processes, m_blockers, pc, wait, m_result, reaped>>

\* do_set_result(): a wait with a result was not interrupted by SIGCHLD.
SignalAfter(t, told) == IF told /\ signal[t] = "SIGCHLD" THEN None ELSE signal[t]

\* end_blocking() looks at the list once more, and settles what the call is
\* going to return.
EndBlocking(t) ==
    /\ pc[t] = "asleep" /\ (m_result[t] # NoInfo \/ signal[t] # None)
    /\ TryUnblock(t)
    /\ signal' = [signal EXCEPT ![t] = SignalAfter(t, m_result[t] = NoInfo /\ m_result'[t] # NoInfo)]
    /\ pc' = [pc EXCEPT ![t] = IF signal'[t] = None THEN "returning" ELSE "interrupted"]
    /\ UNCHANGED <<phase, owned, m_blockers, wait>>

\* With the big lock back, finalize() takes the blocker from the set.
Return(t) ==
    /\ pc[t] \in {"returning", "interrupted"}
    /\ m_blockers' = m_blockers \ {t}
    /\ pc' = [pc EXCEPT ![t] = "outside"]
    /\ wait' = [wait EXCEPT ![t] = NoWait]
    /\ m_result' = [m_result EXCEPT ![t] = NoInfo]
    /\ signal' = [signal EXCEPT ![t] = None]
    /\ UNCHANGED <<phase, owned, m_processes, reaped>>

-----------------------------------------------------------------------------
(* WaitBlockerSet::unblock(), called when a child changes its state.        *)

\* Was the state that the list had of this child, an earlier one, waited for?
WasWaitedAlready(c, flags) ==
    /\ flags # "Terminated"
    /\ \E i \in 1..Len(m_processes) : m_processes[i].process = c /\ m_processes[i].was_waited

\* The blockers that are told; they leave the set.
Told(c, flags) ==
    {t \in m_blockers : /\ Unblocks(t, c, flags)
                        /\ ~(WasWaitedAlready(c, flags) /\ wait[t].is_wait)}

\* The list with the new state of the child in place of the old one, or at
\* the end, where it counts as not waited for.
Update(c, flags, did_wait) ==
    IF \E i \in 1..Len(m_processes) : m_processes[i].process = c
      THEN [i \in 1..Len(m_processes) |->
               IF m_processes[i].process = c THEN Entry(c, flags, did_wait) ELSE m_processes[i]]
      ELSE Append(m_processes, Entry(c, flags, FALSE))

\* Fault: a death that somebody was told of is not remembered, even if
\* WNOWAIT says that it is to be.
RememberedUntold(flags, told) == told = {} \/ flags # "Terminated"

\* A state is remembered unless it is a death that was waited for.
Remembered(flags, told) ==
    flags # "Terminated" \/ \A t \in told : ~wait[t].is_wait

Unblock(c, flags) ==
    LET told     == Told(c, flags)
        did_wait == \E t \in told : wait[t].is_wait
    IN  /\ m_result' = [t \in Threads |-> IF t \in told THEN Info(c, flags) ELSE m_result[t]]
        /\ signal' = [t \in Threads |-> SignalAfter(t, t \in told)]
        /\ m_blockers' = m_blockers \ told
        /\ m_processes' = IF Remembered(flags, told) THEN Update(c, flags, did_wait)
                                                     ELSE m_processes
        /\ reaped' = ReapedAfter(told, c, flags)

\* unblock_waiters(): the parent is told, if there is one.
UnblockWaiters(c, flags) ==
    IF c \in owned THEN Unblock(c, flags)
                   ELSE UNCHANGED <<m_result, signal, m_blockers, m_processes, reaped>>

Become(c, from, to, flags) ==
    /\ phase[c] = from
    /\ phase' = [phase EXCEPT ![c] = to]
    /\ UnblockWaiters(c, flags)
    /\ UNCHANGED <<owned, pc, wait>>

Stop(c)     == Become(c, "running", "stopped", "Stopped")
Continue(c) == Become(c, "stopped", "running", "Continued")

\* Process::finalize(); a stopped process is continued before it dies.
Finalize(c) == Become(c, "running", "dead", "Terminated")

\* sys$disown(): the child has no parent any more.  disowned_by_waiter() is
\* called for the set of the child, whose list does not have the parent, so
\* that it wakes nobody.
Disown(c) ==
    /\ c \in owned /\ Exists(c)
    /\ owned' = owned \ {c}
    /\ UNCHANGED <<phase, m_processes, m_blockers, pc, wait, m_result, signal, reaped>>

-----------------------------------------------------------------------------
Steps(t) == WaitNoHang(t) \/ Block(t) \/ EndBlocking(t) \/ Return(t)

Next ==
    \/ \E t \in Threads : Waitid(t) \/ Steps(t) \/ \E s \in {"SIGCHLD", "other"} : Interrupt(t, s)
    \/ \E c \in Children : Stop(c) \/ Continue(c) \/ Finalize(c) \/ Disown(c)

\* A thread inside the call goes on; the big lock is passed on (module Mutex).
Spec == Init /\ [][Next]_vars /\ \A t \in Threads : WF_vars(Steps(t))

-----------------------------------------------------------------------------
Pending(c) == \E i \in 1..Len(m_processes) : m_processes[i] = Entry(c, "Terminated", FALSE)

\* The list has one entry for a child at most, and the entry of a death is
\* that of a dead child (VERIFY in unblock()); the sleepers are in the set.
TypeOK ==
    /\ phase \in [Children -> {"running", "stopped", "dead"}] /\ owned \subseteq Children
    /\ m_processes \in SeqOf([process : Children, flags : UnblockFlags, was_waited : BOOLEAN],
                             Cardinality(Children))
    /\ \A i, j \in 1..Len(m_processes) :
           m_processes[i].process = m_processes[j].process => i = j
    /\ \A c \in Children : Pending(c) => phase[c] = "dead"
    /\ pc \in [Threads -> {"outside", "calling", "asleep", "returning", "interrupted"}]
    /\ wait \in [Threads -> Waits \cup {NoWait}]
    /\ m_result \in [Threads -> [process : Children, flags : UnblockFlags] \cup {NoInfo}]
    /\ signal \in [Threads -> {None, "SIGCHLD", "other"}]
    /\ \A t \in Threads : pc[t] = "asleep" /\ m_result[t] = NoInfo => t \in m_blockers

\* A death is neither lost nor kept: once the parent is told of it, it is in
\* the list until a wait without WNOWAIT takes it.
DeathIsPendingOrReaped ==
    \A c \in Children : phase[c] = "dead" /\ c \in owned => (Pending(c) <=> c \notin reaped)

\* The list has one entry for a child at most, and the zombies in it are the
\* dead children whose death no wait has consumed.  (A wait consumes a death
\* also if it returns EINTR.  An entry that is not of a death may be out of
\* date: unblock() leaves the last one alone when it tells a wait of a death.)
ListIsSound == TypeOK /\ DeathIsPendingOrReaped

\* A death that was waited for is not reported by any wait from then on, nor
\* is a result replaced before the wait returns.
ReapedForGood ==
    [][\A t \in Threads : m_result'[t] # m_result[t] /\ m_result'[t] # NoInfo =>
           /\ m_result[t] = NoInfo
           /\ m_result'[t].flags = "Terminated" => m_result'[t].process \notin reaped]_vars

\* No thread sleeps while a death that it waits for is in the list, however
\* its call and the death interleave.
NoDeathOverlooked ==
    \A t \in Threads, c \in Children :
        ~(pc[t] = "asleep" /\ Unblocks(t, c, "Terminated") /\ Pending(c))

ReapWait == [idtype |-> "P_ALL", waitee |-> Children, states |-> {"Terminated"}, is_wait |-> TRUE]

ReapCall(t) == Block(t) /\ wait[t] = ReapWait

\* A parent that keeps waiting for any of its children, for deaths only,
\* reaps every child.
ZombiesAreReaped ==
    []<><<\E t \in Threads : ReapCall(t)>>_vars =>
        \A c \in Children : Pending(c) ~> ~Pending(c)
=============================================================================
