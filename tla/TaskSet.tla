------------------------------ MODULE TaskSet ------------------------------
(***************************************************************************)
(* The task set of one I_T nexus (struct initiator_state, core/tdisk.h) on *)
(* one virtual disk, the device queue in front of tdisk_proc_cmd, and the  *)
(* task management functions that abort commands.                          *)
(*                                                                         *)
(* A command (struct qsio_scsiio) is identified with its task tag.  It is  *)
(* accepted by istate_queue_cmd, which decides under istate_lock whether   *)
(* it may execute now; the thread that accepted it then inserts it in      *)
(* pending_queue; a device queue thread takes it, executes it and calls    *)
(* device_send_ccb; the interface's queue_fn calls istate_remove_cmd,      *)
(* which decides which waiting commands may now execute, and inserts those *)
(* in pending_queue after it has released istate_lock.  Each of these is a *)
(* step of its own, so other threads run between them.                     *)
(***************************************************************************)
EXTENDS Integers, Sequences, FiniteSets

CONSTANTS Task,      \* task tags; a tag is used again once its command ended
          Manager    \* threads that run task management functions

ASSUME TaskFinite == IsFiniteSet(Task)

VARIABLES
  queue_list,     \* istate->queue_list: the accepted commands, oldest first
  attr,           \* ctio->task_attr
  queued,         \* ctio->queued: the command was allowed to execute
  istate,         \* istate->ordered, head, queued and pending
  blocked,        \* istate->blocked: istate_queue_cmd has to wait
  loc,            \* how far the command got, see Loc
  aborted,        \* QSIO_CTIO_ABORTED in ccb_h.flags
  todo,           \* commands a thread has allowed to execute and still has
                  \*   to insert; indexed by the command the thread handles
  pending_queue,  \* the device queue
  mgr,            \* the task management function each manager runs
  doomed          \* history: commands ABORT TASK has reported aborted

vars == <<queue_list, attr, queued, istate, blocked, loc, aborted, todo,
          pending_queue, mgr, doomed>>

Attr == {"SIMPLE", "ORDERED", "HEAD"}

(***************************************************************************)
(* "set"  in queue_list, not (yet) in pending_queue                        *)
(* "devq" in pending_queue                                                 *)
(* "run"  taken by a device queue thread, which executes it                *)
(* "send" device_send_ccb has reset ccb_h.flags and calls queue_fn         *)
(* QSIO_IN_DEVQ is set exactly in "devq" and "run".                        *)
(***************************************************************************)
Loc == {"idle", "set", "devq", "run", "send"}

InDevq(t) == loc[t] \in {"devq", "run"}

Op == {"idle", "task", "set", "reset", "unblock"}

Listed == {queue_list[i] : i \in 1..Len(queue_list)}

Queue == {pending_queue[i] : i \in 1..Len(pending_queue)}

(* TAILQ_REMOVE of the command at position i.                              *)
RemoveAtPos(s, i) ==
  [j \in 1..(Len(s) - 1) |-> IF j < i THEN s[j] ELSE s[j + 1]]

One(b) == IF b THEN 1 ELSE 0

Idle(m) == mgr[m].op = "idle"

Init ==
  /\ queue_list = <<>>
  /\ attr = [t \in Task |-> "SIMPLE"]
  /\ queued = [t \in Task |-> FALSE]
  /\ istate = [ordered |-> 0, head |-> 0, queued |-> 0, pending |-> 0]
  /\ blocked = FALSE
  /\ loc = [t \in Task |-> "idle"]
  /\ aborted = [t \in Task |-> FALSE]
  /\ todo = [t \in Task |-> {}]
  /\ pending_queue = <<>>
  /\ mgr = [m \in Manager |-> [op |-> "idle", victims |-> {}]]
  /\ doomed = {}

-----------------------------------------------------------------------------
(* Plausible mistakes in istate_queue_cmd's test.                          *)
BugExecOnOrdered(a) ==
  \/ a = "SIMPLE" /\ istate.head = 0
  \/ a = "HEAD"
  \/ a = "ORDERED" /\ istate.queued = 0
BugExecOnPending(a) ==
  \/ a = "SIMPLE" /\ istate.ordered = 0 /\ istate.head = 0
  \/ a = "HEAD"
  \/ a = "ORDERED" /\ istate.pending = 0

(* May a command with attribute a execute as soon as it arrives?           *)
ExecNow(a) ==
  \/ a = "SIMPLE" /\ istate.ordered = 0 /\ istate.head = 0
  \/ a = "HEAD"
  \/ a = "ORDERED" /\ istate.queued = 0

istate_queue_cmd(t, a) ==
  /\ loc[t] = "idle" /\ todo[t] = {}
  /\ ~blocked
  /\ queue_list' = Append(queue_list, t)
  /\ attr' = [attr EXCEPT ![t] = a]
  /\ queued' = [queued EXCEPT ![t] = ExecNow(a)]
  /\ istate' = [ordered |-> istate.ordered + One(ExecNow(a) /\ a = "ORDERED"),
                head    |-> istate.head + One(ExecNow(a) /\ a = "HEAD"),
                queued  |-> istate.queued + One(ExecNow(a)),
                pending |-> istate.pending + One(~ExecNow(a))]
  /\ loc' = [loc EXCEPT ![t] = "set"]
  /\ aborted' = [aborted EXCEPT ![t] = FALSE]
  /\ todo' = [todo EXCEPT ![t] = IF ExecNow(a) THEN {t} ELSE {}]
  /\ UNCHANGED <<blocked, pending_queue, mgr, doomed>>

(***************************************************************************)
(* A thread inserts the next command of its list, for which it holds       *)
(* devq_wait.  istate_remove_cmd builds that list in the order of          *)
(* queue_list, so the next one is the oldest.                              *)
(***************************************************************************)
BugInsertKeepsList(t) ==
  \E i \in 1..Len(queue_list) :
    LET u == queue_list[i] IN
    /\ u \in todo[t]
    /\ pending_queue' = Append(pending_queue, u)
    /\ loc' = [loc EXCEPT ![u] = "devq"]
    /\ UNCHANGED <<queue_list, attr, queued, istate, blocked, aborted, todo, mgr, doomed>>
BugInsertResetsFlags(t) ==
  \E i \in 1..Len(queue_list) :
    LET u == queue_list[i] IN
    /\ u \in todo[t]
    /\ \A j \in 1..(i - 1) : queue_list[j] \notin todo[t]
    /\ pending_queue' = Append(pending_queue, u)
    /\ loc' = [loc EXCEPT ![u] = "devq"]
    /\ aborted' = [aborted EXCEPT ![u] = FALSE]
    /\ todo' = [todo EXCEPT ![t] = @ \ {u}]
    /\ UNCHANGED <<queue_list, attr, queued, istate, blocked, mgr, doomed>>

gdevq_insert_ccb(t) ==
  \E i \in 1..Len(queue_list) :
    LET u == queue_list[i] IN
    /\ u \in todo[t]
    /\ \A j \in 1..(i - 1) : queue_list[j] \notin todo[t]
    /\ pending_queue' = Append(pending_queue, u)
    /\ loc' = [loc EXCEPT ![u] = "devq"]
    /\ todo' = [todo EXCEPT ![t] = @ \ {u}]
    /\ UNCHANGED <<queue_list, attr, queued, istate, blocked, aborted, mgr, doomed>>

(***************************************************************************)
(* A device queue thread takes the first command.  One that was aborted,   *)
(* or whose buffers cannot be allocated, goes straight to device_send_ccb, *)
(* which resets ccb_h.flags.  Once taken a command can no longer be        *)
(* flagged: it is not in pending_queue any more and QSIO_IN_DEVQ is set.   *)
(***************************************************************************)
devq_process_queue ==
  /\ pending_queue # <<>>
  /\ LET t == Head(pending_queue) IN
     \/ /\ ~aborted[t]
        /\ loc' = [loc EXCEPT ![t] = "run"]
        /\ UNCHANGED aborted
     \/ \* aborted, or ctio_check_alloc failed
        /\ loc' = [loc EXCEPT ![t] = "send"]
        /\ aborted' = [aborted EXCEPT ![t] = FALSE]
  /\ pending_queue' = Tail(pending_queue)
  /\ UNCHANGED <<queue_list, attr, queued, istate, blocked, todo, mgr, doomed>>

(* tdisk_proc_cmd has executed the command and calls device_send_ccb.      *)
device_send_ccb(t) ==
  /\ loc[t] = "run"
  /\ loc' = [loc EXCEPT ![t] = "send"]
  /\ aborted' = [aborted EXCEPT ![t] = FALSE]
  /\ UNCHANGED <<queue_list, attr, queued, istate, blocked, todo,
                 pending_queue, mgr, doomed>>

-----------------------------------------------------------------------------
(* Plausible mistakes in the scan of istate_remove_cmd.                    *)
BugPromoteAnyOrdered(s) ==
  {i \in 1..Len(s) :
     /\ ~queued[s[i]]
     /\ \/ attr[s[i]] = "SIMPLE" /\ \A j \in 1..(i - 1) : attr[s[j]] = "SIMPLE"
        \/ attr[s[i]] = "ORDERED" /\ \A j \in 1..(i - 1) : attr[s[j]] = "SIMPLE"}
BugPromoteSimpleOnly(s) ==
  {i \in 1..Len(s) :
     /\ ~queued[s[i]]
     /\ attr[s[i]] = "SIMPLE" /\ \A j \in 1..(i - 1) : attr[s[j]] = "SIMPLE"}

(***************************************************************************)
(* The positions istate_remove_cmd's scan allows to execute.  The scan     *)
(* stops at the first waiting command it cannot allow, so everything       *)
(* before a position it reaches executes or was just allowed to:           *)
(* a SIMPLE command is allowed when nothing before it is non-simple, an    *)
(* ORDERED one when nothing is before it at all.  A HEAD OF QUEUE command  *)
(* never waits.                                                            *)
(***************************************************************************)
Promoted(s) ==
  {i \in 1..Len(s) :
     /\ ~queued[s[i]]
     /\ \/ attr[s[i]] = "SIMPLE" /\ \A j \in 1..(i - 1) : attr[s[j]] = "SIMPLE"
        \/ attr[s[i]] = "ORDERED" /\ i = 1}

(* The commands allowed when the command at position i leaves.             *)
Allowed(i) ==
  LET s == RemoveAtPos(queue_list, i) IN
  IF istate.pending = 0 \/ i # 1 THEN {} ELSE {s[j] : j \in Promoted(s)}

(* The counters when t leaves and the commands in P are allowed.           *)
BugCounters(t, P) ==
  [ordered |-> istate.ordered - One(queued[t] /\ attr[t] = "ORDERED"),
   head    |-> istate.head - One(queued[t] /\ attr[t] = "HEAD"),
   queued  |-> istate.queued - One(queued[t]) + Cardinality(P),
   pending |-> istate.pending - Cardinality(P)]

Counters(t, P) ==
  [ordered |-> istate.ordered - One(queued[t] /\ attr[t] = "ORDERED")
                 + Cardinality({u \in P : attr[u] = "ORDERED"}),
   head    |-> istate.head - One(queued[t] /\ attr[t] = "HEAD"),
   queued  |-> istate.queued - One(queued[t]) + Cardinality(P),
   pending |-> istate.pending - Cardinality(P)]

istate_remove_cmd(t) ==
  /\ loc[t] = "send"
  /\ \E i \in 1..Len(queue_list) :
       /\ queue_list[i] = t
       /\ queue_list' = RemoveAtPos(queue_list, i)
       /\ queued' = [u \in Task |-> u # t /\ (queued[u] \/ u \in Allowed(i))]
       /\ istate' = Counters(t, Allowed(i))
       /\ todo' = [todo EXCEPT ![t] = Allowed(i)]
  /\ loc' = [loc EXCEPT ![t] = "idle"]
  /\ aborted' = [aborted EXCEPT ![t] = FALSE]
  /\ mgr' = [m \in Manager |-> [mgr[m] EXCEPT !.victims = @ \ {t}]]
  /\ doomed' = doomed \ {t}
  /\ attr' = [attr EXCEPT ![t] = "SIMPLE"]   \* the ctio is gone; any value
  /\ UNCHANGED <<blocked, pending_queue>>

-----------------------------------------------------------------------------
(***************************************************************************)
(* The commands each part of a task management function flags with         *)
(* QSIO_CTIO_ABORTED: the istate_ part those in queue_list that are not    *)
(* QSIO_IN_DEVQ, under istate_lock; the gdevq_ part those in               *)
(* pending_queue.  The caller holds devq_wait around both.                 *)
(***************************************************************************)
istate_abort_task(t) == {u \in Listed : u = t /\ ~InDevq(u)}

gdevq_abort_task(t) == {u \in Queue : u = t}

istate_abort_task_set == {u \in Listed : ~InDevq(u)}

gdevq_abort_tasks_for_initiator == Queue

istate_abort_tasks == {u \in Listed : ~InDevq(u)}

gdevq_abort_tasks == Queue

Flag(S) == [t \in Task |-> aborted[t] \/ t \in S]

(* What the functions leave alone.                                         *)
OthersUnchanged == UNCHANGED <<queue_list, attr, queued, istate, loc, todo, pending_queue>>

Begin(m, op, victims) == mgr' = [mgr EXCEPT ![m] = [op |-> op, victims |-> victims]]

(***************************************************************************)
(* __device_istate_abort_task: a command that is executing is only waited  *)
(* for, in the loop over istate_task_exists, and not reported aborted.     *)
(***************************************************************************)
abort_task(m, t) ==
  /\ Idle(m)
  /\ blocked' = (blocked \/ queue_list # <<>>)
  /\ LET found == istate_abort_task(t) \cup gdevq_abort_task(t) IN
     /\ aborted' = Flag(found)
     /\ IF found = {} /\ t \in Listed
          THEN Begin(m, "task", {t})
          ELSE Begin(m, "unblock", found)
  /\ OthersUnchanged /\ UNCHANGED doomed

(* istate_task_exists no longer finds the tag.                             *)
abort_task_gone(m) ==
  /\ mgr[m].op = "task"
  /\ mgr[m].victims \cap Listed = {}
  /\ Begin(m, "unblock", {})
  /\ OthersUnchanged /\ UNCHANGED <<blocked, aborted, doomed>>

(* __device_istate_abort_task_set, up to the wait for an empty list.       *)
abort_task_set(m) ==
  /\ Idle(m)
  /\ blocked' = (blocked \/ queue_list # <<>>)
  /\ aborted' = Flag(istate_abort_task_set \cup gdevq_abort_tasks_for_initiator)
  /\ Begin(m, "set", Listed)
  /\ OthersUnchanged /\ UNCHANGED doomed

abort_task_set_drained(m) ==
  /\ mgr[m].op = "set"
  /\ queue_list = <<>>
  /\ Begin(m, "unblock", mgr[m].victims)
  /\ OthersUnchanged /\ UNCHANGED <<blocked, aborted, doomed>>

(* Plausible mistake: the return without the wakeup of waiting threads.    *)
BugUnblock(m) ==
  /\ mgr[m].op = "unblock"
  /\ doomed' = doomed \cup mgr[m].victims
  /\ Begin(m, "idle", {})
  /\ OthersUnchanged /\ UNCHANGED <<aborted, blocked>>

(* atomic16_set(&istate->blocked, 0), chan_wakeup and the return.          *)
unblock(m) ==
  /\ mgr[m].op = "unblock"
  /\ blocked' = FALSE
  /\ doomed' = doomed \cup mgr[m].victims
  /\ Begin(m, "idle", {})
  /\ OthersUnchanged /\ UNCHANGED aborted

(* tdisk_reset, this nexus's part of it, up to device_unblock_queues.      *)
tdisk_reset(m) ==
  /\ Idle(m)
  /\ blocked' = (blocked \/ queue_list # <<>>)
  /\ aborted' = Flag(istate_abort_tasks \cup gdevq_abort_tasks)
  /\ Begin(m, "reset", Listed)
  /\ OthersUnchanged /\ UNCHANGED doomed

(* device_unblock_queues retries while a blocked list is not empty.        *)
device_unblock_queues(m) ==
  /\ mgr[m].op = "reset"
  /\ blocked => queue_list = <<>>
  /\ blocked' = FALSE
  /\ Begin(m, "idle", {})
  /\ OthersUnchanged /\ UNCHANGED <<aborted, doomed>>

-----------------------------------------------------------------------------
Next ==
  \/ \E t \in Task, a \in Attr : istate_queue_cmd(t, a)
  \/ \E t \in Task : gdevq_insert_ccb(t)
  \/ devq_process_queue
  \/ \E t \in Task : device_send_ccb(t)
  \/ \E t \in Task : istate_remove_cmd(t)
  \/ \E m \in Manager, t \in Task : abort_task(m, t)
  \/ \E m \in Manager : abort_task_gone(m)
  \/ \E m \in Manager : abort_task_set(m)
  \/ \E m \in Manager : abort_task_set_drained(m)
  \/ \E m \in Manager : unblock(m)
  \/ \E m \in Manager : tdisk_reset(m)
  \/ \E m \in Manager : device_unblock_queues(m)

Spec == Init /\ [][Next]_vars

(***************************************************************************)
(* Threads that have something to do get to do it: a thread holding a list *)
(* inserts it, device queue threads are woken by every insert, an executed *)
(* command completes, a function that may return returns.  Nothing makes   *)
(* an initiator send commands or task management functions.                *)
(***************************************************************************)
Fairness ==
  /\ \A t \in Task : WF_vars(gdevq_insert_ccb(t))
  /\ WF_vars(devq_process_queue)
  /\ \A t \in Task : WF_vars(device_send_ccb(t))
  /\ \A t \in Task : WF_vars(istate_remove_cmd(t))
  /\ \A m \in Manager : WF_vars(abort_task_gone(m))
  /\ \A m \in Manager : WF_vars(abort_task_set_drained(m))
  /\ \A m \in Manager : WF_vars(unblock(m))
  /\ \A m \in Manager : WF_vars(device_unblock_queues(m))

FairSpec == Spec /\ Fairness

-----------------------------------------------------------------------------
TypeOK ==
  /\ queue_list \in Seq(Task)
  /\ attr \in [Task -> Attr]
  /\ queued \in [Task -> BOOLEAN]
  /\ istate \in [ordered : Nat, head : Nat, queued : Nat, pending : Nat]
  /\ blocked \in BOOLEAN
  /\ loc \in [Task -> Loc]
  /\ aborted \in [Task -> BOOLEAN]
  /\ todo \in [Task -> SUBSET Task]
  /\ pending_queue \in Seq(Task)
  /\ mgr \in [Manager -> [op : Op, victims : SUBSET Task]]
  /\ doomed \in SUBSET Task

(***************************************************************************)
(* The counters istate_queue_cmd decides by are what they stand for: they  *)
(* are updated in two functions and never recomputed, so one missed update *)
(* would stall or over-admit commands for as long as the nexus lives.      *)
(***************************************************************************)
CountersMatchQueue ==
  /\ istate.ordered = Cardinality({t \in Listed : queued[t] /\ attr[t] = "ORDERED"})
  /\ istate.head = Cardinality({t \in Listed : queued[t] /\ attr[t] = "HEAD"})
  /\ istate.queued = Cardinality({t \in Listed : queued[t]})
  /\ istate.pending = Cardinality({t \in Listed : ~queued[t]})

(***************************************************************************)
(* No stall: istate_remove_cmd looks for commands to allow only when the   *)
(* oldest command leaves, so the oldest one must always be executing.      *)
(***************************************************************************)
OldestExecutes == queue_list # <<>> => queued[queue_list[1]]

(***************************************************************************)
(* An ORDERED command executes only after every command accepted before it *)
(* has left the task set, and so no two ORDERED commands execute together. *)
(***************************************************************************)
OrderedIsOldest ==
  \A i \in 1..Len(queue_list) :
    queued[queue_list[i]] /\ attr[queue_list[i]] = "ORDERED" => i = 1

(***************************************************************************)
(* No SIMPLE command is allowed to execute while an ORDERED one executes,  *)
(* whether it arrives meanwhile or was waiting.                            *)
(***************************************************************************)
SimpleWaitsForOrdered ==
  [][\A t \in Task :
       (~queued[t] /\ queued'[t] /\ attr'[t] = "SIMPLE")
         => ~\E u \in Listed' : queued'[u] /\ attr'[u] = "ORDERED"]_vars

(***************************************************************************)
(* Every command is handed to the device queue exactly once: one that may  *)
(* execute and is not yet there is on exactly one thread's list, and       *)
(* pending_queue holds no command twice.                                   *)
(***************************************************************************)
DispatchedOnce ==
  /\ \A u \in Task : \A s, t \in Task : u \in todo[s] \cap todo[t] => s = t
  /\ \A u \in Task : (loc[u] = "set" /\ queued[u]) <=> \E t \in Task : u \in todo[t]
  /\ \A i, j \in 1..Len(pending_queue) : pending_queue[i] = pending_queue[j] => i = j
  /\ \A u \in Task : loc[u] = "devq" <=> u \in Queue

(***************************************************************************)
(* A command that ABORT TASK has reported aborted never executes after the *)
(* report, however the function raced with the thread that accepted the    *)
(* command, the one that inserts it, the one that takes it and other       *)
(* functions.                                                              *)
(***************************************************************************)
AbortedNeverRuns == \A t \in doomed : loc[t] # "run"

(***************************************************************************)
(* Every accepted command leaves the task set: a waiting command is not    *)
(* forgotten, whatever arrives after it and whatever is aborted meanwhile. *)
(***************************************************************************)
EveryCommandEnds == \A t \in Task : loc[t] # "idle" ~> loc[t] = "idle"

(***************************************************************************)
(* A thread waiting in istate_queue_cmd is let in again: whatever function *)
(* blocked the nexus, and however many run, some step unblocks it.         *)
(***************************************************************************)
BlockedIsLifted == blocked ~> ~blocked

=============================================================================
