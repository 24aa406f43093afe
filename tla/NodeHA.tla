------------------------------- MODULE NodeHA -------------------------------
(***************************************************************************)
(* High availability of the QUADStor node pair: who is MASTER, how the     *)
(* STANDBY is kept in sync, how it takes over after a failure, and how a   *)
(* node that shuts down or starts hands the role over (core/node_ha.c,     *)
(* with its messages in core/node_sync.c and core/node_master.c).          *)
(*                                                                         *)
(* The pair shares storage, one sector of which is the quorum record       *)
(* (struct ha_config): who owns the storage and whether the peer may take  *)
(* it over.  Each node runs three threads that touch this state: "main"    *)
(* (start and shutdown), "thr" (node_ha_thr) and "hnd" (the thread of the  *)
(* sync socket a message of the peer arrives on).  Writes are abstracted   *)
(* to what the protocol owes them: `fresh[n]' says that every write        *)
(* acknowledged so far is known to n, in its memory or, for a node that    *)
(* has just loaded, from the shared disks.                                 *)
(***************************************************************************)
EXTENDS Naturals, FiniteSets

CONSTANTS
    Controller,     \* the node of type NODE_TYPE_CONTROLLER
    Master,         \* the node of type NODE_TYPE_MASTER
    Writer,         \* the write commands that may be in flight
    fence_enabled,  \* master_config.fence_enabled
    SlowBoot,       \* a node does not come back while its peer takes over
    Faults,         \* the kinds of faults that happen
    MaxFaults,      \* how many faults may happen in a behaviour
    Watched         \* the gaps that `gaps' records

Node == {Controller, Master}
Thread == {"main", "thr", "hnd"}

(***************************************************************************)
(* Gaps in the protocol, recorded by `gaps' when they open.  A write the   *)
(* peer was not told of is acknowledged                                    *)
(*   "racing"    while node_sync_disable has yet to write the record,      *)
(*   "allowed"   though the record allows the peer to take over,           *)
(*   "draining"  by a MASTER that is handing its role over,                *)
(*   "exiting"   by a MASTER that already allows a new start;              *)
(* a sync that failed in its last moments                                  *)
(*   "late"      still allows the peer to take over,                       *)
(*   "done"      is still marked NODE_SYNC_DONE;                           *)
(* two threads of a node change its role at once:                          *)
(*   "overlap"   both hand over or take over,                              *)
(*   "starting"  one takes over while the other still starts the node.     *)
(***************************************************************************)
Gap == {"racing", "allowed", "draining", "exiting", "late", "done",
        "overlap", "starting"}
FaultKind == {"crash", "net", "relinquish", "fence", "sock"}

ASSUME NodeHAAssumption ==
    /\ Controller # Master
    /\ fence_enabled \in BOOLEAN
    /\ SlowBoot \in BOOLEAN
    /\ Faults \subseteq FaultKind
    /\ MaxFaults \in Nat
    /\ Watched \subseteq Gap

VARIABLES
    quorum,       \* the record on the quorum disk (struct ha_config)
    current,      \* <<node, thread>>: the timestamp it read is still on the disk
    on,           \* is the node up
    role,         \* node_role
    transition,   \* node_transition
    sync_status,  \* sync_status
    comm,         \* sync_comm: "none" (NULL), "up", or "broken" by a crash of the peer
    ha_task,      \* does node_ha_thr run
    disabling,    \* node_sync_disable holds the sync lock, the disk not yet written
    pinged,       \* a ping of the peer arrived since the standby checks began
    reply,        \* the answer to an HA_TAKEOVER or HA_RELINQUISH of the node
    pc,           \* what each thread of each node is at
    writer,       \* the write commands in flight
    fresh,        \* does the node know every acknowledged write
    gaps,         \* the ways the state the peer relies on was lost unnoticed, see Gap
    faults        \* the number of faults so far

hwvars == <<quorum, current>>
nodevars == <<on, role, transition, ha_task>>
syncvars == <<sync_status, comm, disabling>>
msgvars == <<pinged, reply>>
datavars == <<writer, fresh, gaps>>
vars == <<quorum, current, on, role, transition, sync_status, comm, ha_task,
          disabling, pinged, reply, pc, writer, fresh, gaps, faults>>

Peer(n) == IF n = Controller THEN Master ELSE Controller
NoNode == "none"
NoWrite == [node |-> NoNode, st |-> "idle"]
Off == [main |-> "off", thr |-> "idle", hnd |-> "idle"]

TakeoverLabel == {"pre", "monitor", "disable", "takeover", "post", "enable"}
ExitLabel == {"exit_sync", "exit_drain", "exit_relinquish", "exit_wait", "exited"}
Label == [main : {"off", "init", "query", "check", "owner", "sync", "poll",
                  "takeover_send", "takeover_wait", "run", "failed"}
                 \cup TakeoverLabel \cup ExitLabel,
          thr : {"idle", "checks", "sync", "poll"} \cup TakeoverLabel,
          hnd : {"idle", "setup", "setup_wait", "setup_enable", "setup_done", "drain",
                 "relinquish"} \cup TakeoverLabel]

\* kern_inited: cleared when the module is unloaded
kern_inited(n) == on[n] /\ pc[n]["main"] \notin ExitLabel

\* A fault of kind k, of which at most MaxFaults happen
Fault(k) == k \in Faults /\ faults < MaxFaults /\ faults' = faults + 1

\* The gap g opens if cond holds
Opens(g, cond) == {h \in Watched : h = g /\ cond}

At(n, t, l) == on[n] /\ pc[n][t] = l
Goto(n, t, l) == pc' = [pc EXCEPT ![n][t] = l]

(***************************************************************************)
(* The quorum record.  A write gives it a new timestamp, so no thread that *)
(* read it before has its timestamp any more.                              *)
(***************************************************************************)
HaConfig(n, allowed, init) ==
    [ipaddr |-> n, ha_allowed |-> allowed, ha_allowed_init |-> init]

ha_set_config(n, allowed, init) ==
    /\ quorum' = HaConfig(n, allowed, init)
    /\ current' = {}

\* The thread reads the record and keeps its timestamp
ha_read_config(n, t) ==
    /\ current' = current \cup {<<n, t>>}
    /\ UNCHANGED quorum

\* Has the owner written the record since the thread read it; a standby also
\* takes an owner that allows nobody in for active
check_ha_active(n, t, check_timestamp) ==
    \/ ~quorum.ha_allowed /\ ~quorum.ha_allowed_init /\ ~check_timestamp
    \/ <<n, t>> \notin current

\* node_ha_disable_nocheck: own the record unless it changed since it was read
node_ha_disable_nocheck(n, t) ==
    /\ <<n, t>> \in current
    /\ quorum' = HaConfig(n, FALSE, FALSE)
    /\ current' = {<<n, t>>}

node_sync_enabled(n) ==
    comm[n] # "none" /\ sync_status[n] \in {"INPROGRESS", "DONE"}

\* A message of n reaches its peer
Reachable(n) == on[Peer(n)] /\ comm[n] = "up"

\* A message of n is lost, or its answer is: the peer is gone, or the network is
Unreachable(n) ==
    \/ ~Reachable(n) /\ UNCHANGED faults
    \/ Fault("net")

\* A new sync connection: the peer accepts it unless it is being unloaded
Connectable(n) == comm[n] = "up" \/ (comm[n] = "none" /\ kern_inited(Peer(n)))

(***************************************************************************)
(* The node stops: crash, panic, fencing, or the end of a shutdown.  What  *)
(* it had in memory is gone, its commands are never acknowledged, and the  *)
(* peer's connection breaks.  `pcs' is the rest of what happens to pc.     *)
(***************************************************************************)
PowerOff(n, pcs) ==
    /\ on' = [on EXCEPT ![n] = FALSE]
    /\ role' = [role EXCEPT ![n] = "UNKNOWN"]
    /\ transition' = [transition EXCEPT ![n] = FALSE]
    /\ ha_task' = [ha_task EXCEPT ![n] = FALSE]
    /\ sync_status' = [sync_status EXCEPT ![n] = "UNKNOWN"]
    /\ comm' = [m \in Node |-> CASE m = n -> "none"
                                 [] m # n /\ comm[m] = "up" -> "broken"
                                 [] OTHER -> comm[m]]
    /\ disabling' = [disabling EXCEPT ![n] = FALSE]
    /\ pinged' = [pinged EXCEPT ![n] = FALSE]
    /\ reply' = [reply EXCEPT ![n] = "none"]
    /\ pc' = [pcs EXCEPT ![n] = Off]
    /\ writer' = [w \in Writer |-> IF writer[w].node = n THEN NoWrite ELSE writer[w]]
    /\ fresh' = [fresh EXCEPT ![n] = FALSE]
    /\ current' = {c \in current : c[1] # n}
    /\ UNCHANGED <<quorum, gaps>>

kern_panic(n) == PowerOff(n, pc) /\ UNCHANGED faults

crash(n) == on[n] /\ PowerOff(n, pc) /\ Fault("crash")

\* A node that was shut down, or that failed to start, is switched off
switch_off(n) ==
    /\ At(n, "main", "exited") \/ At(n, "main", "failed")
    /\ PowerOff(n, pc)
    /\ UNCHANGED faults

(***************************************************************************)
(* node_sync_disable: under the sync lock the status becomes ERROR, then a *)
(* MASTER takes back the permission to take over (node_ha_disable), and    *)
(* panics if the record names the peer.  The disk is written in a step of  *)
(* its own; whoever calls node_sync_disable meanwhile waits for the lock.  *)
(***************************************************************************)
node_sync_disable(n) ==
    /\ sync_status' = [sync_status EXCEPT ![n] = "ERROR"]
    /\ disabling' = [disabling EXCEPT
                       ![n] = @ \/ (role[n] = "MASTER" /\ sync_status[n] # "ERROR")]

node_ha_disable(n) ==
    /\ disabling[n]
    /\ \/ /\ role[n] = "MASTER" /\ quorum.ipaddr # n
          /\ kern_panic(n)
       \/ /\ role[n] = "MASTER" /\ quorum.ipaddr = n
          /\ ha_set_config(n, FALSE, FALSE)
          /\ disabling' = [disabling EXCEPT ![n] = FALSE]
          /\ UNCHANGED <<nodevars, sync_status, comm, msgvars, pc, datavars, faults>>
       \/ /\ role[n] # "MASTER"
          /\ disabling' = [disabling EXCEPT ![n] = FALSE]
          /\ UNCHANGED <<hwvars, nodevars, sync_status, comm, msgvars, pc, datavars, faults>>

\* node_sync_force_restart: drop what was synced, to ask for all of it again
node_sync_force_restart(n) ==
    /\ sync_status' = [sync_status EXCEPT ![n] = "NEED_RESYNC"]
    /\ fresh' = [fresh EXCEPT ![n] = FALSE]

(***************************************************************************)
(* Write commands.  A MASTER that serves commands tells the peer of the    *)
(* write before it acknowledges it; when that fails, or sync is off, the   *)
(* peer no longer knows every acknowledged write.                          *)
(***************************************************************************)
Serving(n) == At(n, "main", "run") /\ role[n] = "MASTER"

\* Writes of n that the peer was not told of (nonsync_pending_writes)
Nonsync(n) == {w \in Writer : writer[w].node = n /\ writer[w].st \in {"nonsync", "failed"}}

write_start(w, n) ==
    /\ writer[w] = NoWrite
    /\ Serving(n)
    /\ writer' = [writer EXCEPT ![w] = [node |-> n, st |-> "started"]]
    /\ UNCHANGED <<hwvars, nodevars, syncvars, msgvars, pc, fresh, gaps, faults>>

\* A mutant of node_pgdata_sync_start: a command waits while sync is off
BugWaitsForSync(w) ==
    LET n == writer[w].node
        Becomes(st) == writer' = [writer EXCEPT ![w].st = st]
    IN  /\ writer[w].st = "started"
        /\ \/ ~node_sync_enabled(n) /\ UNCHANGED vars
           \/ /\ node_sync_enabled(n) /\ Reachable(n)
              /\ Becomes("synced")
              /\ UNCHANGED <<hwvars, nodevars, syncvars, msgvars, pc, fresh, gaps, faults>>
           \/ /\ node_sync_enabled(n) /\ Unreachable(n)
              /\ node_sync_disable(n)
              /\ UNCHANGED <<hwvars, nodevars, comm, msgvars, pc, datavars>>

\* node_pgdata_sync_start and node_sync_send_page below it
node_pgdata_sync_start(w) ==
    LET n == writer[w].node
        Becomes(st) == writer' = [writer EXCEPT ![w].st = st]
    IN  /\ writer[w].st = "started"
        /\ \/ /\ ~node_sync_enabled(n) \/ pc[n]["hnd"] = "setup"
              /\ Becomes("nonsync")
              /\ UNCHANGED <<hwvars, nodevars, syncvars, msgvars, pc, fresh, gaps, faults>>
           \/ /\ node_sync_enabled(n) /\ Reachable(n) /\ role[Peer(n)] # "MASTER"
              /\ Becomes("synced")
              /\ UNCHANGED <<hwvars, nodevars, syncvars, msgvars, pc, fresh, gaps, faults>>
           \/ /\ node_sync_enabled(n) /\ Reachable(n) /\ role[Peer(n)] = "MASTER"
              /\ kern_panic(n)
           \/ /\ node_sync_enabled(n) /\ Unreachable(n)
              /\ Becomes("failed")
              /\ node_sync_disable(n)
              /\ UNCHANGED <<hwvars, nodevars, comm, msgvars, pc, fresh, gaps>>

\* The command completes; one whose send failed waited for node_sync_disable
device_send_ccb(w) ==
    LET n == writer[w].node
    IN  /\ writer[w].st \in {"synced", "nonsync", "failed"}
        /\ writer[w].st = "failed" => ~disabling[n]
        /\ writer' = [writer EXCEPT ![w] = NoWrite]
        /\ fresh' = [fresh EXCEPT ![Peer(n)] = @ /\ writer[w].st = "synced"]
        /\ gaps' = IF writer[w].st = "synced" THEN gaps
                   ELSE gaps \cup
                        Opens("racing", quorum.ha_allowed /\ disabling[n]) \cup
                        Opens("allowed", quorum.ha_allowed /\ ~disabling[n]) \cup
                        Opens("draining", pc[n]["main"] \in {"exit_sync", "exit_drain"}) \cup
                        Opens("exiting", pc[n]["main"] = "exited")
        /\ UNCHANGED <<hwvars, nodevars, syncvars, msgvars, pc, faults>>

NoWrites(n) == \A w \in Writer : writer[w].node # n

(***************************************************************************)
(* node_sync_start, run by "main" when a node starts and by "thr" later:   *)
(* ask the MASTER to send its state, then poll it until it is done.        *)
(***************************************************************************)
\* A node that could not sync.  A controller gives up; a master type node
\* that is to resync tries again or gives up, and any other runs on without
\* its HA thread; the HA thread closes the connection and goes on.
SyncFailed(n, t, status) ==
    /\ sync_status' = [sync_status EXCEPT ![n] = status]
    /\ IF t = "thr" THEN /\ Goto(n, t, "idle")
                         /\ comm' = [comm EXCEPT ![n] = "none"]
       ELSE /\ \/ n = Controller /\ Goto(n, t, "failed")
               \/ n = Master /\ status = "NEED_RESYNC" /\ Goto(n, t, "init")
               \/ n = Master /\ Goto(n, t, "run")
            /\ UNCHANGED comm

\* NODE_MSG_SYNC_START and its handler node_master_sync_start on the peer
node_sync_start(n, t) ==
    LET p == Peer(n)
        Accepts == /\ kern_inited(p) /\ role[p] = "MASTER"
                   /\ sync_status[p] # "INPROGRESS" /\ pc[p]["hnd"] = "idle"
    IN  /\ At(n, t, "sync")
        /\ \/ /\ Reachable(n) /\ Accepts
              /\ pc' = [pc EXCEPT ![n][t] = "poll", ![p]["hnd"] = "setup"]
              /\ sync_status' = [sync_status EXCEPT ![p] = "INPROGRESS"]
              /\ comm' = [comm EXCEPT ![p] = "up"]
              /\ UNCHANGED faults
           \/ /\ Reachable(n) /\ ~kern_inited(p)
              /\ SyncFailed(n, t, "ERROR")
              /\ UNCHANGED faults
           \/ /\ Reachable(n) /\ kern_inited(p)
              /\ role[p] # "MASTER" \/ sync_status[p] = "INPROGRESS"
              /\ SyncFailed(n, t, "NEED_RESYNC")
              /\ UNCHANGED faults
           \/ /\ Unreachable(n)
              /\ \E status \in {"ERROR", "NEED_RESYNC"} : SyncFailed(n, t, status)
           \/ \* no socket in time: the status stays as it is
              Fault("sock") /\ SyncFailed(n, t, "INPROGRESS")
        /\ UNCHANGED <<hwvars, nodevars, disabling, msgvars, datavars>>

\* NODE_MSG_SYNC_STATUS, answered by node_master_sync_status
node_sync_poll(n, t) ==
    LET p == Peer(n)
    IN  /\ At(n, t, "poll")
        /\ \/ /\ Reachable(n) /\ sync_status[p] = "DONE"
              /\ sync_status' = [sync_status EXCEPT ![n] = "DONE"]
              /\ Goto(n, t, CASE t = "thr" -> "idle"
                              [] t = "main" /\ n = Controller -> "takeover_send"
                              [] OTHER -> "run")
              /\ ha_task' = [ha_task EXCEPT ![n] = @ \/ n = Master]
              /\ UNCHANGED <<comm, disabling, faults>>
           \/ /\ \/ Reachable(n) /\ sync_status[p] \notin {"INPROGRESS", "DONE"} /\ UNCHANGED faults
                 \/ Unreachable(n)
              /\ SyncFailed(n, t, "ERROR")
              /\ disabling' = [disabling EXCEPT
                                 ![n] = @ \/ (role[n] = "MASTER" /\ sync_status[n] # "ERROR")]
              /\ UNCHANGED ha_task
        /\ UNCHANGED <<hwvars, on, role, transition, msgvars, datavars>>

(***************************************************************************)
(* The rest of node_master_sync_start on the MASTER: node_sync_setup_bdevs *)
(* sends everything and marks it as synced from now on, waits for the      *)
(* writes that began unsynced, checks the status and allows the peer to    *)
(* take over; then the status becomes DONE.                                *)
(***************************************************************************)
node_sync_setup_bdevs(n) ==
    /\ At(n, "hnd", "setup")
    /\ \/ /\ Reachable(n)
          /\ Goto(n, "hnd", "setup_wait")
          /\ UNCHANGED <<sync_status, disabling, faults>>
       \/ /\ Unreachable(n) /\ ~disabling[n]
          /\ Goto(n, "hnd", "idle")
          /\ sync_status' = [sync_status EXCEPT ![n] = "ERROR"]
          /\ disabling' = [disabling EXCEPT ![n] = role[n] = "MASTER"]
    /\ UNCHANGED <<hwvars, nodevars, comm, msgvars, datavars>>

\* A mutant of node_sync_setup_wait: what is sent is marked as synced only
\* after the wait, so that writes go on unsynced during the wait
BugMarkedLate(n) ==
    /\ At(n, "hnd", "setup_wait")
    /\ Goto(n, "hnd", IF sync_status[n] # "ERROR" /\ Nonsync(n) = {}
                      THEN "setup_enable" ELSE "setup")
    /\ fresh' = [fresh EXCEPT ![Peer(n)] = Reachable(n)]
    /\ UNCHANGED <<hwvars, nodevars, syncvars, msgvars, writer, gaps, faults>>

node_sync_setup_wait(n) ==
    /\ At(n, "hnd", "setup_wait")
    /\ \/ /\ sync_status[n] # "ERROR" /\ Nonsync(n) = {}
          /\ Goto(n, "hnd", "setup_enable")
          /\ fresh' = [fresh EXCEPT ![Peer(n)] = Reachable(n)]
          /\ UNCHANGED disabling
       \/ /\ sync_status[n] = "ERROR" /\ ~disabling[n]
          /\ Goto(n, "hnd", "idle")
          /\ disabling' = [disabling EXCEPT ![n] = role[n] = "MASTER"]
          /\ UNCHANGED fresh
    /\ UNCHANGED <<hwvars, nodevars, sync_status, comm, msgvars, writer, gaps, faults>>

\* node_ha_enable, called by node_sync_setup_bdevs
node_sync_setup_enable(n) ==
    /\ At(n, "hnd", "setup_enable")
    /\ ha_set_config(n, TRUE, FALSE)
    /\ Goto(n, "hnd", "setup_done")
    /\ gaps' = gaps \cup Opens("late", sync_status[n] = "ERROR")
    /\ UNCHANGED <<nodevars, syncvars, msgvars, writer, fresh, faults>>

\* node_sync_set_status(NODE_SYNC_DONE), whatever the status has become
node_sync_setup_done(n) ==
    /\ At(n, "hnd", "setup_done")
    /\ sync_status' = [sync_status EXCEPT ![n] = "DONE"]
    /\ Goto(n, "hnd", "idle")
    /\ gaps' = gaps \cup Opens("done", sync_status[n] = "ERROR")
    /\ UNCHANGED <<hwvars, nodevars, comm, disabling, msgvars, writer, fresh, faults>>

(***************************************************************************)
(* Taking over: node_ha_takeover_pre and node_ha_takeover, run by "main"   *)
(* (a controller that starts) and "hnd" (HA_RELINQUISH) with the peer's    *)
(* consent (graceful), and by "thr" when the peer seems to have failed.    *)
(***************************************************************************)
graceful(t) == t # "thr"

\* What follows in the caller: the HA thread and the relinquish handler close
\* the connection, a controller that starts runs its HA thread
TakeoverReturns(n, t, ok) ==
    /\ Goto(n, t, CASE t # "main" -> "idle" [] t = "main" /\ ok -> "run" [] OTHER -> "failed")
    /\ ha_task' = [ha_task EXCEPT ![n] = @ \/ t = "main"]
    /\ comm' = [comm EXCEPT ![n] = IF t = "main" THEN @ ELSE "none"]

\* A mutant of Answer: the answer is the node's own sync status
BugAnswer(n, t, status) ==
    reply' = IF t = "hnd" /\ pc[Peer(n)]["main"] = "exit_wait"
             THEN [reply EXCEPT ![Peer(n)] = sync_status[n]] ELSE reply

Answer(n, t, status) ==
    reply' = IF t = "hnd" /\ pc[Peer(n)]["main"] = "exit_wait"
             THEN [reply EXCEPT ![Peer(n)] = status] ELSE reply

TakeoverFails(n, t) ==
    /\ sync_status' = [sync_status EXCEPT ![n] = "NEED_RESYNC"]
    /\ transition' = [transition EXCEPT ![n] = FALSE]
    /\ TakeoverReturns(n, t, FALSE)
    /\ Answer(n, t, "error")
    /\ UNCHANGED <<on, role, disabling, pinged>>

\* A mutant of node_ha_takeover_pre: ha_allowed is not looked at
BugAllowedIgnored(n, t) ==
    /\ At(n, t, "pre")
    /\ sync_status[n] = "DONE"
    /\ ha_read_config(n, t)
    /\ transition' = [transition EXCEPT ![n] = TRUE]
    /\ Goto(n, t, "monitor")
    /\ UNCHANGED <<on, role, ha_task, syncvars, msgvars, datavars, faults>>

node_ha_takeover_pre(n, t) ==
    /\ At(n, t, "pre")
    /\ \/ /\ sync_status[n] = "DONE" /\ quorum.ha_allowed
          /\ ha_read_config(n, t)
          /\ transition' = [transition EXCEPT ![n] = TRUE]
          /\ Goto(n, t, "monitor")
          /\ gaps' = gaps \cup Opens("overlap", graceful(t) /\ pc[n]["thr"] # "idle")
                          \cup Opens("starting", t = "hnd" /\ pc[n]["main"] # "run")
          /\ UNCHANGED <<on, role, ha_task, syncvars, msgvars>>
       \/ /\ sync_status[n] # "DONE" \/ ~quorum.ha_allowed
          /\ sync_status' = [sync_status EXCEPT ![n] = "NEED_RESYNC"]
          /\ TakeoverReturns(n, t, FALSE)
          /\ Answer(n, t, "error")
          /\ UNCHANGED <<hwvars, on, role, transition, disabling, pinged, gaps>>
    /\ UNCHANGED <<writer, fresh, faults>>

\* The end of node_ha_monitor and of node_ha_takeover_pre: own the record
MonitorDisable(n, t) ==
    /\ \/ /\ graceful(t) \/ fence_enabled
          /\ node_ha_disable_nocheck(n, t)
          /\ Goto(n, t, "takeover")
          /\ Answer(n, t, "ok")
          /\ sync_status' = [sync_status EXCEPT ![n] = IF n = Controller THEN @ ELSE "ERROR"]
          /\ UNCHANGED <<nodevars, comm, disabling, pinged>>
       \/ /\ ~graceful(t) /\ ~fence_enabled
          /\ node_ha_disable_nocheck(n, t)
          /\ TakeoverFails(n, t)
       \/ /\ <<n, t>> \notin current
          /\ TakeoverFails(n, t)
          /\ UNCHANGED hwvars
    /\ UNCHANGED <<datavars, faults>>

\* A mutant of node_ha_monitor: the peer is not fenced
BugNotFenced(n, t) ==
    /\ At(n, t, "monitor") /\ (graceful(t) => pc[n]["thr"] = "idle")
    /\ MonitorDisable(n, t)

\* node_ha_monitor: without the peer's consent the peer is fenced first
node_ha_monitor(n, t) ==
    \/ /\ At(n, t, "monitor") /\ graceful(t) /\ pc[n]["thr"] = "idle"
       /\ MonitorDisable(n, t)
    \/ /\ At(n, t, "monitor") /\ ~graceful(t) /\ fence_enabled
       /\ PowerOff(Peer(n), [pc EXCEPT ![n][t] = "disable"])
       /\ UNCHANGED faults
    \/ /\ At(n, t, "monitor") /\ ~graceful(t) /\ fence_enabled
       /\ Fault("fence")
       /\ TakeoverFails(n, t)
       /\ UNCHANGED <<hwvars, datavars>>
    \/ /\ \/ At(n, t, "disable")
          \/ At(n, t, "monitor") /\ ~graceful(t) /\ ~fence_enabled
       /\ MonitorDisable(n, t)

\* node_ha_takeover.  A master type node is done when it is MASTER and owns
\* the record (its second node_ha_disable_nocheck may fail, unnoticed); a
\* controller has still to tell the peer.
node_ha_takeover(n, t) ==
    /\ At(n, t, "takeover")
    /\ role' = [role EXCEPT ![n] = "MASTER"]
    /\ \/ /\ n = Controller
          /\ Goto(n, t, "post")
          /\ UNCHANGED <<hwvars, transition, ha_task, comm>>
       \/ /\ n = Master
          /\ transition' = [transition EXCEPT ![n] = FALSE]
          /\ TakeoverReturns(n, t, TRUE)
          /\ \/ node_ha_disable_nocheck(n, t)
             \/ <<n, t>> \notin current /\ UNCHANGED hwvars
    /\ UNCHANGED <<on, sync_status, disabling, msgvars, datavars, faults>>

\* node_sync_takeover_post_send
node_sync_takeover_post_send(n, t) ==
    /\ At(n, t, "post")
    /\ Goto(n, t, "enable")
    /\ \/ node_sync_enabled(n) /\ Reachable(n) /\ UNCHANGED <<sync_status, disabling, faults>>
       \/ node_sync_enabled(n) /\ Unreachable(n) /\ node_sync_disable(n)
       \/ ~node_sync_enabled(n) /\ UNCHANGED <<sync_status, disabling, faults>>
    /\ UNCHANGED <<hwvars, nodevars, comm, msgvars, datavars>>

\* node_ha_enable at the end of a controller's node_ha_takeover
node_ha_takeover_enable(n, t) ==
    /\ At(n, t, "enable") /\ ~disabling[n]
    /\ ha_set_config(n, TRUE, FALSE)
    /\ transition' = [transition EXCEPT ![n] = FALSE]
    /\ TakeoverReturns(n, t, TRUE)
    /\ UNCHANGED <<on, role, sync_status, disabling, msgvars, datavars, faults>>

(***************************************************************************)
(* node_ha_thr: one round of the HA thread.                                *)
(***************************************************************************)
ThreadRuns(n) == ha_task[n] /\ At(n, "thr", "idle")

\* A MASTER of master type without a synced peer renews its ownership
node_ha_beat(n) ==
    /\ ThreadRuns(n) /\ ~node_sync_enabled(n)
    /\ role[n] = "MASTER" /\ n = Master
    /\ \/ quorum.ipaddr # n /\ kern_panic(n)
       \/ /\ quorum.ipaddr = n
          /\ ha_set_config(n, FALSE, FALSE)
          /\ UNCHANGED <<nodevars, syncvars, msgvars, pc, datavars, faults>>

\* Does this round ping the peer
Pings(n) ==
    /\ ThreadRuns(n) /\ ~transition[n] /\ sync_status[n] # "INPROGRESS"
    /\ \/ node_sync_enabled(n)
       \/ sync_status[n] = "NEED_RESYNC" /\ ~(role[n] = "MASTER" /\ n = Master)

\* The peer answers; a standby whose MASTER has given up on sync resyncs
node_ha_ping(n) ==
    LET p == Peer(n)
        Resync == \/ sync_status[n] = "NEED_RESYNC"
                  \/ role[n] = "STANDBY" /\ sync_status[p] = "ERROR"
    IN  /\ Pings(n) /\ on[p] /\ Connectable(n)
        /\ comm' = [comm EXCEPT ![n] = "up"]
        /\ pinged' = [pinged EXCEPT ![p] = @ \/ pc[p]["thr"] = "checks"]
        /\ \/ /\ Resync
              /\ sync_status' = [sync_status EXCEPT ![n] = "INPROGRESS"]
              /\ fresh' = [fresh EXCEPT ![n] = @ /\ sync_status[n] = "NEED_RESYNC"]
              /\ Goto(n, "thr", "sync")
           \/ ~Resync /\ UNCHANGED <<sync_status, fresh, pc>>
        /\ UNCHANGED <<hwvars, nodevars, disabling, reply, writer, gaps, faults>>

\* No answer: node_ha_peer_checks.  A MASTER gives up on sync; a standby in
\* sync reads the record and waits (node_standby_checks).
node_ha_peer_checks(n) ==
    /\ Pings(n) /\ comm[n] # "none" /\ Unreachable(n)
    /\ \/ /\ role[n] = "STANDBY" /\ sync_status[n] = "NEED_RESYNC"
          /\ comm' = [comm EXCEPT ![n] = "none"]
          /\ UNCHANGED <<hwvars, sync_status, disabling, pinged, pc>>
       \/ /\ role[n] = "STANDBY" /\ sync_status[n] # "NEED_RESYNC"
          /\ ha_read_config(n, "thr")
          /\ pinged' = [pinged EXCEPT ![n] = FALSE]
          /\ Goto(n, "thr", "checks")
          /\ UNCHANGED <<sync_status, comm, disabling>>
       \/ /\ role[n] = "MASTER"
          /\ node_sync_disable(n)
          /\ comm' = [comm EXCEPT ![n] = "none"]
          /\ UNCHANGED <<hwvars, pinged, pc>>
    /\ UNCHANGED <<nodevars, reply, datavars>>

\* A mutant of node_standby_checks: any record without ha_allowed_init counts
\* as an active MASTER
BugBothAllowed(n) ==
    LET active == \/ ~quorum.ha_allowed \/ ~quorum.ha_allowed_init
                  \/ <<n, "thr">> \notin current
                  \/ pinged[n]
    IN  /\ At(n, "thr", "checks")
        /\ \/ /\ active
              /\ node_sync_force_restart(n)
              /\ comm' = [comm EXCEPT ![n] = "none"]
              /\ Goto(n, "thr", "idle")
           \/ /\ ~active
              /\ Goto(n, "thr", "pre")
              /\ UNCHANGED <<sync_status, comm, fresh>>
        /\ UNCHANGED <<hwvars, nodevars, disabling, msgvars, writer, gaps, faults>>

\* The end of node_standby_checks: the MASTER is active if it took back the
\* permission, wrote the record or sent a ping meanwhile
node_standby_checks(n) ==
    LET active == check_ha_active(n, "thr", FALSE) \/ pinged[n]
    IN  /\ At(n, "thr", "checks")
        /\ \/ /\ active
              /\ node_sync_force_restart(n)
              /\ comm' = [comm EXCEPT ![n] = "none"]
              /\ Goto(n, "thr", "idle")
           \/ /\ ~active
              /\ Goto(n, "thr", "pre")
              /\ UNCHANGED <<sync_status, comm, fresh>>
        /\ UNCHANGED <<hwvars, nodevars, disabling, msgvars, writer, gaps, faults>>

(***************************************************************************)
(* Starting: node_config and node_master_ha_init for the master type node, *)
(* node_controller_ha_init for the controller.                             *)
(***************************************************************************)
TakingOver(n) ==
    transition[n] \/ \E t \in Thread : pc[n][t] \in TakeoverLabel \cup {"relinquish"}

boot(n) ==
    /\ ~on[n]
    /\ SlowBoot => ~TakingOver(Peer(n))
    /\ on' = [on EXCEPT ![n] = TRUE]
    /\ role' = [role EXCEPT ![n] = IF n = Master THEN "STANDBY" ELSE "UNKNOWN"]
    /\ Goto(n, "main", "init")
    /\ UNCHANGED <<hwvars, transition, ha_task, syncvars, msgvars, datavars, faults>>

\* The master type node syncs, or gives up when it cannot connect
node_master_ha_init(n) ==
    /\ n = Master /\ At(n, "main", "init")
    /\ \/ /\ Connectable(n)
          /\ sync_status' = [sync_status EXCEPT ![n] = "INPROGRESS"]
          /\ comm' = [comm EXCEPT ![n] = "up"]
          /\ Goto(n, "main", "sync")
          /\ UNCHANGED faults
       \/ /\ (~Connectable(n) /\ UNCHANGED faults) \/ Fault("net")
          /\ sync_status' = [sync_status EXCEPT ![n] = "NEED_RESYNC"]
          /\ Goto(n, "main", "run")
          /\ UNCHANGED comm
    /\ UNCHANGED <<hwvars, nodevars, disabling, msgvars, datavars>>

BecomesMaster(n) ==
    /\ ha_set_config(n, FALSE, FALSE)
    /\ role' = [role EXCEPT ![n] = "MASTER"]
    /\ fresh' = [fresh EXCEPT ![n] = TRUE]
    /\ ha_task' = [ha_task EXCEPT ![n] = TRUE]
    /\ Goto(n, "main", "run")
    /\ UNCHANGED <<on, transition, disabling, msgvars, writer, gaps>>

\* The controller owns storage nobody else owns, and asks the peer otherwise
node_controller_ha_init(n) ==
    LET mine == quorum.ipaddr \in {NoNode, n} \/ quorum.ha_allowed_init
    IN  /\ n = Controller /\ At(n, "main", "init")
        /\ \/ mine /\ BecomesMaster(n)
           \/ /\ ~mine
              /\ ha_read_config(n, "main")
              /\ Goto(n, "main", "query")
              /\ UNCHANGED <<nodevars, disabling, msgvars, datavars>>
        /\ UNCHANGED <<sync_status, comm, faults>>

\* NODE_MSG_ROLE: sync from a MASTER, replace a STANDBY, distrust silence
ha_peer_role(n) ==
    LET p == Peer(n)
    IN  /\ At(n, "main", "query")
        /\ \/ /\ kern_inited(p) /\ role[p] = "MASTER"
              /\ role' = [role EXCEPT ![n] = "STANDBY"]
              /\ sync_status' = [sync_status EXCEPT ![n] = "INPROGRESS"]
              /\ comm' = [comm EXCEPT ![n] = "up"]
              /\ Goto(n, "main", "sync")
              /\ UNCHANGED <<hwvars, on, transition, ha_task, disabling, msgvars, datavars, faults>>
           \/ /\ kern_inited(p) /\ role[p] = "STANDBY"
              /\ comm' = [comm EXCEPT ![n] = "up"]
              /\ BecomesMaster(n)
              /\ UNCHANGED <<sync_status, faults>>
           \/ /\ (~kern_inited(p) /\ UNCHANGED faults) \/ Fault("net")
              /\ Goto(n, "main", "check")
              /\ UNCHANGED <<hwvars, nodevars, syncvars, msgvars, datavars>>

\* Give up if the owner still writes the record, else fence it
controller_fences(n) ==
    LET idle == ~check_ha_active(n, "main", TRUE)
    IN  /\ At(n, "main", "check")
        /\ \/ /\ idle /\ fence_enabled
              /\ PowerOff(Peer(n), [pc EXCEPT ![n]["main"] = "owner"])
              /\ UNCHANGED faults
           \/ /\ \/ (~idle \/ ~fence_enabled) /\ UNCHANGED faults
                 \/ idle /\ fence_enabled /\ Fault("fence")
              /\ Goto(n, "main", "failed")
              /\ UNCHANGED <<hwvars, nodevars, syncvars, msgvars, datavars>>

\* The fenced peer's storage is taken over
controller_owns(n) ==
    /\ At(n, "main", "owner")
    /\ BecomesMaster(n)
    /\ UNCHANGED <<sync_status, comm, faults>>

(***************************************************************************)
(* NODE_MSG_HA_TAKEOVER: the controller that has synced asks the MASTER to *)
(* step down; node_sync_takeover_recv makes it STANDBY, waits for its      *)
(* commands to finish and answers whether sync is still on.                *)
(***************************************************************************)
TakeoverRefused(n) ==
    /\ Goto(n, "main", "failed")
    /\ sync_status' = [sync_status EXCEPT ![n] = "ERROR"]

node_sync_takeover_send(n) ==
    LET p == Peer(n)
    IN  /\ At(n, "main", "takeover_send")
        /\ \/ /\ node_sync_enabled(n) /\ Reachable(n)
              /\ sync_status[p] = "DONE" /\ pc[p]["hnd"] = "idle"
              /\ pc' = [pc EXCEPT ![n]["main"] = "takeover_wait", ![p]["hnd"] = "drain"]
              /\ transition' = [transition EXCEPT ![p] = TRUE]
              /\ role' = [role EXCEPT ![p] = "STANDBY"]
              /\ UNCHANGED <<sync_status, faults>>
           \/ /\ \/ /\ ~node_sync_enabled(n) \/ (Reachable(n) /\ sync_status[p] # "DONE")
                    /\ UNCHANGED faults
                 \/ node_sync_enabled(n) /\ Unreachable(n)
              /\ TakeoverRefused(n)
              /\ UNCHANGED <<role, transition>>
        /\ reply' = [reply EXCEPT ![n] = "none"]
        /\ UNCHANGED <<hwvars, on, ha_task, comm, disabling, pinged, datavars>>

node_sync_takeover_recv(n) ==
    LET p == Peer(n)
    IN  /\ At(n, "hnd", "drain") /\ pc[n]["thr"] = "idle"
        /\ NoWrites(n) /\ ~disabling[n]
        /\ transition' = [transition EXCEPT ![n] = FALSE]
        /\ reply' = IF pc[p]["main"] = "takeover_wait"
                    THEN [reply EXCEPT ![p] = IF node_sync_enabled(n) THEN "ok" ELSE "error"]
                    ELSE reply
        /\ Goto(n, "hnd", "idle")
        /\ gaps' = gaps \cup Opens("overlap", pc[n]["main"] \in ExitLabel)
        /\ UNCHANGED <<hwvars, on, role, ha_task, syncvars, pinged, writer, fresh, faults>>

node_sync_takeover_answer(n) ==
    /\ At(n, "main", "takeover_wait")
    /\ \/ /\ Reachable(n) /\ reply[n] = "ok"
          /\ Goto(n, "main", "pre")
          /\ UNCHANGED <<sync_status, faults>>
       \/ /\ \/ reply[n] = "error" /\ UNCHANGED faults
             \/ Unreachable(n)
          /\ TakeoverRefused(n)
    /\ reply' = [reply EXCEPT ![n] = "none"]
    /\ UNCHANGED <<hwvars, nodevars, comm, disabling, pinged, datavars>>

(***************************************************************************)
(* Shutting down: node_ha_exit, after the HA thread was stopped.  A MASTER *)
(* with a synced peer hands its role over; a MASTER without one leaves it  *)
(* to whoever starts first; a standby takes leave of the MASTER.           *)
(***************************************************************************)
node_ha_exit(n) ==
    LET p == Peer(n)
    IN  /\ At(n, "main", "run") /\ pc[n]["thr"] = "idle"
        /\ \/ /\ ha_task[n] /\ node_sync_enabled(n) /\ role[n] # "STANDBY"
              /\ Goto(n, "main", "exit_sync")
              /\ UNCHANGED <<hwvars, sync_status, disabling, faults>>
           \/ /\ ha_task[n] /\ ~node_sync_enabled(n) /\ role[n] # "STANDBY"
              /\ ha_set_config(n, FALSE, TRUE)
              /\ Goto(n, "main", "exited")
              /\ UNCHANGED <<sync_status, disabling, faults>>
           \/ /\ ha_task[n] => role[n] = "STANDBY"
              /\ \/ /\ ha_task[n] /\ node_sync_enabled(n) /\ Reachable(n)
                    /\ sync_status' = [sync_status EXCEPT ![n] = "ERROR", ![p] = "ERROR"]
                    /\ disabling' = [disabling EXCEPT
                          ![p] = @ \/ (role[p] = "MASTER" /\ sync_status[p] # "ERROR")]
                    /\ UNCHANGED faults
                 \/ /\ ha_task[n] /\ node_sync_enabled(n) /\ Unreachable(n)
                    /\ sync_status' = [sync_status EXCEPT ![n] = "ERROR"]
                    /\ UNCHANGED disabling
                 \/ /\ ~ha_task[n] \/ ~node_sync_enabled(n)
                    /\ UNCHANGED <<sync_status, disabling, faults>>
              /\ Goto(n, "main", "exited")
              /\ UNCHANGED hwvars
        /\ ha_task' = [ha_task EXCEPT ![n] = FALSE]
        /\ UNCHANGED <<on, role, transition, comm, msgvars, datavars>>

\* A sync in progress has ended; node_ha_disable, and the role is given up
node_ha_exit_disable(n) ==
    /\ At(n, "main", "exit_sync") /\ sync_status[n] # "INPROGRESS"
    /\ \/ role[n] = "MASTER" /\ quorum.ipaddr # n /\ kern_panic(n)
       \/ /\ \/ role[n] = "MASTER" /\ quorum.ipaddr = n /\ ha_set_config(n, FALSE, FALSE)
             \/ role[n] # "MASTER" /\ UNCHANGED hwvars
          /\ transition' = [transition EXCEPT ![n] = TRUE]
          /\ role' = [role EXCEPT ![n] = "STANDBY"]
          /\ Goto(n, "main", "exit_drain")
          /\ UNCHANGED <<on, ha_task, syncvars, msgvars, datavars, faults>>

\* The commands have finished; node_ha_enable
node_ha_exit_drained(n) ==
    /\ At(n, "main", "exit_drain")
    /\ NoWrites(n) /\ ~disabling[n]
    /\ ha_set_config(n, TRUE, FALSE)
    /\ Goto(n, "main", "exit_relinquish")
    /\ UNCHANGED <<nodevars, syncvars, msgvars, datavars, faults>>

Relinquished(n) ==
    /\ Goto(n, "main", "exited")
    /\ transition' = [transition EXCEPT ![n] = FALSE]
    /\ UNCHANGED <<hwvars, role>>

\* The peer did not take over: stay MASTER and allow a new start
RelinquishFailed(n) ==
    /\ ha_set_config(n, FALSE, TRUE)
    /\ role' = [role EXCEPT ![n] = "MASTER"]
    /\ transition' = [transition EXCEPT ![n] = FALSE]
    /\ Goto(n, "main", "exited")

\* NODE_MSG_HA_RELINQUISH; nothing is sent, and nothing reported, without sync
node_sync_relinquish_send(n) ==
    LET p == Peer(n)
    IN  /\ At(n, "main", "exit_relinquish")
        /\ \/ ~node_sync_enabled(n) /\ Relinquished(n) /\ UNCHANGED faults
           \/ /\ node_sync_enabled(n) /\ Reachable(n) /\ pc[p]["hnd"] = "idle"
              /\ pc' = [pc EXCEPT ![n]["main"] = "exit_wait", ![p]["hnd"] = "relinquish"]
              /\ UNCHANGED <<hwvars, role, transition, faults>>
           \/ node_sync_enabled(n) /\ Unreachable(n) /\ RelinquishFailed(n)
        /\ reply' = [reply EXCEPT ![n] = "none"]
        /\ UNCHANGED <<on, ha_task, syncvars, pinged, datavars>>

\* A mutant of node_sync_relinquish_recv: it returns without an answer when the
\* sync is not complete
BugNoAnswer(n) ==
    /\ At(n, "hnd", "relinquish") /\ sync_status[n] # "INPROGRESS"
    /\ \/ sync_status[n] = "DONE" /\ Goto(n, "hnd", "pre")
       \/ sync_status[n] # "DONE" /\ Goto(n, "hnd", "idle")
    /\ UNCHANGED <<hwvars, nodevars, syncvars, msgvars, datavars, faults>>

\* node_sync_relinquish_recv, up to node_ha_takeover_pre
node_sync_relinquish_recv(n) ==
    /\ At(n, "hnd", "relinquish") /\ sync_status[n] # "INPROGRESS"
    /\ \/ sync_status[n] = "DONE" /\ Goto(n, "hnd", "pre") /\ UNCHANGED reply
       \/ sync_status[n] # "DONE" /\ Goto(n, "hnd", "idle") /\ Answer(n, "hnd", "error")
    /\ UNCHANGED <<hwvars, nodevars, syncvars, pinged, datavars, faults>>

\* A mutant of node_sync_relinquish_status: a takeover in progress counts as failed
BugInitializing(n) ==
    LET p == Peer(n)
        ok == reply[n] = "ok" /\ Reachable(n) /\ ~transition[p] /\ role[p] = "MASTER"
    IN  /\ At(n, "main", "exit_wait") /\ (reply[n] # "none" \/ ~Reachable(n))
        /\ \/ ok /\ Relinquished(n)
           \/ ~ok /\ RelinquishFailed(n)
        /\ reply' = [reply EXCEPT ![n] = "none"]
        /\ UNCHANGED <<on, ha_task, syncvars, pinged, datavars, faults>>

\* The answer, and the polls of NODE_MSG_HA_RELINQUISH_STATUS after it
node_sync_relinquish_status(n) ==
    LET p == Peer(n)
    IN  /\ At(n, "main", "exit_wait")
        /\ \/ /\ reply[n] = "ok" /\ Reachable(n) /\ ~transition[p] /\ role[p] = "MASTER"
              /\ Relinquished(n) /\ UNCHANGED faults
           \/ /\ \/ reply[n] = "ok" /\ Reachable(n) /\ ~transition[p] /\ role[p] # "MASTER"
                 \/ reply[n] = "error"
                 \/ ~Reachable(n)
              /\ RelinquishFailed(n) /\ UNCHANGED faults
           \/ Fault("relinquish") /\ RelinquishFailed(n)
        /\ reply' = [reply EXCEPT ![n] = "none"]
        /\ UNCHANGED <<on, ha_task, syncvars, pinged, datavars>>

-----------------------------------------------------------------------------
Init ==
    /\ quorum = HaConfig(NoNode, FALSE, FALSE)
    /\ current = {}
    /\ on = [n \in Node |-> FALSE]
    /\ role = [n \in Node |-> "UNKNOWN"]
    /\ transition = [n \in Node |-> FALSE]
    /\ sync_status = [n \in Node |-> "UNKNOWN"]
    /\ comm = [n \in Node |-> "none"]
    /\ ha_task = [n \in Node |-> FALSE]
    /\ disabling = [n \in Node |-> FALSE]
    /\ pinged = [n \in Node |-> FALSE]
    /\ reply = [n \in Node |-> "none"]
    /\ pc = [n \in Node |-> Off]
    /\ writer = [w \in Writer |-> NoWrite]
    /\ fresh = [n \in Node |-> FALSE]
    /\ gaps = {}
    /\ faults = 0

\* node_ha_takeover_pre and node_ha_takeover, in thread t
Takeover(n, t) ==
    \/ node_ha_takeover_pre(n, t) \/ node_ha_monitor(n, t) \/ node_ha_takeover(n, t)
    \/ node_sync_takeover_post_send(n, t) \/ node_ha_takeover_enable(n, t)

\* The thread that starts the node or shuts it down
Main(n) ==
    \/ node_master_ha_init(n) \/ node_controller_ha_init(n)
    \/ ha_peer_role(n) \/ controller_fences(n) \/ controller_owns(n)
    \/ node_sync_start(n, "main") \/ node_sync_poll(n, "main")
    \/ node_sync_takeover_send(n) \/ node_sync_takeover_answer(n)
    \/ Takeover(n, "main")
    \/ node_ha_exit_disable(n) \/ node_ha_exit_drained(n)
    \/ node_sync_relinquish_send(n) \/ node_sync_relinquish_status(n)

\* node_ha_thr
Thr(n) ==
    \/ node_ha_beat(n) \/ node_ha_ping(n) \/ node_ha_peer_checks(n) \/ node_standby_checks(n)
    \/ node_sync_start(n, "thr") \/ node_sync_poll(n, "thr")
    \/ Takeover(n, "thr")

\* The thread of the sync socket
Hnd(n) ==
    \/ node_sync_setup_bdevs(n) \/ node_sync_setup_wait(n)
    \/ node_sync_setup_enable(n) \/ node_sync_setup_done(n)
    \/ node_sync_takeover_recv(n) \/ node_sync_relinquish_recv(n)
    \/ Takeover(n, "hnd")

Write(w) ==
    \/ \E n \in Node : write_start(w, n)
    \/ node_pgdata_sync_start(w)
    \/ device_send_ccb(w)

Next ==
    \/ \E n \in Node : \/ Main(n) \/ Thr(n) \/ Hnd(n) \/ node_ha_disable(n)
                       \/ boot(n) \/ node_ha_exit(n)
                       \/ switch_off(n) \/ crash(n)
    \/ \E w \in Writer : Write(w)

Spec == Init /\ [][Next]_vars

\* Every thread that can take a step does.  Commands and message handlers get
\* the sync lock, and see the HA thread idle (it sleeps ha_check_timeout between
\* two rounds), if these are free again and again.  Nothing makes an operator
\* start a node or shut it down, and nothing makes a client write.
FairSpec ==
    /\ Spec
    /\ \A n \in Node : /\ WF_vars(Main(n)) /\ WF_vars(Thr(n)) /\ SF_vars(Hnd(n))
                        /\ WF_vars(node_ha_disable(n))
    /\ \A w \in Writer : SF_vars(node_pgdata_sync_start(w) \/ device_send_ccb(w))

-----------------------------------------------------------------------------
TypeOK ==
    /\ quorum \in [ipaddr : Node \cup {NoNode}, ha_allowed : BOOLEAN, ha_allowed_init : BOOLEAN]
    /\ current \subseteq Node \X Thread
    /\ on \in [Node -> BOOLEAN]
    /\ role \in [Node -> {"UNKNOWN", "MASTER", "STANDBY"}]
    /\ transition \in [Node -> BOOLEAN]
    /\ sync_status \in [Node -> {"UNKNOWN", "INPROGRESS", "ERROR", "NEED_RESYNC", "DONE"}]
    /\ comm \in [Node -> {"none", "up", "broken"}]
    /\ ha_task \in [Node -> BOOLEAN]
    /\ disabling \in [Node -> BOOLEAN]
    /\ pinged \in [Node -> BOOLEAN]
    /\ reply \in [Node -> {"none", "ok", "error"}]
    /\ pc \in [Node -> Label]
    /\ writer \in [Writer -> [node : Node \cup {NoNode},
                              st : {"idle", "started", "synced", "nonsync", "failed"}]]
    /\ fresh \in [Node -> BOOLEAN]
    /\ gaps \subseteq Gap
    /\ faults \in 0 .. MaxFaults

\* At most one node serves commands as MASTER, whatever crashes, messages that
\* are lost and failing fence commands do to takeovers, handovers and starts:
\* node_sync_send_page panics with "Invalid state, peer assumed master role,
\* while we are still master".  Not claimed once a gap that gives the storage
\* two owners ("late", "overlap") has opened.
OneMaster ==
    gaps \cap {"late", "overlap"} # {} \/ ~(Serving(Controller) /\ Serving(Master))

\* A MASTER that serves commands owns the quorum record, so that no step of the
\* peer makes its node_ha_disable panic with "Lost quorum when still master".
MasterOwnsQuorum ==
    gaps \cap {"late", "overlap"} # {} \/ \A n \in Node : Serving(n) => quorum.ipaddr = n

\* A node that serves commands as MASTER knows every write that was ever
\* acknowledged: what the MASTER before it acknowledged was synced to it
\* (node_pgdata_sync_start), was sent by a resync (node_sync_setup_bdevs) or was
\* read from the disks.  Claimed as long as no watched gap has opened; of the
\* eight only "late" need not be watched for it.
MasterIsFresh == \A n \in Node : Serving(n) => fresh[n] \/ gaps # {}

\* A standby in sync takes over from a MASTER that has died and stays dead: when
\* node_ha_thr of the standby finds the record allowing it, node_standby_checks,
\* fencing and node_ha_takeover follow, unless someone starts the dead node or
\* shuts the standby down.
StandbyTakesOver ==
    \A n \in Node :
        (/\ role[n] = "STANDBY" /\ sync_status[n] = "DONE"
         /\ ThreadRuns(n) /\ pc[n]["hnd"] = "idle"
         /\ quorum.ha_allowed /\ ~on[Peer(n)])
        ~> (role[n] = "MASTER" \/ on[Peer(n)] \/ ~At(n, "main", "run"))

\* A write command ends, whatever happens to sync: the send fails or the peer
\* answers, and node_sync_disable gives the lock back.
WritesEnd == \A w \in Writer : writer[w].node # NoNode ~> writer[w].node = NoNode

\* A MASTER that hands its role over while it shuts down gets to the end of
\* node_ha_exit: its commands drain and the peer answers or is found dead.
ShutdownEnds ==
    \A n \in Node : At(n, "main", "exit_sync") ~> pc[n]["main"] \in {"exited", "off"}

\* The handler of a message that sends all state, drains the commands or takes
\* over comes to its end: none of its waits, for the writes that are not synced
\* (nonsync_pending_writes), for the HA thread (wait_for_ha_busy) or for the
\* sync lock, lasts for ever, as long as the role changes hands one way at a time.
HandlersEnd ==
    \A n \in Node : pc[n]["hnd"] # "idle" ~> pc[n]["hnd"] = "idle" \/ "overlap" \in gaps
=============================================================================
