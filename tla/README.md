# QUADStor in TLA+

A model of the parts of QUADStor (storage virtualization: virtual disks with
deduplication, exported over iSCSI, Fibre Channel and InfiniBand, served by a
highly available pair of nodes) in which the order of concurrent steps decides
whether the system is right. `PROJECT.json` lists the runs, the source lines of
every definition, the hazards, the findings and the theorems.

    tlc -config TaskSet.cfg MCTaskSet        # any run: its cfg and its module
    tlapm TaskSetProofs.tla                  # any module of proofs

## 1. The system

| Part (src/) | State it keeps | Operations | What is hard about it |
|---|---|---|---|
| Task set and device queue (`core/vdevdefs.*`, `core/gdevq.*`) | per I_T nexus: queue_list, counters, blocked; pending_queue | queue, insert, execute, complete, abort, reset | decisions under one lock, dispatch after it is dropped; aborts race with threads that hold commands |
| Reservations (`core/reservation.*`, `core/tdisk.c`) | registrations, reservation, generation, sense lists | SCSI-2 RESERVE/RELEASE, PERSISTENT RESERVE IN/OUT, reset, loss of a session | a command is checked, then run, under two acquisitions of the lock |
| HA pair (`core/node_ha.c`, `core/node_sync.c`, `core/node_master.c`) | role, transition, sync status, the quorum record on a shared disk | start, sync, ping, takeover, relinquish, shutdown, fencing | three threads per node, crashes, lost messages, a disk both write |
| Replication to the standby (`core/node_sync.c`, `core/cluster.c`) | sync_reservation, hashes of messages in flight, write ids | one message per change, resync, complete or cancel at takeover | order of messages against the takeover |
| Block allocation (`core/bdevmgr.*`, `core/bdevgroup.c`) | bitmaps with reference counts | allocate, share, free | concurrent writers, a 13 bit count |
| Write path (`core/tdisk.c`, `core/amap.c`) | maps of a disk, LBA write list | read, write, unmap, compare and write | overlapping ranges, errors half way |
| Write log (`core/fastlog.c`, `core/log_group.c`) | pages of log entries | reserve, insert, replay | replay after a crash at any point |
| Deduplication (`core/ddtable.c`, `core/ddthread.c`) | table of hashes | look up, insert, evict | a block is freed while its hash is found |
| Mirroring (`core/node_mirror.c`) | mirror role and flags | write to both, lose the peer, resync | two pairs acting at once |
| Clone, delete, replication jobs (`core/clone.c`, `core/delete.c`, `core/rep_*.c`) | progress | long running jobs | restart in the middle |
| Cluster messages, client nodes, copy manager, caches, kernel glue | sockets, hashes, caches | forward, look up | mostly I/O |
| Interfaces (`target-mode/`), management (`library/`, `scctl/`, `masterd/`, `mapps/`) | sessions, configuration | drivers, tools, web pages | vendor code, sequential tools |

An interface calls `istate_queue_cmd`; the task set hands commands to the device
queue; `tdisk_proc_cmd` refuses them on a standby, checks the reservation and
runs them; a write is synced to the standby before it is acknowledged; the HA
thread decides who is MASTER.

## 2. The modules

| Module | What it is |
|---|---|
| `TaskSet` | the task set of one nexus, the device queue, task management |
| `Reservation` | the reservations of one disk and the check in `tdisk_proc_cmd` |
| `ReservationSync` | `Reservation` on a MASTER that sends each change to its STANDBY |
| `NodeHA` | the node pair: quorum record, sync, takeover, start, shutdown |
| `WritePath` | a write from the lba queue to the disk, with crash, takeover and replay |
| `VirtualDisk` | what a disk promises its clients; `WritePath` implements it |
| `Dedup` | blocks shared through the hash table, their references, the read cache |
| `MC*` | instances for TLC; `MCTaskSet` also has a loop as the code has it |
| `TaskSetProofs`, `ReservationProofs`, `ReservationSyncProofs` | theorems |
| `WritePathQuiet`, `WritePathBlocks`, `WritePathEnds`, `WritePathProofs` | the invariant of `WritePath` and the steps that leave it alone, the two groups of other steps, the theorems |

### TaskSet
Variables are the fields of `struct initiator_state`, `pending_queue`, and how far
each command got (`loc`). `istate_queue_cmd`, `gdevq_insert_ccb`,
`devq_process_queue`, `device_send_ccb` and `istate_remove_cmd` are separate
steps because each drops its lock before the next. The scan of
`istate_remove_cmd` is given in closed form (`Promoted`), so that it can be
proved about; `PromotedIsScan` compares it with the loop.

What the model made visible, without a property of its own: a SIMPLE command
overtakes an ORDERED one that waits; `device_send_ccb` resets the flags, so a
command aborted in the device queue is not seen as aborted by the interface; a
concurrent ABORT TASK clears `blocked`, so a reset may return while a command it
found executes. With one function at a time it cannot, which is just what the guard
of its wait says.

### Reservation
Each command is two steps, the check of `tdisk_proc_cmd` and the handler. Keys and
initiators are model values, the generation counts modulo `GenMod`, the sense
list holds `MaxUnitAttentions`. A mirrored disk's peer may refuse a change. The
type nibble of PERSISTENT RESERVE OUT is not validated: `Types` may hold anything,
and a type that is none of the six the disk reports is stored and compared like the
others. What such a reservation does is said in section 4; `HolderIsRegistered` and
`UnregisteredMayNotWrite` speak of reservations of the six types, among commands of
any type. Under an all registrants type the second one has the exception
`reservation_ar` is about.

### ReservationSync
A handler changes the master's state as in `Reservation` and holds the reservation
lock while it sends its messages one by one (`out`); `copy` is the standby's
`sync_reservation` and the nexuses it has a sense for. A message for several
registrations is sent in any order of them, SENSE_STATE stands for one message per
nexus, and a message that fails ends the replication and resets `copy`. Whether the
standby may take over at all is `NodeHA`'s business. The properties speak of the
moments when the lock is free.

### NodeHA
Each node has three threads: `main` starts it and shuts it down, `thr` is
`node_ha_thr`, `hnd` is the handler of a message of the peer; `pc` says where
each is. Timestamps of the quorum record are abstracted to `current`, the threads
that have read it since it was last written, which is all that comparing them for
equality tells. A write is told to the peer, or not, and acknowledged; `fresh`
says whether a node knows all acknowledged writes. `node_sync_disable` takes two
steps, the status and the disk.

Eight gaps of the protocol, places where it acts on something that has
changed, are recorded in `gaps` when they open. The passing runs say what holds
until then; section 4 says what can happen afterwards. So `OneMaster` and
`MasterOwnsQuorum` are claimed until "late" or "overlap" opens, and
`MasterIsFresh` until any gap but "late" opens: they do not say that the pair is safe
without qualification, and section 4 shows that it is not.

Assumptions: `fence_enabled` (mandatory by Changelog:267) and `SlowBoot` (a node
does not come back while its peer takes over). Section 4 says what TLC finds
without them. The fence command, when it succeeds, switches the peer off.

### WritePath and VirtualDisk
One map page, whose entries are the lbas, and one index page, whose reference
counts are the blocks; each with its write id, its count of pending writes and its
IO. `wr[w]` is how far a write got: block, data, map entry, transaction, log
entry, group commit, answer, then the ddthread that writes the index page and
releases the old block. The standby has the pages it was sent, each IO_PENDING
until its SYNC_POST, and a hash of transactions. A crash keeps the disk and the
durable log entries; a page being written may have landed or not. Then either the
standby takes over (`node_ha_msg_check_logs` for the answered transactions,
`node_ha_msg_cancel_logs` for the others, in any order), or the node restarts and
replays the log, and after that it serves the disk alone.

`VirtualDisk` has, for each lba, the value a read returns, the write under way and
the last answered write. The refinement mapping reads the value through the map in
memory (`data[amap.entry[l]]`) and takes `queue` for the write under way and
`acked` for the answered one; while the node is down the value is the answered
write. Setting the map entry is the moment a write takes effect,
`pgdata_cancel` the moment it is undone.

### Dedup
The same write seen from the side of sharing. `wr[w]` goes from the lookup of its
hash, over the verify, the allocation and the map entry, to the ddthread, which
lists a new block in the chain of its hash and releases the old one
(`process_delete_block`); then the thread takes another write. The chain is
`table`, a set of entries per node; the index entry of a block is its count `refs`
and the node that lists it, `node_block`. Every lock of the code except
`insert_lock` is taken and dropped inside one step; `DeleteListed`, `Uncache` and
`Free` are three steps because the index lock is dropped between them. `rcache` is
the read cache and `evicting` the entry `rcache_check` has taken off one list and
not off the other.

Three windows are recorded when they open. `recycled` has the blocks that were
freed and mapped again to the same lba while a ddthread had yet to list them with
their old hash. `stale` has the blocks whose page may stay in the read cache after
they are freed. `lost` counts the references failed duplicates kept. `EntryHonest`
and `ReadsBack` are not claimed of recycled blocks, `CachedIsInUse` not of stale
ones, and `RefsExact` counts the lost references.

## 3. The runs that pass

| Run | Checks | Bounds |
|---|---|---|
| `task_set` | counters match the list; the oldest command executes; an executing ORDERED command is the oldest; each command is dispatched once; the closed form; SIMPLE waits for an executing ORDERED | 3 commands, 1 manager |
| `task_set_live` | an aborted command never runs, `blocked` is lifted, every command ends, with managers racing each other | 2 commands, 2 managers |
| `reservation` | the holder is registered, the unregistered may not write, a loss is reported, persistent reservations are kept, the generation tells changes; at the standby: no stale registration, the persistent reservation and its generation, the senses owed | 2 initiators, 2 keys, 1 command at a time, 1 sense entry, one type of each kind and one that is none of the six |
| `node_ha` | types, one serving MASTER, it owns the record | 2 faults of 4 kinds, 1 writer |
| `node_ha_fresh` | the serving MASTER knows every acknowledged write | 4 faults of 4 kinds, 2 writers, up to the first gap |
| `node_ha_live` | a standby in sync takes over from a dead MASTER; writes, shutdowns and message handlers end | 1 crash |
| `write_path` | types, an answered write is kept, a mapped block is in use, an unpending page of the standby is on the disk, a recovered node's pages are on the disk, `VirtualDisk` is implemented | 2 writes, 2 lbas, 4 blocks, 2 crashes, failing data IO |
| `write_path_live` | every write ends | the same, failing data IO and mirror, no crash |
| `dedup` | types and limits, references are exact, an entry has the hash of its block's page, reads return what was written, the cache holds no page of a free block, a hash is listed once, a page in use is not overwritten | 2 writes at a time without end, 2 lbas, 2 blocks, 2 pages and the zero page, 1 node of 2 slots, 2 references, up to the first window |

Why the bounds are enough to be interesting: three commands are the fewest with
one executing, one waiting and one arriving; two initiators give a holder and an
intruder, and a sense list of one entry one that overflows; two faults allow a
crash during the recovery from another fault. Two writes share both pages, so each
can be caught between another's update and its IO; four blocks let an old block be
released and used again; two crashes allow one during a replay. In `dedup` two
blocks for two lbas and two writes run out, so that blocks are used again at once;
a limit of two references is reached by the two lbas. Starts, shutdowns and resyncs
are not bounded.

What is beyond the runs. A PREEMPT that removes several registrations needs three
initiators, and a check that is stale when its handler runs two commands: both are
covered by the proofs of section 5, which are for any number, and two commands also
by `reservation_scsi2`. (With two commands `reservation` passes too, in ten
minutes.) Liveness of the pair is kept for one crash; it also holds for any one
crash, lost message or failed fence command, in six minutes, and not for a sync that
gets no socket (section 4). Three writes with four blocks are too many for TLC with
crashes; without crashes the proofs are for any number. Write ids do not wrap in
the runs (`WriteIdMax` is not reached). `write_path` has failing data IO only:
mirror errors together with crashes, and a crash of the node that takes over, break
it (section 4). A chain of several nodes, where entries are replaced, makes `dedup`
too large (12 million states without an end in seven minutes, no violation), so
`HashOnce` is checked in one node and not across the scan of several.

Fairness. Threads that can take a step do (weak fairness). Commands and message
handlers of `NodeHA` have strong fairness: they wait for the sync lock, or for an HA
thread that sleeps between rounds, and get their turn if it is free again and again.
In `WritePath` each write's thread, the two disk IOs and the recovery are weakly
fair; faults, crashes, the SYNC_POST and the reuse of log pages are not.
Nobody is assumed to start or stop a node or to issue a write.
`StandbyTakesOver` starts from a standby whose handler is idle: one that gave its
role up for a controller that then died stays STANDBY.

Deadlock is not checked in `WritePath`, where all writes end; elsewhere it is.

## 4. Where the code departs from what it says

| Run | What happens |
|---|---|
| `reservation_ar` | the creator of an all registrants reservation writes on after unregistering |
| `reservation_scsi2` | a PERSISTENT RESERVE OUT checked earlier drops a later SCSI-2 reservation |
| `node_ha_relinquish` | a status poll is lost in a shutdown, and the node takes the record back from its successor |

More were seen with TLC and are not kept as runs. For the pair, each appears when
the cfg of `node_ha` or `node_ha_fresh` is changed as said here, which breaks
`OneMaster`, `MasterOwnsQuorum` or `MasterIsFresh`:

- `fence_enabled = FALSE`: a standby takes the record, then refuses to take over,
  and the healthy MASTER panics;
- `SlowBoot = FALSE`: a controller that returns during a takeover becomes the
  second MASTER;
- "overlap" left out of `Watched`: the relinquish handler and the HA thread take over together, and
  the failure of one misleads the peer;
- "racing" left out of `Watched`: a write is acknowledged between the status and the disk write of
  `node_sync_disable`;
- "draining" left out of `Watched`: `node_ha_exit` becomes STANDBY before it waits for
  the commands, so that `node_sync_disable` writes nothing, and then allows the
  takeover although a write was acknowledged unsynced (`core/node_ha.c:942`);
- "done" left out of `Watched`: a sync that failed late is marked done;
- "allowed", "exiting" or "starting" left out of `Watched`: a write the peer was
  not told of is acknowledged although the record allows the peer to take over, or
  by a MASTER that already allows a new start; a node takes over while another of
  its threads still starts it.

One breaks liveness. With `Faults = {"sock"}` in the cfg of `node_ha_live`,
`HandlersEnd` fails: `__node_sync_start` sets the status to INPROGRESS and leaves it
so when it gets no connection or no socket (`core/node_sync.c:4073-4085`). The HA
thread then neither pings nor syncs, and the handler of a relinquish waits in
`node_master_sync_wait` for ever. `node_ha` and `node_ha_fresh` have this fault.

For the write path, with the cfg of `write_path`:

- `Faults = {"mirror"}`, `MaxCrash = 1`: a write that fails at the mirror releases
  its block before its log entry is cleared (`core/tdisk.c:6266`). Another write
  takes the block, the node crashes, and the replay maps the first write's lba to
  the second one's data. This breaks `AckedWriteKept`, `MappedBlockInUse` and
  `RecoveredIsOnDisk`. The map page is then also written again under the id it had
  (`core/tdisk.c:6570`), so that a SYNC_POST of the earlier IO unpends the later
  page (`UnpendingIsOnDisk`), against the `debug_check` at `core/node_sync.c:809`;
- `Faults = {"takeover"}`, `MaxCrash = 2`: the node that takes over crashes after
  it has undone a write and before it resets the log (`core/node_ha.c:1502`); the
  replay of the next start brings the write back, to a block that has been
  released (`MappedBlockInUse`);
- a takeover takes a reference for a block the standby's page already counts
  (`node_ha_index_validate`): a leak, which no property forbids.

For types that are none of the six: RESERVE and PREEMPT store the type they are given
(`core/reservation.c:612`, `:791`), while the disk reports six
(`core/reservation.c:141-146`) and `is_persistent_reservation_holder` has a
`debug_check` where only another one leads (`core/reservation.c:106`). Nobody is then
the holder. The initiator that made the reservation may unregister and leave it
behind (`core/reservation.c:414`), and `tdisk_cmd_access_ok` lets everybody write
(`core/tdisk.c:8065-8081`). Leaving `\in PersistentType` out of `HolderIsRegistered`
or `UnregisteredMayNotWrite` shows either, in the run `reservation`.

For the standby's reservations: a key change (MODIFY) removes the registration
there (`core/node_sync.c:494`; `registration_spec_modify` has no caller), so that
the two sets are not equal and `NoStaleRegistration` claims inclusion; a reset does
not send that it dropped a SCSI-2 reservation (`core/tdisk.c:8474`); a master that
dies inside a PREEMPT leaves a standby with the holder's reservation and not its
registration; a standby that joins is sent nothing of reservations.

For shared blocks, without the constraint `UpToWindow` and with the exception left
out of the property:

- `recycled`: a ddthread is slow; the lba is written again, another ddthread frees
  the block, and a write of the same lba with another page is given the block.
  `pgdata_amap_entry_valid` (`core/tdisk.h:699`) compares block numbers and finds the
  entry valid, so the block is listed with the hash of the page it had before
  (`EntryHonest`), and a disk without `enable_verify` then shares the wrong page
  (`ReadsBack`);
- `stale`: the page is cached again between the `rcache_remove` of
  `process_delete_block` and the free (`core/ddthread.c:211`), by a duplicate write
  that is then undone; or an entry that is being evicted is skipped by
  `rcache_remove` (`core/rcache.c:116`); or `pgdata_reset_ddblock` drops the last
  reference (`core/tdisk.c:5286`) without looking at the cache. The next contents of
  the block are then read as the old ones until the entry is evicted;
- `lost`: `pgdata_cancel` (`core/tdisk.c:4598`) does not release the reference of a
  duplicate: a leak.

These are behaviours of the model. They were not reproduced on a running system.

## 5. What is proved

**Task set.** For any finite set of commands and any managers (`TaskSetProofs`): type
correctness, the counters, `OldestExecutes`, `OrderedIsOldest`, `DispatchedOnce`,
`AbortedNeverRuns`, `SimpleWaitsForOrdered`. The inductive invariant adds to these
that the list holds each accepted command once (`ListOK`) and what a command's
position says of it (`CommandOK`): without them a removal could change a count by
the wrong amount. The only assumption is `TaskFinite`. Aborts need a second
invariant, `AbortInv`, over the commands a manager is about to report.

**Reservations.** For any initiators, keys, types and commands in flight
(`ReservationProofs`): type correctness, `OneRegistration`, `HolderIsRegistered`,
`UnregisteredMayNotWrite`, `LossIsReported`, `PersistentIsKept`,
`GenerationTellsChanges`. The invariant is split into the registrations (`RInv`),
the sense lists (`SInv`) and the commands (`CInv`), since each handler disturbs few
of them. The assumption is `ReservationAssumption`, which says nothing of the types.
Type correctness and `OneRegistration` are proved only, no run checks them.

**Standby.** `SyncImplements`: every step of `ReservationSync` is a step of
`Reservation` or changes nothing of it, so what is proved of one node holds of the
master (`MasterKeepsItsPromises`). `NoStaleAtStandby`, `PersistentTakesOver` and
`OwedTakesOver` are the three properties of the standby. They hold when nothing is
left to send; the invariant says what they become while messages are under way:
the last message of `out` carries the state the master already has, each stale
registration of the copy is named by a message still to come, and copies of the
senses follow at once when the old ones are dropped (`Ordered`).

**Write path.** For any writes, lbas and blocks, any initial map without sharing,
any ids (wrapping included) and any faults (`WritePathProofs`), until the first crash:
`AckedWriteKept`, `MappedBlockInUse`, and that each step, the crash included, is one
of `VirtualDisk` or changes nothing a client sees (`DiskUntilCrash`); hence, if
`MaxCrash` is 0, `ImplementsVirtualDisk`. The invariant `UpInv` says who holds
what: an lba in the queue belongs to one write (`LbaInv`); a block is mapped by one
lba, or claimed by one write that has not mapped it yet or has not released it yet
(`BlockInv`, `Claims`); and the claimed old block still has the data of the answered
write, which is what makes undoing right (`DataInv`). Most steps move a write
between places of the same kind and are dealt with together (`Quiet`). The
assumption is `WritePathAssumption`.

Only model-checked: everything about `NodeHA`, the recoveries of `WritePath` and
what holds after them, `UnpendingIsOnDisk`, all liveness properties (out of reach of
the prover), `PromotedIsScan` (recursive), `BlockedIsLifted`,
and everything about `Dedup`.

## 6. Not modelled

Of `NodeHA`: errors of the quorum disk (`ha_crit`), replacing the HA disk at run
time, a controller without an HA disk or peer, and the exit of a node whose start
failed (it is switched off instead). The read and the write of `node_ha_disable` are
one step, and the messages of one write are one message. A node has one handler
thread; the code has one per connection (`core/node_master.c:2786`), so two messages
of one peer may be handled at once there.

Of `WritePath`: deduplication (a block has one owner; see `Dedup`), writes of several pages,
unmap, lbas that were never written, amap tables, several map or index pages per
write, and a standby that joins while writes are under way. A recovered node has no
standby until the end of the behaviour. IO of map, index and log pages succeeds or is
cut off by a crash: the error bits of a failed page IO (`core/amap.c:122`,
`core/bdevmgr.c:526`) and the branch of the ddthread for them
(`core/ddthread.c:584-589`) are left out. Entering a write in the list of its index
page and starting the IO of the page (`core/ddthread.c:470`, `:512`) are one step. A
block has one owner, so that a replay never meets the cap on references
(`core/bdevmgr.c:1704`).

Of `Dedup`: growth of the chain, the loading and writing of its nodes, several pages
of one write with the same content, an index page that is still being loaded, IO
errors of index pages, and crashes, whose effect on references is that of
`WritePath`. A verify that cannot start for lack of an index entry or of memory
(`core/tdisk.c:5328-5351`) ends as one that finds a difference. One entry of the
cache is evicted at a time, while in the code every insertion may evict
(`core/rcache.c:103`, `:237`).

Of the rest: the contents of disks, maps, logs and messages; mirroring between two
pairs; jobs; drivers; tools. `PROJECT.json` gives the reason for each part.

## 7. Plan

1. Invariants of `NodeHA` proved: the owner of the record, then `OneMaster`.
2. The recoveries of `WritePath` proved, from an invariant that relates the ids of
   the pages on the disk, at the standby and in the log.
3. Invariants of `Dedup` proved, for chains of several nodes; overlapping ranges in
   the lba queue.
4. Two mirrored disks.
