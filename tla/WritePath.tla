----------------------------- MODULE WritePath -----------------------------
(***************************************************************************)
(* The path of a write from the lba queue to the disk, on a node that has   *)
(* the role MASTER and mirrors its metadata to a STANDBY node.              *)
(*                                                                          *)
(* A write allocates a block in an index page (bintindex), writes its data  *)
(* there, points the entry of its lba in a map page (amap) at the block,    *)
(* announces itself to the standby, logs itself, writes the map page,       *)
(* answers the client and only then, in a ddthread, writes the index page   *)
(* and releases the block the lba pointed at before.  One map page and one  *)
(* index page are modelled: all lbas share the first, all blocks the        *)
(* second, which is where group commit and write ids matter.                *)
(*                                                                          *)
(* The master may crash between any two steps.  Then either the standby     *)
(* takes over from the transactions and pages it was sent, or the node      *)
(* restarts from the disk and its write log.                                *)
(***************************************************************************)
EXTENDS Integers, Sequences, FiniteSets, Functions

CONSTANTS
    Write,          \* one-page writes of new data
    Lba,            \* the lbas of one map page
    Block,          \* the blocks of one index page
    InitMap,        \* the block each lba is mapped to at first
    Faults,         \* what may fail: "data" (memory or the IO of a write), "mirror"
                    \* (the mirrored write), "takeover" (the node that takes over)
    MaxCrash,       \* bound: crashes of a behaviour
    WriteIdMax,     \* WRITE_ID_MAX
    WriteIdWindow,  \* 1 << 32 in write_id_greater
    None

ASSUME WritePathAssumption ==
    /\ InitMap \in [Lba -> Block]
    /\ \A l, m \in Lba : InitMap[l] = InitMap[m] => l = m
    /\ Faults \subseteq {"data", "mirror", "takeover"}
    /\ MaxCrash \in Nat
    /\ WriteIdWindow \in Nat /\ WriteIdMax \in Nat /\ WriteIdWindow < WriteIdMax
    /\ None \notin Write \cup Lba \cup Block

VARIABLES
    wr,      \* wr[w]: the write_list of w and, after the answer, its ddwork
    queue,   \* queue[l]: the write that holds l in lba_write_list
    amap,    \* the map page in memory: entry, write_id, pending_writes, IO_NEEDED
    aio,     \* the map page being written (DIRTY), or None
    index,   \* the index page in memory: refs, write_id, pending_writes
    iio,     \* the index page being written, or None
    disk,    \* the map page and the index page on the disk
    data,    \* data[b]: whose data block b holds
    log,     \* the write log, oldest entry first
    durable, \* the log entries that are on the disk
    post,    \* pages whose SYNC_POST is queued, by the state of their IO
    sb,      \* the standby: its copies of the pages and its node_ha_hash
    acked,   \* acked[l]: the last write of l the client knows succeeded
    mode,    \* "up", "takeover", "replay" or "recovered"
    rec,     \* recovery: the pages on its sync lists, whether the index page is
             \* in memory and IO_PENDING, and the next log entry
    crashes

vars == <<wr, queue, amap, aio, index, iio, disk, data, log, durable, post,
          sb, acked, mode, rec, crashes>>

master == <<amap, aio, index, iio>>

(***************************************************************************)
(* Write ids.                                                               *)
(***************************************************************************)
write_id_greater(current, id) ==
    \/ current > id
    \/ (WriteIdMax - current) - (WriteIdMax - id) > WriteIdWindow

write_id_incr(id, incr) ==
    IF id + incr < WriteIdMax THEN id + incr ELSE (id + incr) - (WriteIdMax - 1)

(***************************************************************************)
(* Initial state: every lba is mapped, nothing is in flight, and the        *)
(* standby has no page in memory.                                           *)
(***************************************************************************)
Idle == [pc |-> "idle", lba |-> None, block |-> None, old |-> None,
         aid |-> 0, iid |-> 0, amap |-> "none", alloc |-> "none", del |-> "none"]

\* A write that is over and of which no log entry is left.
Over(pc) == [Idle EXCEPT !.pc = pc]

NotCached == [cached |-> FALSE]

NoSync(cached, pending) == [amap |-> "none", index |-> FALSE, cached |-> cached,
                            pending |-> pending, next |-> 1]

Standby(paired) == [paired |-> paired, amap |-> NotCached, index |-> NotCached,
                    hash |-> [w \in Write |-> "none"]]

InitRefs == [b \in Block |-> IF \E l \in Lba : InitMap[l] = b THEN 1 ELSE 0]

Init ==
    /\ wr = [w \in Write |-> Idle]
    /\ queue = [l \in Lba |-> None]
    /\ amap = [entry |-> InitMap, id |-> 1, pend |-> 0, need |-> FALSE]
    /\ aio = None
    /\ index = [refs |-> InitRefs, id |-> 1, pend |-> 0]
    /\ iio = None
    /\ disk = [amap |-> [entry |-> InitMap, id |-> 1],
               index |-> [refs |-> InitRefs, id |-> 1]]
    /\ data = [b \in Block |-> IF \E l \in Lba : InitMap[l] = b
                               THEN CHOOSE l \in Lba : InitMap[l] = b ELSE None]
    /\ log = <<>>
    /\ durable = {}
    /\ post = [amap |-> {}, index |-> {}]
    /\ sb = Standby(TRUE)
    /\ acked = [l \in Lba |-> l]
    /\ mode = "up"
    /\ rec = NoSync(TRUE, FALSE)
    /\ crashes = 0

(***************************************************************************)
(* Pages sent to the standby.  It keeps a page unless its own is newer, and *)
(* marks it IO_PENDING until the SYNC_POST message.  A page that is not     *)
(* IO_PENDING may leave its cache.                                          *)
(***************************************************************************)
PageRecv(own, page) ==
    IF own.cached /\ write_id_greater(own.id, page.id)
    THEN own
    ELSE [cached |-> TRUE, page |-> page, id |-> page.id, pending |-> TRUE]

PostRecv(own, id) ==
    IF own.cached /\ own.id = id THEN [own EXCEPT !.pending = FALSE] ELSE own

\* A post whose id is no longer that of the page is dropped.
PostQueued(old, same) == (IF same THEN old \cap {"ready"} ELSE {}) \cup {"wait"}

(***************************************************************************)
(* Group commit.  Each write that uses a page counts in its pending_writes  *)
(* and waits for its next IO; the last one to end starts the IO.            *)
(***************************************************************************)
Marked(ws, f) ==
    [w \in Write |-> IF ws[w][f] = "wait" THEN [ws[w] EXCEPT ![f] = "issued"] ELSE ws[w]]

Completed(ws, f) ==
    [w \in Write |-> IF ws[w][f] = "issued" THEN [ws[w] EXCEPT ![f] = "done"] ELSE ws[w]]

\* BUG: a write that gives up its place does not start the IO others wait for.
BugNoIo(ws, a) ==
    /\ amap' = [a EXCEPT !.pend = @ - 1]
    /\ wr' = ws
    /\ UNCHANGED <<aio, sb, post>>

\* amap_io: write page a, with a new id unless same, and send it to the standby.
amap_io(ws, a, same) ==
    LET id == IF same THEN a.id ELSE write_id_incr(a.id, 1)
        page == [entry |-> a.entry, id |-> id]
    IN  /\ amap' = [entry |-> a.entry, id |-> id, pend |-> 0, need |-> FALSE]
        /\ aio' = page
        /\ wr' = Marked(ws, "amap")
        /\ IF sb.paired
           THEN /\ sb' = [sb EXCEPT !.amap = PageRecv(@, page)]
                /\ post' = [post EXCEPT !.amap = PostQueued(@, same)]
           ELSE UNCHANGED <<sb, post>>

amap_end_writes(ws, a, same) ==
    /\ aio = None
    /\ IF a.pend = 1
       THEN amap_io(ws, a, same)
       ELSE /\ amap' = [a EXCEPT !.pend = @ - 1, !.need = TRUE]
            /\ wr' = ws
            /\ UNCHANGED <<aio, sb, post>>

amap_end_writes_noio(ws, a) ==
    /\ a.need => aio = None
    /\ IF a.pend = 1 /\ a.need
       THEN amap_io(ws, a, FALSE)
       ELSE /\ amap' = [a EXCEPT !.pend = @ - 1]
            /\ wr' = ws
            /\ UNCHANGED <<aio, sb, post>>

\* index_end_writes: the last write to end starts subgroup_write_io.
index_end_writes(ws, x) ==
    /\ iio = None
    /\ IF x.pend = 1
       THEN LET page == [refs |-> x.refs, id |-> write_id_incr(x.id, 1)]
            IN  /\ index' = [refs |-> x.refs, id |-> page.id, pend |-> 0]
                /\ iio' = page
                /\ wr' = Marked(Marked(ws, "alloc"), "del")
                /\ IF sb.paired
                   THEN /\ sb' = [sb EXCEPT !.index = PageRecv(@, page)]
                        /\ post' = [post EXCEPT !.index = PostQueued(@, FALSE)]
                   ELSE UNCHANGED <<sb, post>>
       ELSE /\ index' = [x EXCEPT !.pend = @ - 1]
            /\ wr' = ws
            /\ UNCHANGED <<iio, sb, post>>

\* bint_free_block: a block without references is left alone, with a warning.
bint_free_block(refs, b) ==
    IF refs[b] = 0 THEN refs ELSE [refs EXCEPT ![b] = @ - 1]

\* bint_log_replay takes a reference for a data block that is already in use too.
bint_log_replay(refs, b) == [refs EXCEPT ![b] = @ + 1]

(***************************************************************************)
(* The write, up to the answer to the client.                               *)
(***************************************************************************)
At(w, pc) == mode = "up" /\ wr[w].pc = pc

Goto(w, pc) == [wr EXCEPT ![w].pc = pc]

\* The write reaches the head of the lba queue and joins the map page's next IO.
Begin(w, l) ==
    /\ At(w, "idle")
    /\ queue[l] = None
    /\ queue' = [queue EXCEPT ![l] = w]
    /\ wr' = [wr EXCEPT ![w] = [@ EXCEPT !.pc = "alloc", !.lba = l, !.amap = "wait"]]
    /\ amap' = [amap EXCEPT !.pend = @ + 1]
    /\ UNCHANGED <<aio, index, iio, disk, data, log, durable, post, sb, acked, mode, rec, crashes>>

Alloc(w, b) ==
    /\ At(w, "alloc")
    /\ index.refs[b] = 0
    /\ index' = [index EXCEPT !.refs[b] = 1]
    /\ wr' = [wr EXCEPT ![w] = [@ EXCEPT !.pc = "data", !.block = b, !.iid = index.id,
                                         !.alloc = "wait"]]
    /\ UNCHANGED <<queue, amap, aio, iio, disk, data, log, durable, post, sb, acked, mode, rec, crashes>>

\* No block is free, or no memory for the index_info.
AllocFails(w) ==
    /\ At(w, "alloc")
    /\ "data" \in Faults \/ \A b \in Block : index.refs[b] > 0
    /\ wr' = Goto(w, "err_free")
    /\ UNCHANGED <<queue, master, disk, data, log, durable, post, sb, acked, mode, rec, crashes>>

WriteData(w) ==
    /\ At(w, "data")
    /\ data' = [data EXCEPT ![wr[w].block] = w]
    /\ wr' = Goto(w, "map")
    /\ UNCHANGED <<queue, master, disk, log, durable, post, sb, acked, mode, rec, crashes>>

\* pgdata_amap_io: the entry is set in memory, then the log entry.
pgdata_amap_io(w) ==
    LET l == wr[w].lba
    IN  /\ At(w, "map")
        /\ wr' = [wr EXCEPT ![w] = [@ EXCEPT !.pc = "start", !.old = amap.entry[l],
                                             !.aid = amap.id]]
        /\ amap' = [amap EXCEPT !.entry[l] = wr[w].block]
        /\ log' = Append(log, w)
        /\ UNCHANGED <<queue, aio, index, iio, disk, data, durable, post, sb, acked, mode, rec, crashes>>

node_pgdata_sync_start(w) ==
    /\ At(w, "start")
    /\ wr' = Goto(w, "log")
    /\ sb' = IF sb.paired THEN [sb EXCEPT !.hash[w] = "START"] ELSE sb
    /\ UNCHANGED <<queue, master, disk, data, log, durable, post, acked, mode, rec, crashes>>

\* BUG: the IO of the log page is not waited for.
BugLogWrite(w) ==
    /\ At(w, "log")
    /\ wr' = Goto(w, "end")
    /\ UNCHANGED <<queue, master, disk, data, log, durable, post, sb, acked, mode, rec, crashes>>

LogWrite(w) ==
    /\ At(w, "log")
    /\ wr' = Goto(w, "end")
    /\ durable' = durable \cup {w}
    /\ UNCHANGED <<queue, master, disk, data, log, post, sb, acked, mode, rec, crashes>>

sync_amap_list_pre(w) ==
    /\ At(w, "end")
    /\ amap_end_writes(Goto(w, "answer"), amap, FALSE)
    /\ UNCHANGED <<queue, index, iio, disk, data, log, durable, acked, mode, rec, crashes>>

\* BUG: the client is answered before the standby knows.
BugClientDone(w) ==
    /\ At(w, "answer")
    /\ wr' = Goto(w, "ack")
    /\ UNCHANGED <<queue, master, disk, data, log, durable, post, sb, acked, mode, rec, crashes>>

node_pgdata_sync_client_done(w) ==
    /\ At(w, "answer")
    /\ wr' = Goto(w, "ack")
    /\ sb' = IF sb.hash[w] = "START" THEN [sb EXCEPT !.hash[w] = "CLIENT_DONE"] ELSE sb
    /\ UNCHANGED <<queue, master, disk, data, log, durable, post, acked, mode, rec, crashes>>

device_send_ccb(w) ==
    /\ At(w, "ack")
    /\ wr' = Goto(w, "post")
    /\ acked' = [acked EXCEPT ![wr[w].lba] = w]
    /\ UNCHANGED <<queue, master, disk, data, log, durable, post, sb, mode, rec, crashes>>

\* The lba is released once the IO of the map page has been started.
pgdata_post_write(w) ==
    /\ At(w, "post")
    /\ wr[w].amap \in {"issued", "done"}
    /\ wr' = Goto(w, "dd_alloc")
    /\ queue' = [queue EXCEPT ![wr[w].lba] = None]
    /\ UNCHANGED <<master, disk, data, log, durable, post, sb, acked, mode, rec, crashes>>

(***************************************************************************)
(* The ddthread, after the answer.                                          *)
(***************************************************************************)
\* index_info_insert does nothing when the page was written since the allocation.
DdIndex(w) ==
    /\ At(w, "dd_alloc")
    /\ IF wr[w].alloc = "wait"
       THEN index_end_writes(Goto(w, "dd_delete"), [index EXCEPT !.pend = @ + 1])
       ELSE wr' = Goto(w, "dd_delete") /\ UNCHANGED <<index, iio, sb, post>>
    /\ UNCHANGED <<queue, amap, aio, disk, data, log, durable, acked, mode, rec, crashes>>

DdDelete(w) ==
    /\ At(w, "dd_delete")
    /\ index' = [index EXCEPT !.refs = bint_free_block(@, wr[w].old), !.pend = @ + 1]
    /\ wr' = [wr EXCEPT ![w] = [@ EXCEPT !.pc = "dd_sync", !.del = "wait"]]
    /\ UNCHANGED <<queue, amap, aio, iio, disk, data, log, durable, post, sb, acked, mode, rec, crashes>>

DdSync(w) ==
    /\ At(w, "dd_sync")
    /\ index_end_writes(Goto(w, "dd_wait"), index)
    /\ UNCHANGED <<queue, amap, aio, disk, data, log, durable, acked, mode, rec, crashes>>

\* BUG: the index page with the new block is not waited for.
BugDdClear(w) ==
    /\ At(w, "dd_wait")
    /\ wr[w].amap = "done"
    /\ wr' = Goto(w, "dd_complete")
    /\ UNCHANGED <<queue, master, disk, data, log, durable, post, sb, acked, mode, rec, crashes>>

\* Once its pages are on the disk the log entry no longer holds its log page.
DdClear(w) ==
    /\ At(w, "dd_wait")
    /\ wr[w].amap = "done" /\ wr[w].alloc = "done" /\ wr[w].del = "done"
    /\ wr' = Goto(w, "dd_complete")
    /\ UNCHANGED <<queue, master, disk, data, log, durable, post, sb, acked, mode, rec, crashes>>

node_pgdata_sync_complete(w) ==
    /\ At(w, "dd_complete")
    /\ wr' = [wr EXCEPT ![w] = IF w \in Range(log) THEN [@ EXCEPT !.pc = "done"] ELSE Over("done")]
    /\ sb' = [sb EXCEPT !.hash[w] = "none"]
    /\ UNCHANGED <<queue, master, disk, data, log, durable, post, acked, mode, rec, crashes>>

\* A log page is used again once none of its entries is pending, oldest first.
get_free_log_page ==
    /\ mode = "up"
    /\ log # <<>> /\ wr[Head(log)].pc \in {"dd_complete", "done"}
    /\ log' = Tail(log)
    /\ durable' = durable \ {Head(log)}
    /\ wr' = [wr EXCEPT ![Head(log)] = IF @.pc = "done" THEN Over("done") ELSE @]
    /\ UNCHANGED <<queue, master, disk, data, post, sb, acked, mode, rec, crashes>>

(***************************************************************************)
(* IO completion, and the SYNC_POST that follows it.                        *)
(***************************************************************************)
PostReady(p) == IF "wait" \in p THEN {"ready"} ELSE p

amap_end_bio ==
    /\ mode = "up" /\ aio # None
    /\ disk' = [disk EXCEPT !.amap = aio]
    /\ aio' = None
    /\ wr' = Completed(wr, "amap")
    /\ post' = [post EXCEPT !.amap = PostReady(@)]
    /\ UNCHANGED <<queue, amap, index, iio, data, log, durable, sb, acked, mode, rec, crashes>>

subgroup_end_bio ==
    /\ mode = "up" /\ iio # None
    /\ disk' = [disk EXCEPT !.index = iio]
    /\ iio' = None
    /\ wr' = Completed(Completed(wr, "alloc"), "del")
    /\ post' = [post EXCEPT !.index = PostReady(@)]
    /\ UNCHANGED <<queue, amap, aio, index, data, log, durable, sb, acked, mode, rec, crashes>>

\* BUG: the post is sent without waiting for the IO of the page.
BugAmapSyncPost ==
    /\ mode = "up" /\ post.amap # {}
    /\ post' = [post EXCEPT !.amap = {}]
    /\ sb' = [sb EXCEPT !.amap = PostRecv(@, amap.id)]
    /\ UNCHANGED <<wr, queue, master, disk, data, log, durable, acked, mode, rec, crashes>>

handle_amap_sync_post ==
    /\ mode = "up" /\ "ready" \in post.amap
    /\ post' = [post EXCEPT !.amap = @ \ {"ready"}]
    /\ sb' = [sb EXCEPT !.amap = PostRecv(@, amap.id)]
    /\ UNCHANGED <<wr, queue, master, disk, data, log, durable, acked, mode, rec, crashes>>

handle_bintindex_sync_post ==
    /\ mode = "up" /\ "ready" \in post.index
    /\ post' = [post EXCEPT !.index = @ \ {"ready"}]
    /\ sb' = [sb EXCEPT !.index = PostRecv(@, index.id)]
    /\ UNCHANGED <<wr, queue, master, disk, data, log, durable, acked, mode, rec, crashes>>

(***************************************************************************)
(* A write that fails: before the map page is changed (data IO, or the      *)
(* mirror's early checks), or after (tdisk_mirror_write_done_pre).          *)
(***************************************************************************)
\* BUG: the index page's writes are ended though none was started.
BugWriteFails(w) ==
    /\ At(w, "map") /\ "data" \in Faults
    /\ index' = [index EXCEPT !.refs = bint_free_block(@, wr[w].block)]
    /\ wr' = Goto(w, "err_free")
    /\ UNCHANGED <<queue, amap, aio, iio, disk, data, log, durable, post, sb, acked, mode, rec, crashes>>

WriteFails(w) ==
    /\ At(w, "map") /\ "data" \in Faults
    /\ index' = [index EXCEPT !.refs = bint_free_block(@, wr[w].block), !.pend = @ + 1]
    /\ wr' = Goto(w, "err_free")
    /\ UNCHANGED <<queue, amap, aio, iio, disk, data, log, durable, post, sb, acked, mode, rec, crashes>>

\* The write leaves the map page's next IO.
amap_sync_list_free_error(w) ==
    /\ At(w, "err_free")
    /\ amap_end_writes_noio([wr EXCEPT ![w] = [@ EXCEPT !.amap = "none",
            !.pc = IF wr[w].block = None THEN "err_complete" ELSE "err_index"]], amap)
    /\ UNCHANGED <<queue, index, iio, disk, data, log, durable, acked, mode, rec, crashes>>

\* pgdata_cancel: the entry goes back to the old block, the new one is released.
\* A page written since the update is written once more, under the same id.
MirrorFails(w) ==
    LET rewrite == write_id_greater(amap.id, wr[w].aid)
    IN  /\ At(w, "answer") /\ "mirror" \in Faults
        /\ amap' = [amap EXCEPT !.entry[wr[w].lba] = wr[w].old,
                                !.pend = IF rewrite THEN @ + 1 ELSE @]
        /\ wr' = [wr EXCEPT ![w] = [@ EXCEPT !.pc = IF rewrite THEN "err_amap" ELSE "err_index",
                                           !.amap = IF rewrite THEN "wait" ELSE wr[w].amap]]
        /\ index' = [index EXCEPT !.refs = bint_free_block(@, wr[w].block), !.pend = @ + 1]
        /\ UNCHANGED <<queue, aio, iio, disk, data, log, durable, post, sb, acked, mode, rec, crashes>>

ErrorAmap(w) ==
    /\ At(w, "err_amap")
    /\ amap_end_writes(Goto(w, "err_index"), amap, TRUE)
    /\ UNCHANGED <<queue, index, iio, disk, data, log, durable, acked, mode, rec, crashes>>

ErrorIndex(w) ==
    /\ At(w, "err_index")
    /\ wr[w].amap \in {"none", "done"}
    /\ index_end_writes(Goto(w, "err_complete"), index)
    /\ UNCHANGED <<queue, amap, aio, disk, data, log, durable, acked, mode, rec, crashes>>

ErrorComplete(w) ==
    /\ At(w, "err_complete")
    /\ wr' = Goto(w, "err_log")
    /\ sb' = [sb EXCEPT !.hash[w] = "none"]
    /\ UNCHANGED <<queue, master, disk, data, log, durable, post, acked, mode, rec, crashes>>

\* The log entry is cleared on the disk before the lba is released.
ErrorLog(w) ==
    /\ At(w, "err_log")
    /\ wr[w].alloc # "issued"
    /\ wr' = [wr EXCEPT ![w] = Over("failed")]
    /\ log' = SelectSeq(log, LAMBDA v : v # w)
    /\ durable' = durable \ {w}
    /\ queue' = [queue EXCEPT ![wr[w].lba] = None]
    /\ UNCHANGED <<master, disk, data, post, sb, acked, mode, rec, crashes>>

(***************************************************************************)
(* A crash loses the memory of the master.  A page being written may or may *)
(* not have reached the disk.                                               *)
(***************************************************************************)
Landed(page, io) == {page} \cup ({io} \ {None})

Loaded(a, x, cached, pending) ==
    /\ amap' = [entry |-> a.entry, id |-> a.id, pend |-> 0, need |-> FALSE]
    /\ index' = [refs |-> x.refs, id |-> x.id, pend |-> 0]
    /\ aio' = None /\ iio' = None
    /\ rec' = NoSync(cached, pending)
    /\ crashes' = crashes + 1
    /\ UNCHANGED <<wr, queue, data, post, acked>>

\* The standby's own copy of a page, or the page it reads from the disk.
Copies(own, page) ==
    (IF own.cached THEN {own.page} ELSE {})
        \cup (IF own.cached /\ own.pending THEN {} ELSE {page})

CrashTakeover ==
    /\ mode = "up" /\ sb.paired /\ crashes < MaxCrash
    /\ \E a \in Landed(disk.amap, aio), x \in Landed(disk.index, iio) :
        /\ disk' = [amap |-> a, index |-> x]
        /\ \E am \in Copies(sb.amap, a) :
            \/ sb.index.cached /\ Loaded(am, sb.index.page, TRUE, sb.index.pending)
            \/ ~(sb.index.cached /\ sb.index.pending) /\ Loaded(am, x, FALSE, FALSE)
    /\ mode' = "takeover"
    /\ UNCHANGED <<log, durable, sb>>

CrashRestart ==
    /\ mode # "recovered" /\ (mode = "takeover" => "takeover" \in Faults)
    /\ crashes < MaxCrash
    /\ \E a \in Landed(disk.amap, aio), x \in Landed(disk.index, iio) :
        /\ disk' = [amap |-> a, index |-> x]
        /\ Loaded(a, x, TRUE, FALSE)
    /\ mode' = "replay"
    /\ log' = SelectSeq(log, LAMBDA w : w \in durable)
    /\ sb' = Standby(FALSE)
    /\ UNCHANGED durable

(***************************************************************************)
(* Takeover: node_ha_hash_cleanup goes through the transactions, in the     *)
(* order of the hash buckets, which is any order.                           *)
(***************************************************************************)
\* amap_check_sync_list: the first to put the page on the list chooses its id.
Listed(how) == IF rec.amap = "none" THEN how ELSE rec.amap

\* BUG: a map page that already has the entry is not written again.
BugCheckLogs(w) ==
    LET newer == write_id_greater(amap.id, wr[w].aid)
        replay == ~rec.cached \/ ~write_id_greater(index.id, wr[w].iid)
    IN  /\ mode = "takeover" /\ sb.hash[w] = "CLIENT_DONE"
        /\ amap' = IF newer THEN amap ELSE [amap EXCEPT !.entry[wr[w].lba] = wr[w].block]
        /\ index' = IF replay THEN [index EXCEPT !.refs = bint_log_replay(@, wr[w].block)]
                              ELSE index
        /\ rec' = [rec EXCEPT !.amap = IF newer THEN @ ELSE Listed("incr"),
                              !.index = TRUE, !.cached = TRUE]
        /\ sb' = [sb EXCEPT !.hash[w] = "none"]
        /\ UNCHANGED <<wr, queue, aio, iio, disk, data, log, durable, post, acked, mode, crashes>>

\* node_ha_msg_check_logs: the client had its answer, so the write is kept.
node_ha_msg_check_logs(w) ==
    LET newer == write_id_greater(amap.id, wr[w].aid)
        replay == ~rec.cached \/ ~write_id_greater(index.id, wr[w].iid)
    IN  /\ mode = "takeover" /\ sb.hash[w] = "CLIENT_DONE"
        /\ amap' = IF newer THEN amap ELSE [amap EXCEPT !.entry[wr[w].lba] = wr[w].block]
        /\ index' = IF replay THEN [index EXCEPT !.refs = bint_log_replay(@, wr[w].block)]
                              ELSE index
        /\ rec' = [rec EXCEPT !.amap = Listed(IF newer THEN "same" ELSE "incr"),
                              !.index = TRUE, !.cached = TRUE]
        /\ sb' = [sb EXCEPT !.hash[w] = "none"]
        /\ UNCHANGED <<wr, queue, aio, iio, disk, data, log, durable, post, acked, mode, crashes>>

\* node_ha_msg_cancel_logs: the client had no answer, so the write is undone.
node_ha_msg_cancel_logs(w) ==
    LET newer == write_id_greater(amap.id, wr[w].aid)
        listed == rec.cached /\ write_id_greater(index.id, wr[w].iid)
    IN  /\ mode = "takeover" /\ sb.hash[w] = "START"
        /\ amap' = IF newer \/ amap.id = wr[w].aid
                   THEN [amap EXCEPT !.entry[wr[w].lba] = wr[w].old] ELSE amap
        /\ index' = IF listed THEN [index EXCEPT !.refs = bint_free_block(@, wr[w].block)]
                              ELSE index
        /\ rec' = [rec EXCEPT !.amap = IF newer THEN Listed("same") ELSE @,
                              !.index = @ \/ listed]
        /\ sb' = [sb EXCEPT !.hash[w] = "none"]
        /\ UNCHANGED <<wr, queue, aio, iio, disk, data, log, durable, post, acked, mode, crashes>>

(***************************************************************************)
(* Restart: the durable log entries are replayed in order.                  *)
(***************************************************************************)
log_entries_replay ==
    LET w == log[rec.next]
        newer == write_id_greater(amap.id, wr[w].aid)
        listed == ~write_id_greater(index.id, wr[w].iid)
    IN  /\ mode = "replay" /\ rec.next <= Len(log)
        /\ index' = IF listed THEN [index EXCEPT !.refs = bint_log_replay(@, wr[w].block)]
                              ELSE index
        /\ amap' = IF newer THEN amap ELSE [amap EXCEPT !.entry[wr[w].lba] = wr[w].block]
        /\ rec' = [rec EXCEPT !.amap = IF newer THEN @ ELSE Listed("same"),
                              !.index = @ \/ listed, !.next = @ + 1]
        /\ UNCHANGED <<wr, queue, aio, iio, disk, data, log, durable, post, sb, acked, mode, crashes>>

(***************************************************************************)
(* The end of either recovery: the listed pages are written, then the log   *)
(* is reset, then a taken over index page that was still pending is written *)
(* with a new id (node_ha_bdevs_takeover).                                  *)
(***************************************************************************)
Replayed ==
    \/ mode = "takeover" /\ \A w \in Write : sb.hash[w] = "none"
    \/ mode = "replay" /\ rec.next > Len(log)

RecoverAmap ==
    LET id == IF rec.amap = "incr" THEN write_id_incr(amap.id, 1) ELSE amap.id
    IN  /\ Replayed /\ rec.amap # "none"
        /\ amap' = [amap EXCEPT !.id = id]
        /\ disk' = [disk EXCEPT !.amap = [entry |-> amap.entry, id |-> id]]
        /\ rec' = [rec EXCEPT !.amap = "none"]
        /\ UNCHANGED <<wr, queue, aio, index, iio, data, log, durable, post, sb, acked, mode, crashes>>

RecoverIndex ==
    /\ Replayed /\ rec.index
    /\ disk' = [disk EXCEPT !.index = [refs |-> index.refs, id |-> index.id]]
    /\ rec' = [rec EXCEPT !.index = FALSE, !.pending = FALSE]
    /\ UNCHANGED <<wr, queue, master, data, log, durable, post, sb, acked, mode, crashes>>

RecoverLog ==
    LET id == write_id_incr(index.id, 1)
    IN  /\ Replayed /\ rec.amap = "none" /\ ~rec.index
        /\ log' = <<>> /\ durable' = {}
        /\ IF rec.pending
           THEN /\ index' = [index EXCEPT !.id = id]
                /\ disk' = [disk EXCEPT !.index = [refs |-> index.refs, id |-> id]]
           ELSE UNCHANGED <<index, disk>>
        /\ mode' = "recovered"
        /\ UNCHANGED <<wr, queue, amap, aio, iio, data, post, sb, acked, rec, crashes>>

\* The recovered node serves the disk alone.  The writes the crash cut off are gone.
Resume ==
    /\ mode = "recovered"
    /\ mode' = "up"
    /\ wr' = [w \in Write |-> IF wr[w].pc = "idle" THEN Idle ELSE Over("done")]
    /\ queue' = [l \in Lba |-> None]
    /\ acked' = [l \in Lba |-> data[amap.entry[l]]]
    /\ post' = [amap |-> {}, index |-> {}]
    /\ sb' = Standby(FALSE)
    /\ rec' = NoSync(TRUE, FALSE)
    /\ UNCHANGED <<master, disk, data, log, durable, crashes>>

(***************************************************************************)
(* The specification.                                                       *)
(***************************************************************************)
WriteStep(w) ==
    \/ \E b \in Block : Alloc(w, b)
    \/ AllocFails(w)
    \/ WriteData(w)
    \/ pgdata_amap_io(w)
    \/ node_pgdata_sync_start(w)
    \/ LogWrite(w)
    \/ sync_amap_list_pre(w)
    \/ node_pgdata_sync_client_done(w)
    \/ device_send_ccb(w)
    \/ pgdata_post_write(w)
    \/ DdIndex(w)
    \/ DdDelete(w)
    \/ DdSync(w)
    \/ DdClear(w)
    \/ node_pgdata_sync_complete(w)
    \/ amap_sync_list_free_error(w)
    \/ ErrorAmap(w)
    \/ ErrorIndex(w)
    \/ ErrorComplete(w)
    \/ ErrorLog(w)

Fails(w) == WriteFails(w) \/ MirrorFails(w)

Device ==
    \/ amap_end_bio
    \/ subgroup_end_bio
    \/ handle_amap_sync_post
    \/ handle_bintindex_sync_post
    \/ get_free_log_page

Recovery ==
    \/ \E w \in Write : node_ha_msg_check_logs(w) \/ node_ha_msg_cancel_logs(w)
    \/ log_entries_replay
    \/ RecoverAmap
    \/ RecoverIndex
    \/ RecoverLog
    \/ Resume

Next ==
    \/ \E w \in Write, l \in Lba : Begin(w, l)
    \/ \E w \in Write : WriteStep(w) \/ Fails(w)
    \/ Device
    \/ Recovery
    \/ CrashTakeover
    \/ CrashRestart

Spec == Init /\ [][Next]_vars

\* A thread takes the step it can take; the disk finishes its IO.
Fairness ==
    /\ \A w \in Write : WF_vars(WriteStep(w))
    /\ WF_vars(amap_end_bio) /\ WF_vars(subgroup_end_bio)
    /\ WF_vars(Recovery)

LiveSpec == Spec /\ Fairness

(***************************************************************************)
(* Properties.                                                              *)
(***************************************************************************)
Serving == mode \in {"up", "recovered"}

\* Type invariant.
TypeOK ==
    /\ amap.entry \in [Lba -> Block] /\ amap.id \in Nat /\ amap.pend \in Nat
    /\ index.refs \in [Block -> Nat] /\ index.id \in Nat /\ index.pend \in Nat
    /\ queue \in [Lba -> Write \cup {None}]
    /\ data \in [Block -> Write \cup Lba \cup {None}]
    /\ acked \in [Lba -> Write \cup Lba]
    /\ durable \subseteq Range(log)
    /\ mode \in {"up", "takeover", "replay", "recovered"}

\* An lba reads as the last write its client was told of, or as the write that
\* is under way on it: whatever the interleaving of group commits, releases of
\* old blocks and their reuse, and whichever way a crashed master is replaced.
AckedWriteKept ==
    Serving => \A l \in Lba : data[amap.entry[l]] \in {acked[l], queue[l]}

\* To its clients the disk is the one VirtualDisk specifies: reads change only when
\* the write under way takes effect or is undone, the answer comes after the effect,
\* and a takeover or a replay leaves each lba with the answered write or with the
\* one the crash caught.
Disk == INSTANCE VirtualDisk WITH
            value <- [l \in Lba |-> IF mode = "up" THEN data[amap.entry[l]] ELSE acked[l]],
            pending <- queue, answered <- acked, up <- mode = "up"

ImplementsVirtualDisk == Disk!Spec

\* A block some lba is mapped to is in use in the index page, so that it is not
\* given to another write, and no two lbas are mapped to one block.
MappedBlockInUse ==
    Serving => \A l \in Lba :
        /\ index.refs[amap.entry[l]] >= 1
        /\ \A m \in Lba : amap.entry[l] = amap.entry[m] => l = m

\* A page of the standby that is not IO_PENDING, which it may drop and read
\* again, is what the disk holds.
UnpendingIsOnDisk ==
    mode = "up" /\ sb.paired =>
        /\ sb.amap.cached /\ ~sb.amap.pending => sb.amap.page = disk.amap
        /\ sb.index.cached /\ ~sb.index.pending => sb.index.page = disk.index

\* When a takeover or a replay is over, the disk holds the pages in memory.
RecoveredIsOnDisk ==
    mode = "recovered" =>
        /\ disk.amap.entry = amap.entry
        /\ disk.index.refs = index.refs

\* Every write that has started ends, with an answer: no write waits for ever
\* for a group commit that another one should have started.
EveryWriteEnds ==
    \A w \in Write : wr[w].pc # "idle" ~> wr[w].pc \in {"done", "failed"}

=============================================================================
