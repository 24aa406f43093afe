------------------------------- MODULE Dedup -------------------------------
(***************************************************************************)
(* Deduplication: blocks shared between lbas, the hash table that finds     *)
(* them, and the read cache in front of them.                               *)
(*                                                                          *)
(* A write looks its hash up in the chain of nodes of its hash bucket.  A   *)
(* hit takes a reference on the block found, a miss allocates a block.      *)
(* After the answer a ddthread lists a new block in the chain and releases  *)
(* the block the lba was mapped to before.  The index entry of a block      *)
(* holds its references and the node that lists it (node_block): an entry   *)
(* of another node is out of date.  Nodes are entered under their own lock, *)
(* index entries under the lock of the index page, and no lock is held      *)
(* from one step of this module to the next but the insert lock.            *)
(*                                                                          *)
(* One chain and one page per write.  The log, the metadata pages and their *)
(* IO are those of WritePath and are left out.                              *)
(***************************************************************************)
EXTENDS Integers, FiniteSets

CONSTANTS
    Write,      \* the writes in progress at a time
    Lba,
    Block,
    Content,    \* pages that are not zero, one hash each
    Nodes,      \* bound: the length of the chain, which does not grow
    Slots,      \* DDTABLE_LOOKUP_NODE_MAX_BLOCKS
    MaxRefs,    \* BMAP_ENTRY_MAX_REFS
    ReadLba,    \* bound: the lbas that are read
    VerifyLba,  \* the lbas of disks with enable_verify
    Faults,     \* what may fail: "write" (a write after its allocation),
                \* "verify" (the read of a verify), "table" (the IO of a node)
    Zero,       \* the zero page, and the page of an unmap
    None

ASSUME DedupAssumption ==
    /\ IsFiniteSet(Write) /\ IsFiniteSet(Lba)
    /\ Write \cap Lba = {}
    /\ Nodes \in Nat \ {0} /\ Slots \in Nat \ {0} /\ MaxRefs \in Nat \ {0}
    /\ ReadLba \subseteq Lba /\ VerifyLba \subseteq Lba
    /\ Faults \subseteq {"write", "verify", "table"}
    /\ Zero \notin Content
    /\ None \notin Write \cup Lba \cup Block \cup Content \cup {Zero}

VARIABLES
    wr,          \* wr[w]: the pgdata of w, from the request to the end of its ddwork
    queue,       \* queue[l]: the write that holds l in lba_write_list
    reading,     \* the lbas of reads that missed the read cache
    map,         \* map[l]: the amap entry of l
    refs,        \* refs[b]: references in the index entry of b
    node_block,  \* node_block[b]: the node in the index entry of b, or 0
    data,        \* data[b]: the page on the disk
    table,       \* table[n]: the entries of node n of the chain
    insert_lock, \* the ddwork that holds ddlookup_list_insert_lock
    rcache,      \* rcache[b]: the first cached page of b
    evicting,    \* the entry rcache_check took off glist and not yet off its bucket
    written,     \* written[l]: the page of the last write of l that was answered
    lost,        \* lost[b]: references a failed write did not release
    stale,       \* blocks whose cached page may outlive them: cached between Uncache
                 \* and Free, removed while evicted, or reset
    recycled     \* blocks mapped again to the lba of a ddwork that is still to list
                 \* them with the hash of their page before

vars == <<wr, queue, reading, map, refs, node_block, data, table, insert_lock,
          rcache, evicting, written, lost, stale, recycled>>

disk == <<map, data, written, recycled>>
index == <<refs, node_block>>
cache == <<rcache, evicting, stale>>

Entry == [block : Block, hash : Content]

Idle == [pc |-> "idle", lba |-> None, page |-> None, block |-> None, old |-> None,
         dup |-> FALSE, disabled |-> FALSE, node |-> 0, spec |-> None]

Init ==
    /\ wr = [w \in Write |-> Idle]
    /\ queue = [l \in Lba |-> None]
    /\ reading = {}
    /\ map = [l \in Lba |-> None]
    /\ refs = [b \in Block |-> 0]
    /\ node_block = [b \in Block |-> 0]
    /\ data = [b \in Block |-> None]
    /\ table = [n \in 1..Nodes |-> {}]
    /\ insert_lock = None
    /\ rcache = [b \in Block |-> None]
    /\ evicting = None
    /\ written = [l \in Lba |-> Zero]
    /\ lost = [b \in Block |-> 0]
    /\ stale = {}
    /\ recycled = {}

At(w, pc) == wr[w].pc = pc

\* What is left to do is to release block b.
Release(w, b) == wr' = [wr EXCEPT ![w] = [Idle EXCEPT !.pc = "delete", !.old = b]]

\* The command or its ddwork is over; a failed one still holds its lba.
End(w) ==
    /\ wr' = [wr EXCEPT ![w] = Idle]
    /\ queue' = [l \in Lba |-> IF queue[l] = w THEN None ELSE queue[l]]

(***************************************************************************)
(* The read cache.  An entry rcache_check is about to free can still be     *)
(* found, and rcache_remove leaves it alone.                                *)
(***************************************************************************)
Evicting(b) == evicting # None /\ evicting.block = b

Cached(b) == rcache[b] # None \/ Evicting(b)

rcache_locate(b) == IF rcache[b] # None THEN rcache[b] ELSE evicting.page

rcache_insert(b, page) ==
    /\ rcache' = [rcache EXCEPT ![b] = page]
    /\ stale' = IF \E w \in Write : At(w, "free") /\ wr[w].old = b
                THEN stale \cup {b} ELSE stale
    /\ UNCHANGED evicting

rcache_remove(b) ==
    /\ rcache' = [rcache EXCEPT ![b] = None]
    /\ stale' = IF Evicting(b) THEN stale \cup {b} ELSE stale
    /\ UNCHANGED evicting

EvictStart(b) ==
    /\ evicting = None /\ rcache[b] # None
    /\ evicting' = [block |-> b, page |-> rcache[b]]
    /\ rcache' = [rcache EXCEPT ![b] = None]
    /\ UNCHANGED <<wr, queue, reading, disk, index, table, insert_lock, lost, stale>>

EvictEnd ==
    /\ evicting # None
    /\ evicting' = None
    /\ UNCHANGED <<wr, queue, reading, disk, index, table, insert_lock, rcache, lost, stale>>

(***************************************************************************)
(* Reads.  One that hits the cache or an unmapped lba changes nothing.      *)
(***************************************************************************)
ReadStart(l) ==
    /\ queue[l] = None /\ l \notin reading
    /\ map[l] # None /\ ~Cached(map[l])
    /\ reading' = reading \cup {l}
    /\ UNCHANGED <<wr, queue, disk, index, table, insert_lock, cache, lost>>

ReadDone(l) ==
    /\ l \in reading
    /\ reading' = reading \ {l}
    /\ rcache_insert(map[l], data[map[l]])
    /\ UNCHANGED <<wr, queue, disk, index, table, insert_lock, lost>>

(***************************************************************************)
(* The index entry of a block.                                              *)
(***************************************************************************)
\* BUG: the limit of references is not checked.
BugMaxRefs(b, n) == node_block[b] = n /\ refs[b] > 0

\* BUG: the node in the index entry is not compared.
BugNodeBlock(b, n) == refs[b] > 0 /\ refs[b] < MaxRefs

bint_ref_block(b, n) == node_block[b] = n /\ refs[b] > 0 /\ refs[b] < MaxRefs

bint_free_block(b) ==
    /\ refs' = [refs EXCEPT ![b] = IF refs[b] = 0 THEN 0 ELSE refs[b] - 1]
    /\ node_block' = IF refs[b] = 1 THEN [node_block EXCEPT ![b] = 0] ELSE node_block

\* BUG: the map entry is not looked at again.
BugMayList(w) == refs[wr[w].block] > 0 /\ node_block[wr[w].block] = 0

\* bdev_set_node_block, under the lock of the map page as well.
MayList(w) ==
    LET b == wr[w].block
    IN  map[wr[w].lba] = b /\ refs[b] > 0 /\ node_block[b] = 0

(***************************************************************************)
(* The write, up to the answer.                                             *)
(***************************************************************************)
Begin(w, l, page) ==
    /\ At(w, "idle")
    /\ queue[l] = None /\ l \notin reading
    /\ queue' = [queue EXCEPT ![l] = w]
    /\ wr' = [wr EXCEPT ![w] = [Idle EXCEPT !.pc = IF page = Zero THEN "map" ELSE "lookup",
                                            !.lba = l, !.page = page, !.node = 1]]
    /\ UNCHANGED <<reading, disk, index, table, insert_lock, cache, lost>>

\* The next node has no entry with this hash.
LookupMiss(w) ==
    LET n == wr[w].node
    IN  /\ At(w, "lookup")
        /\ \A e \in table[n] : e.hash # wr[w].page
        /\ wr' = IF n < Nodes THEN [wr EXCEPT ![w].node = n + 1]
                              ELSE [wr EXCEPT ![w].pc = "alloc"]
        /\ UNCHANGED <<queue, reading, disk, index, table, insert_lock, cache, lost>>

\* BUG: the reference is not counted.
BugLookupHit(w, e) ==
    LET n == wr[w].node
    IN  /\ At(w, "lookup")
        /\ e \in table[n] /\ e.hash = wr[w].page
        /\ IF bint_ref_block(e.block, n)
           THEN /\ wr' = [wr EXCEPT ![w] = [wr[w] EXCEPT !.block = e.block, !.dup = TRUE,
                              !.pc = IF wr[w].lba \in VerifyLba THEN "verify" ELSE "map"]]
                /\ UNCHANGED table
           ELSE /\ table' = [table EXCEPT ![n] = table[n] \ {e}]
                /\ wr' = [wr EXCEPT ![w] = [wr[w] EXCEPT !.pc = "alloc", !.disabled = TRUE]]
        /\ UNCHANGED <<queue, reading, disk, index, insert_lock, cache, lost>>

\* ddblock_info_get: an entry that gives no reference is cleared.
LookupHit(w, e) ==
    LET n == wr[w].node
    IN  /\ At(w, "lookup")
        /\ e \in table[n] /\ e.hash = wr[w].page
        /\ IF bint_ref_block(e.block, n)
           THEN /\ refs' = [refs EXCEPT ![e.block] = refs[e.block] + 1]
                /\ wr' = [wr EXCEPT ![w] = [wr[w] EXCEPT !.block = e.block, !.dup = TRUE,
                              !.pc = IF wr[w].lba \in VerifyLba THEN "verify" ELSE "map"]]
                /\ UNCHANGED table
           ELSE /\ table' = [table EXCEPT ![n] = table[n] \ {e}]
                /\ wr' = [wr EXCEPT ![w] = [wr[w] EXCEPT !.pc = "alloc", !.disabled = TRUE]]
                /\ UNCHANGED refs
        /\ UNCHANGED <<queue, reading, disk, node_block, insert_lock, cache, lost>>

LookupFails(w) ==
    /\ "table" \in Faults
    /\ At(w, "lookup")
    /\ wr' = [wr EXCEPT ![w] = [wr[w] EXCEPT !.pc = "alloc", !.disabled = TRUE]]
    /\ UNCHANGED <<queue, reading, disk, index, table, insert_lock, cache, lost>>

\* BUG: the reference is kept.
BugReset(w, disabled) ==
    /\ wr' = [wr EXCEPT ![w] = [wr[w] EXCEPT !.pc = "alloc", !.block = None,
                                             !.dup = FALSE, !.disabled = disabled]]
    /\ UNCHANGED <<index, cache>>

\* pgdata_reset_ddblock gives the reference back.  Neither the cached page nor
\* the entry of a block it frees is removed.
pgdata_reset_ddblock(w, disabled) ==
    LET b == wr[w].block
    IN  /\ bint_free_block(b)
        /\ wr' = [wr EXCEPT ![w] = [wr[w] EXCEPT !.pc = "alloc", !.block = None,
                                                 !.dup = FALSE, !.disabled = disabled]]
        /\ stale' = IF refs[b] = 1 /\ Cached(b) THEN stale \cup {b} ELSE stale
        /\ UNCHANGED <<rcache, evicting>>

\* tdisk_verify_block with the page in the cache.  A mismatch leaves the flags
\* clear, so that the new block will be listed.
VerifyCached(w) ==
    /\ At(w, "verify")
    /\ Cached(wr[w].block)
    /\ IF rcache_locate(wr[w].block) = wr[w].page
       THEN /\ wr' = [wr EXCEPT ![w].pc = "map"]
            /\ UNCHANGED <<index, cache>>
       ELSE pgdata_reset_ddblock(w, FALSE)
    /\ UNCHANGED <<queue, reading, disk, table, insert_lock, lost>>

VerifyMiss(w) ==
    /\ At(w, "verify")
    /\ ~Cached(wr[w].block)
    /\ wr' = [wr EXCEPT ![w].pc = "compare"]
    /\ UNCHANGED <<queue, reading, disk, index, table, insert_lock, cache, lost>>

\* verify_ddblocks: the page has been read from the disk.
VerifyRead(w) ==
    /\ At(w, "compare")
    /\ IF data[wr[w].block] = wr[w].page
       THEN /\ rcache_insert(wr[w].block, wr[w].page)
            /\ wr' = [wr EXCEPT ![w].pc = "map"]
            /\ UNCHANGED index
       ELSE pgdata_reset_ddblock(w, TRUE)
    /\ UNCHANGED <<queue, reading, disk, table, insert_lock, lost>>

VerifyFails(w) ==
    /\ "verify" \in Faults
    /\ At(w, "compare")
    /\ pgdata_reset_ddblock(w, TRUE)
    /\ UNCHANGED <<queue, reading, disk, table, insert_lock, lost>>

Alloc(w, b) ==
    /\ At(w, "alloc")
    /\ refs[b] = 0
    /\ refs' = [refs EXCEPT ![b] = 1]
    /\ wr' = [wr EXCEPT ![w] = [wr[w] EXCEPT !.pc = "data", !.block = b]]
    /\ UNCHANGED <<queue, reading, disk, node_block, table, insert_lock, cache, lost>>

AllocFails(w) ==
    /\ At(w, "alloc")
    /\ \A b \in Block : refs[b] > 0
    /\ End(w)
    /\ UNCHANGED <<reading, disk, index, table, insert_lock, cache, lost>>

WriteData(w) ==
    /\ At(w, "data")
    /\ data' = [data EXCEPT ![wr[w].block] = wr[w].page]
    /\ wr' = [wr EXCEPT ![w].pc = "map"]
    /\ UNCHANGED <<queue, reading, map, written, recycled, index, table, insert_lock, cache, lost>>

pgdata_amap_io(w) ==
    LET l == wr[w].lba
    IN  /\ At(w, "map")
        /\ map' = [map EXCEPT ![l] = wr[w].block]
        /\ wr' = [wr EXCEPT ![w] = [wr[w] EXCEPT !.pc = "mapped", !.old = map[l]]]
        /\ recycled' = IF \E v \in Write : /\ wr[v].pc \in {"dd", "scan", "insert"}
                                          /\ wr[v].lba = l /\ wr[v].block = wr[w].block
                                          /\ wr[v].page # wr[w].page
                       THEN recycled \cup {wr[w].block} ELSE recycled
        /\ UNCHANGED <<queue, reading, data, written, index, table, insert_lock, cache, lost>>

\* The answer, and the end of the write's hold on the lba.
pgdata_post_write(w) ==
    LET l == wr[w].lba
    IN  /\ At(w, "mapped")
        /\ written' = [written EXCEPT ![l] = wr[w].page]
        /\ queue' = [queue EXCEPT ![l] = None]
        /\ wr' = [wr EXCEPT ![w].pc = "dd"]
        /\ UNCHANGED <<reading, map, data, recycled, index, table, insert_lock, cache, lost>>

\* pgdata_cancel: the lba gets its old block back and the block allocated is
\* released, but not the reference of a duplicate.
pgdata_cancel(w) ==
    LET b == wr[w].block
        l == wr[w].lba
    IN  /\ "write" \in Faults
        /\ wr[w].pc \in {"data", "map", "mapped"}
        /\ map' = IF At(w, "mapped") THEN [map EXCEPT ![l] = wr[w].old] ELSE map
        /\ IF b = None \/ wr[w].dup
           THEN End(w)
           ELSE /\ Release(w, b)
                /\ UNCHANGED queue
        /\ lost' = IF wr[w].dup THEN [lost EXCEPT ![b] = lost[b] + 1] ELSE lost
        /\ UNCHANGED <<reading, data, written, recycled, index, table, insert_lock, cache>>

(***************************************************************************)
(* The ddthread lists a new block in the chain.                             *)
(***************************************************************************)
\* The block needs no entry, or the lba has been written again.
DdSkip(w) ==
    /\ At(w, "dd")
    /\ wr[w].page = Zero \/ wr[w].disabled \/ wr[w].dup \/ map[wr[w].lba] # wr[w].block
    /\ Release(w, wr[w].old)
    /\ UNCHANGED <<queue, reading, disk, index, table, insert_lock, cache, lost>>

\* BUG: the insert lock is not waited for.
BugDdInsert(w) ==
    /\ At(w, "dd")
    /\ wr[w].page # Zero /\ ~wr[w].disabled /\ ~wr[w].dup
    /\ map[wr[w].lba] = wr[w].block
    /\ insert_lock' = w
    /\ wr' = [wr EXCEPT ![w] = [wr[w] EXCEPT !.pc = "scan", !.node = 1]]
    /\ UNCHANGED <<queue, reading, disk, index, table, cache, lost>>

DdInsert(w) ==
    /\ At(w, "dd")
    /\ wr[w].page # Zero /\ ~wr[w].disabled /\ ~wr[w].dup
    /\ map[wr[w].lba] = wr[w].block
    /\ insert_lock = None
    /\ insert_lock' = w
    /\ wr' = [wr EXCEPT ![w] = [wr[w] EXCEPT !.pc = "scan", !.node = 1]]
    /\ UNCHANGED <<queue, reading, disk, index, table, cache, lost>>

\* ddtable_clear_invalid_entries: what node n still lists of w's block.
Cleared(w, n) == {e \in table[n] : e.block # wr[w].block}

\* ddtable_set_node_block, with the entries node n keeps.
ddtable_set_node_block(w, n, kept) ==
    LET b == wr[w].block
    IN  IF MayList(w)
        THEN /\ node_block' = [node_block EXCEPT ![b] = n]
             /\ table' = [table EXCEPT ![n] = kept \cup {[block |-> b, hash |-> wr[w].page]}]
        ELSE /\ table' = [table EXCEPT ![n] = Cleared(w, n)]
             /\ UNCHANGED node_block

\* An entry with the same hash is replaced.
ScanHit(w, e) ==
    LET n == wr[w].node
    IN  /\ At(w, "scan")
        /\ e \in table[n] /\ e.hash = wr[w].page
        /\ ddtable_set_node_block(w, n, Cleared(w, n) \ {e})
        /\ insert_lock' = None
        /\ Release(w, wr[w].old)
        /\ UNCHANGED <<queue, reading, disk, refs, cache, lost>>

\* ddtable_add_to_locate_spec: the first free slot, else the oldest entry.
LocateSpecs(w, n) ==
    LET spec == wr[w].spec
    IN  IF spec # None /\ spec.victim = None THEN {spec}
        ELSE IF Cardinality(table[n]) < Slots THEN {[node |-> n, victim |-> None]}
        ELSE {[node |-> n, victim |-> e] : e \in table[n]}
             \cup (IF spec = None THEN {} ELSE {spec})

ScanMiss(w) ==
    LET n == wr[w].node
    IN  /\ At(w, "scan")
        /\ \A e \in table[n] : e.hash # wr[w].page
        /\ \E s \in LocateSpecs(w, n) :
             wr' = [wr EXCEPT ![w] = [wr[w] EXCEPT
                       !.spec = s,
                       !.pc = IF n < Nodes THEN "scan" ELSE "insert",
                       !.node = IF n < Nodes THEN n + 1 ELSE n]]
        /\ UNCHANGED <<queue, reading, disk, index, table, insert_lock, cache, lost>>

ScanFails(w) ==
    /\ "table" \in Faults
    /\ At(w, "scan")
    /\ insert_lock' = None
    /\ Release(w, wr[w].old)
    /\ UNCHANGED <<queue, reading, disk, index, table, cache, lost>>

\* A slot that is free by now is taken before the one of the scan.
ddtable_ddlookup_insert_entry(w) ==
    LET n == wr[w].spec.node
        kept == Cleared(w, n)
    IN  /\ At(w, "insert")
        /\ ddtable_set_node_block(w, n,
               IF Cardinality(kept) < Slots THEN kept ELSE kept \ {wr[w].spec.victim})
        /\ insert_lock' = None
        /\ Release(w, wr[w].old)
        /\ UNCHANGED <<queue, reading, disk, refs, cache, lost>>

(***************************************************************************)
(* process_delete_block: release the block the lba was mapped to, or the    *)
(* block of a write that failed.                                            *)
(***************************************************************************)
\* BUG: the page of a block that is freed stays in the cache.
BugDeleteShared(w) ==
    LET b == wr[w].old
    IN  /\ At(w, "delete")
        /\ IF b = None
           THEN UNCHANGED index
           ELSE /\ refs[b] > 1 \/ node_block[b] = 0
                /\ bint_free_block(b)
        /\ End(w)
        /\ UNCHANGED <<reading, disk, table, insert_lock, cache, lost>>

\* More references are left, or no node lists the block.
DeleteShared(w) ==
    LET b == wr[w].old
    IN  /\ At(w, "delete")
        /\ IF b = None
           THEN UNCHANGED <<index, cache>>
           ELSE /\ refs[b] > 1 \/ node_block[b] = 0
                /\ bint_free_block(b)
                /\ IF refs[b] = 1 THEN rcache_remove(b) ELSE UNCHANGED cache
        /\ End(w)
        /\ UNCHANGED <<reading, disk, table, insert_lock, lost>>

DeleteListed(w) ==
    LET b == wr[w].old
    IN  /\ At(w, "delete")
        /\ b # None
        /\ refs[b] <= 1 /\ node_block[b] # 0
        /\ wr' = [wr EXCEPT ![w] = [wr[w] EXCEPT !.pc = "uncache", !.node = node_block[b]]]
        /\ UNCHANGED <<queue, reading, disk, index, table, insert_lock, cache, lost>>

Uncache(w) ==
    /\ At(w, "uncache")
    /\ rcache_remove(wr[w].old)
    /\ wr' = [wr EXCEPT ![w].pc = "free"]
    /\ UNCHANGED <<queue, reading, disk, index, table, insert_lock, lost>>

\* The node and then the index page are locked.  When the node cannot be read
\* the entry stays.
Free(w) ==
    LET b == wr[w].old
        n == wr[w].node
    IN  /\ At(w, "free")
        /\ bint_free_block(b)
        /\ \/ table' = IF refs[b] = 1
                       THEN [table EXCEPT ![n] = {e \in table[n] : e.block # b}] ELSE table
           \/ "table" \in Faults /\ UNCHANGED table
        /\ End(w)
        /\ UNCHANGED <<reading, disk, insert_lock, cache, lost>>

WriteStep(w) ==
    \/ LookupMiss(w) \/ LookupFails(w) \/ \E n \in 1..Nodes : \E e \in table[n] : LookupHit(w, e)
    \/ VerifyCached(w) \/ VerifyMiss(w) \/ VerifyRead(w) \/ VerifyFails(w)
    \/ \E b \in Block : Alloc(w, b)
    \/ AllocFails(w) \/ WriteData(w) \/ pgdata_amap_io(w) \/ pgdata_post_write(w)
    \/ pgdata_cancel(w)
    \/ DdSkip(w) \/ DdInsert(w)
    \/ ScanMiss(w) \/ ScanFails(w) \/ \E n \in 1..Nodes : \E e \in table[n] : ScanHit(w, e)
    \/ ddtable_ddlookup_insert_entry(w)
    \/ DeleteShared(w) \/ DeleteListed(w) \/ Uncache(w) \/ Free(w)

Next ==
    \/ \E w \in Write :
         \/ WriteStep(w)
         \/ \E l \in Lba, page \in Content \cup {Zero} : Begin(w, l, page)
    \/ \E l \in ReadLba : ReadStart(l) \/ ReadDone(l)
    \/ \E b \in Block : EvictStart(b)
    \/ EvictEnd

Spec == Init /\ [][Next]_vars

(***************************************************************************)
(* Properties.                                                              *)
(***************************************************************************)
Pc == {"idle", "lookup", "verify", "compare", "alloc", "data", "map", "mapped", "dd", "scan",
       "insert", "delete", "uncache", "free"}

LocateSpec == [node : 1..Nodes, victim : Entry \cup {None}]

Pgdata == [pc : Pc, lba : Lba \cup {None}, page : Content \cup {Zero, None},
           block : Block \cup {None}, old : Block \cup {None}, dup : BOOLEAN,
           disabled : BOOLEAN, node : 0..Nodes, spec : LocateSpec \cup {None}]

\* Types.  No count passes its limit: the 13 bits of a reference count in the
\* index entry, the slots of a node.
TypeOK ==
    /\ wr \in [Write -> Pgdata]
    /\ queue \in [Lba -> Write \cup {None}]
    /\ reading \subseteq Lba
    /\ map \in [Lba -> Block \cup {None}]
    /\ refs \in [Block -> 0..MaxRefs]
    /\ node_block \in [Block -> 0..Nodes]
    /\ data \in [Block -> Content \cup {None}]
    /\ table \in [1..Nodes -> SUBSET Entry]
    /\ \A n \in 1..Nodes : Cardinality(table[n]) <= Slots
    /\ insert_lock \in Write \cup {None}
    /\ rcache \in [Block -> Content \cup {None}]
    /\ evicting \in [block : Block, page : Content] \cup {None}
    /\ written \in [Lba -> Content \cup {Zero}]
    /\ lost \in [Block -> 0..MaxRefs]
    /\ stale \subseteq Block
    /\ recycled \subseteq Block

\* The block w holds a reference on: its own until it is mapped, then the one it
\* is going to release.
Claim(w) ==
    IF wr[w].pc \in {"verify", "compare", "data", "map"} THEN wr[w].block
    ELSE IF wr[w].pc \in {"mapped", "dd", "scan", "insert", "delete", "uncache", "free"}
    THEN wr[w].old
    ELSE None

Owners(b) == {l \in Lba : map[l] = b} \cup {w \in Write : Claim(w) = b}

\* The references of a block are the lbas mapped to it, the writes that hold one
\* and those failed duplicates did not give back, however lookups, listings,
\* verifies, releases and failures interleave: no block is freed in use
\* (bint_free_block), and none is lost except by pgdata_cancel.
RefsExact == \A b \in Block : refs[b] = Cardinality(Owners(b)) + lost[b]

\* An entry a lookup may take a reference through has the hash of the page its
\* block holds, although entries outlive their blocks and blocks are used again
\* before their old entries are gone.  Not claimed of a block in recycled.
EntryHonest ==
    \A n \in 1..Nodes : \A e \in table[n] :
        e.block \notin recycled /\ node_block[e.block] = n /\ refs[e.block] > 0
            => data[e.block] = e.hash

\* An lba no write holds reads as the last write that was answered, through the
\* read cache and from the disk, whichever disk wrote the block it shares.
ReadsBack ==
    \A l \in Lba : queue[l] = None /\ map[l] \notin recycled =>
        IF map[l] = None
        THEN written[l] = Zero
        ELSE /\ data[map[l]] = written[l]
             /\ Cached(map[l]) /\ map[l] \notin stale => rcache_locate(map[l]) = written[l]

\* A cached page is the page of a block in use: process_delete_block takes it out
\* before the block can be allocated again.  Not claimed of a block in stale.
CachedIsInUse ==
    \A b \in Block \ stale : Cached(b) => refs[b] > 0 /\ rcache_locate(b) = data[b]

\* A hash is listed once in its chain, whoever inserts it at the same time:
\* ddtable_hash_insert looks through the nodes before it fills a slot, and insert_lock
\* keeps a second insertion out meanwhile.
HashOnce ==
    \A m, n \in 1..Nodes : \A d \in table[m], e \in table[n] :
        d.hash = e.hash => m = n /\ d = e

\* The page of a block is written only while one write owns it: no lba is mapped
\* to it, no node lists it, and nobody else holds a reference.
InUseIsKept ==
    [][\A b \in Block : data'[b] # data[b] =>
         /\ refs[b] = 1 /\ node_block[b] = 0 /\ lost[b] = 0
         /\ \A l \in Lba : map[l] # b]_vars

=============================================================================
