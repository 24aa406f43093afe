-------------------------- MODULE WritePathQuiet ---------------------------
(***************************************************************************)
(* The invariant of WritePath while its master has not crashed, for any sets*)
(* of writes, lbas and blocks, and the steps that leave the lbas, blocks and*)
(* data with the writes that have them.                                     *)
(***************************************************************************)
EXTENDS WritePath, TLAPS

USE WritePathAssumption

Pc == {"idle", "alloc", "data", "map", "start", "log", "end", "answer", "ack", "post",
       "dd_alloc", "dd_delete", "dd_sync", "dd_wait", "dd_complete", "done", "failed",
       "err_free", "err_amap", "err_index", "err_complete", "err_log"}

IoState == {"none", "wait", "issued", "done"}

WriteRec == [pc : Pc, lba : Lba \cup {None}, block : Block \cup {None}, old : Block \cup {None},
             aid : Int, iid : Int, amap : IoState, alloc : IoState, del : IoState]

MapPage == [entry : [Lba -> Block], id : Int, pend : Int, need : BOOLEAN]

IndexPage == [refs : [Block -> Nat], id : Int, pend : Int]

Typed ==
    /\ wr \in [Write -> WriteRec]
    /\ queue \in [Lba -> Write \cup {None}]
    /\ amap \in MapPage
    /\ index \in IndexPage
    /\ data \in [Block -> Write \cup Lba \cup {None}]
    /\ acked \in [Lba -> Write \cup Lba]

(***************************************************************************)
(* Where a write is, by what it has.                                        *)
(***************************************************************************)
Holding == {"alloc", "data", "map", "start", "log", "end", "answer", "ack", "post",
            "err_free", "err_amap", "err_index", "err_complete", "err_log"}  \* its lba

Fresh == {"data", "map"}                                  \* a block no lba is mapped to

Unanswered == {"start", "log", "end", "answer", "ack"}    \* its block mapped, no answer

Placed == Unanswered \cup {"post"}                        \* its block mapped

Keeping == Placed \cup {"dd_alloc", "dd_delete"}          \* the old block, not released

Written == {"map"} \cup Placed                            \* its data in its block

\* The blocks that are in use though no lba is mapped to them.
Claims(w, b) ==
    \/ wr[w].pc \in Fresh /\ wr[w].block = b
    \/ wr[w].pc \in Keeping /\ wr[w].old = b

(***************************************************************************)
(* The invariant without crashes.                                           *)
(***************************************************************************)
LbaInv ==
    /\ \A w \in Write : wr[w].pc \in Holding => wr[w].lba \in Lba /\ queue[wr[w].lba] = w
    /\ \A l \in Lba : queue[l] \in Write => wr[queue[l]].lba = l /\ wr[queue[l]].pc \in Holding

BlockInv ==
    /\ \A w \in Write : wr[w].pc \in Fresh \cup Placed => wr[w].block \in Block
    /\ \A w \in Write : wr[w].pc \in Keeping => wr[w].old \in Block
    /\ \A l \in Lba : index.refs[amap.entry[l]] >= 1
    /\ \A l, m \in Lba : amap.entry[l] = amap.entry[m] => l = m
    /\ \A w \in Write, b \in Block : Claims(w, b) =>
          /\ index.refs[b] >= 1
          /\ \A l \in Lba : amap.entry[l] # b
          /\ \A v \in Write : Claims(v, b) => v = w

DataInv ==
    /\ \A w \in Write : wr[w].pc \in Placed => amap.entry[wr[w].lba] = wr[w].block
    /\ \A w \in Write : wr[w].pc \in Written => data[wr[w].block] = w
    /\ \A w \in Write : wr[w].pc \in Unanswered => data[wr[w].old] = acked[wr[w].lba]
    /\ \A w \in Write : wr[w].pc = "post" => acked[wr[w].lba] = w
    /\ \A l \in Lba : \/ queue[l] \in Write /\ wr[queue[l]].pc \in Placed
                      \/ data[amap.entry[l]] = acked[l]

UpInv == mode = "up" /\ crashes = 0 /\ Typed /\ LbaInv /\ BlockInv /\ DataInv

LEMMA InitUp == Init => UpInv
<1> SUFFICES ASSUME Init PROVE UpInv OBVIOUS
<1>1. Idle \in WriteRec /\ Idle.pc = "idle" BY DEF Idle, WriteRec, Pc, IoState
<1>2. \A w \in Write : wr[w] = Idle BY DEF Init
<1>3. ASSUME NEW l \in Lba PROVE data[InitMap[l]] = l
  <2>1. InitMap[l] \in Block OBVIOUS
  <2>2. \E m \in Lba : InitMap[m] = InitMap[l] OBVIOUS
  <2>3. data[InitMap[l]] = CHOOSE m \in Lba : InitMap[m] = InitMap[l]
    BY <2>1, <2>2 DEF Init
  <2>4. (CHOOSE m \in Lba : InitMap[m] = InitMap[l]) = l BY <2>2
  <2> QED BY <2>3, <2>4
<1>4. Typed
  <2>1. data \in [Block -> Write \cup Lba \cup {None}]
    <3>1. ASSUME NEW b \in Block, \E l \in Lba : InitMap[l] = b
          PROVE  (CHOOSE l \in Lba : InitMap[l] = b) \in Lba
      BY <3>1
    <3> QED BY <3>1 DEF Init
  <2>2. amap \in MapPage BY DEF Init, MapPage
  <2>3. index \in IndexPage BY DEF Init, IndexPage, InitRefs
  <2>4. wr \in [Write -> WriteRec] BY <1>1 DEF Init
  <2> QED BY <2>1, <2>2, <2>3, <2>4 DEF Init, Typed
<1>5. LbaInv BY <1>1, <1>2 DEF Init, LbaInv, Holding
<1>6. BlockInv
  <2>1. \A w \in Write : wr[w].pc \notin Fresh \cup Placed \cup Keeping
    BY <1>1, <1>2 DEF Fresh, Placed, Keeping, Unanswered
  <2>2. amap.entry = InitMap /\ index.refs = InitRefs BY DEF Init
  <2>3. \A l \in Lba : InitRefs[InitMap[l]] = 1 BY DEF InitRefs
  <2> QED BY <2>1, <2>2, <2>3 DEF BlockInv, Claims
<1>7. DataInv
  <2>1. \A w \in Write : wr[w].pc \notin Placed \cup Written \cup Unanswered \cup {"post"}
    BY <1>1, <1>2 DEF Written, Placed, Unanswered
  <2>2. amap.entry = InitMap /\ \A l \in Lba : acked[l] = l BY DEF Init
  <2> QED BY <1>3, <2>1, <2>2 DEF DataInv
<1> QED BY <1>4, <1>5, <1>6, <1>7 DEF UpInv, Init

-----------------------------------------------------------------------------
(* Records.                                                                 *)

LEMMA Put ==
    ASSUME wr \in [Write -> WriteRec], NEW w \in Write, NEW r \in WriteRec
    PROVE  /\ [wr EXCEPT ![w] = r] \in [Write -> WriteRec]
           /\ [wr EXCEPT ![w] = r][w] = r
           /\ \A v \in Write : v # w => [wr EXCEPT ![w] = r][v] = wr[v]
  OBVIOUS

\* Two records with the same lba and blocks.
Same(r, s) == r.lba = s.lba /\ r.block = s.block /\ r.old = s.old

LEMMA GotoFacts ==
    ASSUME wr \in [Write -> WriteRec], NEW w \in Write, NEW pc \in Pc
    PROVE  /\ Goto(w, pc) \in [Write -> WriteRec]
           /\ Goto(w, pc)[w].pc = pc /\ Same(Goto(w, pc)[w], wr[w])
           /\ \A v \in Write : v # w => Goto(w, pc)[v] = wr[v]
  BY DEF Goto, WriteRec, Same

LEMMA MarkedFacts ==
    ASSUME NEW ws \in [Write -> WriteRec], NEW f \in {"amap", "alloc", "del"}
    PROVE  /\ Marked(ws, f) \in [Write -> WriteRec]
           /\ \A v \in Write : Marked(ws, f)[v].pc = ws[v].pc /\ Same(Marked(ws, f)[v], ws[v])
<1>1. CASE f = "amap" BY <1>1 DEF Marked, WriteRec, Same, IoState
<1>2. CASE f = "alloc" BY <1>2 DEF Marked, WriteRec, Same, IoState
<1>3. CASE f = "del" BY <1>3 DEF Marked, WriteRec, Same, IoState
<1> QED BY <1>1, <1>2, <1>3

LEMMA CompletedFacts ==
    ASSUME NEW ws \in [Write -> WriteRec], NEW f \in {"amap", "alloc", "del"}
    PROVE  /\ Completed(ws, f) \in [Write -> WriteRec]
           /\ \A v \in Write :
                 Completed(ws, f)[v].pc = ws[v].pc /\ Same(Completed(ws, f)[v], ws[v])
<1>1. CASE f = "amap" BY <1>1 DEF Completed, WriteRec, Same, IoState
<1>2. CASE f = "alloc" BY <1>2 DEF Completed, WriteRec, Same, IoState
<1>3. CASE f = "del" BY <1>3 DEF Completed, WriteRec, Same, IoState
<1> QED BY <1>1, <1>2, <1>3

-----------------------------------------------------------------------------
(***************************************************************************)
(* Steps that move writes between places of the same kind.                  *)
(***************************************************************************)
Alike(p, q) ==
    /\ p \in Holding <=> q \in Holding
    /\ p \in Fresh <=> q \in Fresh
    /\ p \in Unanswered <=> q \in Unanswered
    /\ p \in Placed <=> q \in Placed
    /\ p \in Keeping <=> q \in Keeping
    /\ p \in Written <=> q \in Written
    /\ p = "post" <=> q = "post"

\* The write is in the same kind of place, with the same lba and blocks if any.
Stays(r, s) == Alike(r.pc, s.pc) /\ (r.pc \in Holding \cup Keeping => Same(s, r))

Quiet ==
    /\ UNCHANGED <<queue, data, acked, mode, crashes>>
    /\ amap' \in MapPage /\ amap'.entry = amap.entry
    /\ index' \in IndexPage /\ index'.refs = index.refs
    /\ wr' \in [Write -> WriteRec]
    /\ \A v \in Write : Stays(wr[v], wr'[v])

LEMMA QuietKeepsUp == ASSUME UpInv, Quiet PROVE UpInv'
<1>1. \A v \in Write : Alike(wr[v].pc, wr'[v].pc) BY DEF Quiet, Stays
<1>2. \A v \in Write : wr[v].pc \in Holding \cup Keeping => Same(wr'[v], wr[v])
  BY DEF Quiet, Stays
<1>3. Typed' BY DEF UpInv, Quiet, Typed
<1>4. Placed \subseteq Holding /\ Fresh \subseteq Holding /\ Written \subseteq Holding
      /\ Unanswered \subseteq Holding /\ "post" \in Holding
  BY DEF Holding, Fresh, Unanswered, Placed, Written
<1>5. LbaInv' BY <1>1, <1>2 DEF UpInv, Quiet, LbaInv, Alike, Same
<1>6. \A v \in Write : \A b : Claims(v, b)' <=> Claims(v, b)
  BY <1>1, <1>2, <1>4 DEF Claims, Alike, Same
<1>7. BlockInv'
  <2>1. /\ \A w \in Write : wr'[w].pc \in Fresh \cup Placed => wr'[w].block \in Block
        /\ \A w \in Write : wr'[w].pc \in Keeping => wr'[w].old \in Block
    BY <1>1, <1>2, <1>4 DEF UpInv, BlockInv, Alike, Same
  <2> QED BY <1>6, <2>1 DEF UpInv, BlockInv, Quiet
<1>8. DataInv'
  <2>1. \A w \in Write : wr'[w].pc \in Placed => amap.entry[wr'[w].lba] = wr'[w].block
    BY <1>1, <1>2, <1>4 DEF UpInv, DataInv, Alike, Same
  <2>2. \A w \in Write : wr'[w].pc \in Written => data[wr'[w].block] = w
    BY <1>1, <1>2, <1>4 DEF UpInv, DataInv, Alike, Same
  <2>3. \A w \in Write : wr'[w].pc \in Unanswered => data[wr'[w].old] = acked[wr'[w].lba]
    BY <1>1, <1>2, <1>4 DEF UpInv, DataInv, Alike, Same
  <2>4. \A w \in Write : wr'[w].pc = "post" => acked[wr'[w].lba] = w
    BY <1>1, <1>2, <1>4 DEF UpInv, DataInv, Alike, Same
  <2>5. \A l \in Lba : \/ queue[l] \in Write /\ wr'[queue[l]].pc \in Placed
                       \/ data[amap.entry[l]] = acked[l]
    BY <1>1 DEF UpInv, DataInv, Alike
  <2> QED BY <2>1, <2>2, <2>3, <2>4, <2>5 DEF DataInv, Quiet
<1> QED BY <1>3, <1>5, <1>7, <1>8 DEF UpInv, Quiet

Moved(ws) == ws \in [Write -> WriteRec] /\ \A v \in Write : Stays(wr[v], ws[v])

\* Going on to a place of the same kind.
LEMMA GotoMoves ==
    ASSUME Typed, NEW w \in Write, NEW pc \in Pc, Alike(wr[w].pc, pc)
    PROVE  Moved(Goto(w, pc))
<1>1. wr \in [Write -> WriteRec] BY DEF Typed
<1>2. /\ Goto(w, pc) \in [Write -> WriteRec]
      /\ Goto(w, pc)[w].pc = pc /\ Same(Goto(w, pc)[w], wr[w])
      /\ \A v \in Write : v # w => Goto(w, pc)[v] = wr[v]
  BY <1>1, GotoFacts
<1>3. \A v \in Write : Stays(wr[v], wr[v]) BY DEF Stays, Alike, Same
<1>4. Stays(wr[w], Goto(w, pc)[w]) BY <1>2 DEF Stays
<1> QED BY <1>2, <1>3, <1>4 DEF Moved

\* The state of an IO does not matter.
LEMMA MarkedMoves ==
    ASSUME NEW ws, Moved(ws), NEW f \in {"amap", "alloc", "del"}
    PROVE  Moved(Marked(ws, f)) /\ Moved(Completed(ws, f))
<1>1. ws \in [Write -> WriteRec] BY DEF Moved
<1>2. /\ Marked(ws, f) \in [Write -> WriteRec]
      /\ \A v \in Write : Marked(ws, f)[v].pc = ws[v].pc /\ Same(Marked(ws, f)[v], ws[v])
  BY <1>1, MarkedFacts
<1>3. /\ Completed(ws, f) \in [Write -> WriteRec]
      /\ \A v \in Write :
            Completed(ws, f)[v].pc = ws[v].pc /\ Same(Completed(ws, f)[v], ws[v])
  BY <1>1, CompletedFacts
<1> QED BY <1>2, <1>3 DEF Moved, Stays, Same

\* Group commit of the map page and of the index page.
LEMMA MapPageIo ==
    ASSUME NEW ws, Moved(ws), amap \in MapPage,
           \/ \E same \in BOOLEAN : amap_end_writes(ws, amap, same)
           \/ amap_end_writes_noio(ws, amap)
    PROVE  amap' \in MapPage /\ amap'.entry = amap.entry /\ Moved(wr')
<1>1. ASSUME NEW same \in BOOLEAN, amap_io(ws, amap, same)
      PROVE  amap' \in MapPage /\ amap'.entry = amap.entry /\ Moved(wr')
  <2>1. amap'.entry = amap.entry /\ amap' \in MapPage
    BY <1>1 DEF amap_io, MapPage, write_id_incr
  <2>2. wr' = Marked(ws, "amap") BY <1>1 DEF amap_io
  <2> QED BY <2>1, <2>2, MarkedMoves
<1>2. CASE /\ \/ amap' = [amap EXCEPT !.pend = @ - 1, !.need = TRUE]
              \/ amap' = [amap EXCEPT !.pend = @ - 1]
           /\ wr' = ws
  <2>1. ASSUME amap' = [amap EXCEPT !.pend = @ - 1, !.need = TRUE]
        PROVE  amap'.entry = amap.entry /\ amap' \in MapPage
    <3> DEFINE a == [amap EXCEPT !.pend = @ - 1]
    <3>1. a \in MapPage /\ a.entry = amap.entry BY DEF MapPage
    <3>2. amap' = [a EXCEPT !.need = TRUE] BY <2>1
    <3> HIDE DEF a
    <3> QED BY <3>1, <3>2 DEF MapPage
  <2>2. ASSUME amap' = [amap EXCEPT !.pend = @ - 1]
        PROVE  amap'.entry = amap.entry /\ amap' \in MapPage
    BY <2>2 DEF MapPage
  <2> QED BY <1>2, <2>1, <2>2
<1> QED BY <1>1, <1>2 DEF amap_end_writes, amap_end_writes_noio

LEMMA IndexPageIo ==
    ASSUME NEW ws, Moved(ws), NEW x \in IndexPage, index_end_writes(ws, x)
    PROVE  index' \in IndexPage /\ index'.refs = x.refs /\ Moved(wr')
<1>1. CASE x.pend = 1
  <2>1. index'.refs = x.refs /\ index' \in IndexPage
    BY <1>1 DEF index_end_writes, IndexPage, write_id_incr
  <2>2. wr' = Marked(Marked(ws, "alloc"), "del") BY <1>1 DEF index_end_writes
  <2>3. Moved(Marked(ws, "alloc")) BY MarkedMoves
  <2>4. Moved(wr') BY <2>2, <2>3, MarkedMoves
  <2> QED BY <2>1, <2>4
<1>2. CASE x.pend # 1
  <2>1. index'.refs = x.refs /\ index' \in IndexPage
    BY <1>2 DEF index_end_writes, IndexPage
  <2>2. wr' = ws BY <1>2 DEF index_end_writes
  <2> QED BY <2>1, <2>2
<1> QED BY <1>1, <1>2

LEMMA AlikePlaces ==
    /\ Alike("alloc", "err_free") /\ Alike("start", "log") /\ Alike("log", "end")
    /\ Alike("end", "answer") /\ Alike("answer", "ack") /\ Alike("dd_alloc", "dd_delete")
    /\ Alike("dd_sync", "dd_wait") /\ Alike("dd_wait", "dd_complete")
    /\ Alike("dd_complete", "done") /\ Alike("err_free", "err_index")
    /\ Alike("err_free", "err_complete") /\ Alike("err_amap", "err_index")
    /\ Alike("err_index", "err_complete") /\ Alike("err_complete", "err_log")
    /\ \A p : Alike(p, p)
    /\ "dd_complete" \notin Holding \cup Keeping
  BY DEF Alike, Holding, Fresh, Unanswered, Placed, Keeping, Written

LEMMA QuietSteps ==
    ASSUME UpInv, NEW w \in Write,
           \/ AllocFails(w) \/ node_pgdata_sync_start(w) \/ LogWrite(w)
           \/ sync_amap_list_pre(w) \/ node_pgdata_sync_client_done(w)
           \/ DdIndex(w) \/ DdSync(w) \/ DdClear(w) \/ node_pgdata_sync_complete(w)
           \/ amap_sync_list_free_error(w) \/ ErrorAmap(w) \/ ErrorIndex(w)
           \/ ErrorComplete(w)
    PROVE  Quiet
<1>0. Typed /\ wr \in [Write -> WriteRec] /\ amap \in MapPage /\ index \in IndexPage
  BY DEF UpInv, Typed
<1> USE AlikePlaces DEF Pc
<1>1. ASSUME NEW p \in Pc, NEW q \in Pc, Alike(p, q), At(w, p), wr' = Goto(w, q),
             UNCHANGED <<queue, data, acked, mode, crashes, amap, index>>
      PROVE  Quiet
  <2>1. Moved(Goto(w, q)) BY <1>0, <1>1, GotoMoves DEF At
  <2> QED BY <1>0, <1>1, <2>1 DEF Quiet, Moved
<1>2. CASE AllocFails(w) BY <1>1, <1>2 DEF AllocFails, master
<1>3. CASE node_pgdata_sync_start(w) BY <1>1, <1>3 DEF node_pgdata_sync_start, master
<1>4. CASE LogWrite(w) BY <1>1, <1>4 DEF LogWrite, master
<1>5. CASE node_pgdata_sync_client_done(w)
  BY <1>1, <1>5 DEF node_pgdata_sync_client_done, master
<1>6. CASE DdClear(w) BY <1>1, <1>6 DEF DdClear, master
<1>7. CASE ErrorComplete(w) BY <1>1, <1>7 DEF ErrorComplete, master
<1>8. CASE sync_amap_list_pre(w)
  <2>1. Moved(Goto(w, "answer")) BY <1>0, <1>8, GotoMoves DEF sync_amap_list_pre, At
  <2>2. amap_end_writes(Goto(w, "answer"), amap, FALSE) BY <1>8 DEF sync_amap_list_pre
  <2>3. amap' \in MapPage /\ amap'.entry = amap.entry /\ Moved(wr')
    BY <1>0, <2>1, <2>2, MapPageIo
  <2> QED BY <1>0, <1>8, <2>3 DEF sync_amap_list_pre, Quiet, Moved
<1>9. CASE ErrorAmap(w)
  <2>1. Moved(Goto(w, "err_index")) BY <1>0, <1>9, GotoMoves DEF ErrorAmap, At
  <2>2. amap_end_writes(Goto(w, "err_index"), amap, TRUE) BY <1>9 DEF ErrorAmap
  <2>3. amap' \in MapPage /\ amap'.entry = amap.entry /\ Moved(wr')
    BY <1>0, <2>1, <2>2, MapPageIo
  <2> QED BY <1>0, <1>9, <2>3 DEF ErrorAmap, Quiet, Moved
<1>10. CASE amap_sync_list_free_error(w)
  <2> DEFINE pc == IF wr[w].block = None THEN "err_complete" ELSE "err_index"
             r == [wr[w] EXCEPT !.amap = "none", !.pc = pc]
             ws == [wr EXCEPT ![w] = r]
  <2>1. wr[w] \in WriteRec /\ wr[w].pc = "err_free"
    BY <1>0, <1>10 DEF amap_sync_list_free_error, At
  <2>2. r \in WriteRec /\ r.pc = pc /\ Same(r, wr[w]) BY <2>1 DEF WriteRec, IoState, Same
  <2>3. amap_end_writes_noio(ws, amap)
    BY <1>0, <1>10 DEF amap_sync_list_free_error
  <2> HIDE DEF r
  <2>4. ws \in [Write -> WriteRec] /\ ws[w] = r /\ \A v \in Write : v # w => ws[v] = wr[v]
    BY <1>0, <2>2, Put
  <2> HIDE DEF ws
  <2>5. Stays(wr[w], ws[w]) BY <2>1, <2>2, <2>4 DEF Stays
  <2>6. \A v \in Write : Stays(wr[v], wr[v]) BY DEF Stays, Same
  <2>7. Moved(ws) BY <2>4, <2>5, <2>6 DEF Moved
  <2>8. amap' \in MapPage /\ amap'.entry = amap.entry /\ Moved(wr')
    BY <1>0, <2>3, <2>7, MapPageIo
  <2> QED BY <1>0, <1>10, <2>8 DEF amap_sync_list_free_error, Quiet, Moved
<1>11. CASE DdIndex(w)
  <2>1. Moved(Goto(w, "dd_delete")) BY <1>0, <1>11, GotoMoves DEF DdIndex, At
  <2>2. CASE wr[w].alloc = "wait"
    <3> DEFINE x == [index EXCEPT !.pend = @ + 1]
    <3>1. x \in IndexPage /\ x.refs = index.refs BY <1>0 DEF IndexPage
    <3>2. index_end_writes(Goto(w, "dd_delete"), x) BY <1>11, <2>2 DEF DdIndex
    <3> HIDE DEF x
    <3>3. index' \in IndexPage /\ index'.refs = index.refs /\ Moved(wr')
      BY <2>1, <3>1, <3>2, IndexPageIo
    <3> QED BY <1>0, <1>11, <3>3 DEF DdIndex, Quiet, Moved
  <2>3. CASE wr[w].alloc # "wait"
    BY <1>0, <1>11, <2>1, <2>3 DEF DdIndex, Quiet, Moved
  <2> QED BY <2>2, <2>3
<1>12. CASE DdSync(w)
  <2>1. Moved(Goto(w, "dd_wait")) BY <1>0, <1>12, GotoMoves DEF DdSync, At
  <2>2. index_end_writes(Goto(w, "dd_wait"), index) BY <1>12 DEF DdSync
  <2>3. index' \in IndexPage /\ index'.refs = index.refs /\ Moved(wr')
    BY <1>0, <2>1, <2>2, IndexPageIo
  <2> QED BY <1>0, <1>12, <2>3 DEF DdSync, Quiet, Moved
<1>13. CASE ErrorIndex(w)
  <2>1. Moved(Goto(w, "err_complete")) BY <1>0, <1>13, GotoMoves DEF ErrorIndex, At
  <2>2. index_end_writes(Goto(w, "err_complete"), index) BY <1>13 DEF ErrorIndex
  <2>3. index' \in IndexPage /\ index'.refs = index.refs /\ Moved(wr')
    BY <1>0, <2>1, <2>2, IndexPageIo
  <2> QED BY <1>0, <1>13, <2>3 DEF ErrorIndex, Quiet, Moved
<1>14. CASE node_pgdata_sync_complete(w)
  <2> DEFINE r == IF w \in Range(log) THEN [wr[w] EXCEPT !.pc = "done"] ELSE Over("done")
  <2>1. wr[w] \in WriteRec /\ wr[w].pc = "dd_complete"
    BY <1>0, <1>14 DEF node_pgdata_sync_complete, At
  <2>2. r \in WriteRec /\ r.pc = "done" BY <2>1 DEF WriteRec, Over, Idle, IoState
  <2>3. wr' = [wr EXCEPT ![w] = r] BY <1>0, <1>14 DEF node_pgdata_sync_complete
  <2> HIDE DEF r
  <2>4. wr' \in [Write -> WriteRec] /\ wr'[w] = r /\ \A v \in Write : v # w => wr'[v] = wr[v]
    BY <1>0, <2>2, <2>3, Put
  <2>5. \A v \in Write : Stays(wr[v], wr'[v])
    BY <2>1, <2>2, <2>4 DEF Stays, Same
  <2> QED BY <1>0, <1>14, <2>4, <2>5 DEF node_pgdata_sync_complete, Quiet, master
<1> QED BY <1>2, <1>3, <1>4, <1>5, <1>6, <1>7, <1>8, <1>9, <1>10, <1>11, <1>12, <1>13, <1>14

LEMMA QuietDevice == ASSUME UpInv, Device PROVE Quiet
<1>0. Typed /\ wr \in [Write -> WriteRec] /\ amap \in MapPage /\ index \in IndexPage
  BY DEF UpInv, Typed
<1>1. Moved(wr) BY <1>0 DEF Moved, Stays, Alike, Same
<1>2. CASE handle_amap_sync_post \/ handle_bintindex_sync_post
  BY <1>0, <1>1, <1>2 DEF handle_amap_sync_post, handle_bintindex_sync_post, master,
                          Quiet, Moved
<1>3. CASE amap_end_bio
  <2>1. Moved(wr') BY <1>1, <1>3, MarkedMoves DEF amap_end_bio
  <2> QED BY <1>0, <1>3, <2>1 DEF amap_end_bio, Quiet, Moved
<1>4. CASE subgroup_end_bio
  <2>1. Moved(Completed(wr, "alloc")) BY <1>1, MarkedMoves
  <2>2. Moved(wr') BY <1>4, <2>1, MarkedMoves DEF subgroup_end_bio
  <2> QED BY <1>0, <1>4, <2>2 DEF subgroup_end_bio, Quiet, Moved
<1>5. CASE get_free_log_page
  <2> DEFINE w == Head(log)
  <2>1. wr' = [wr EXCEPT ![w] = IF wr[w].pc = "done" THEN Over("done") ELSE wr[w]]
    BY <1>5 DEF get_free_log_page
  <2>2. Over("done") \in WriteRec /\ Over("done").pc = "done"
    BY DEF Over, Idle, WriteRec, Pc, IoState
  <2> HIDE DEF w
  <2>3. wr' \in [Write -> WriteRec] BY <1>0, <2>1, <2>2
  <2>4. ASSUME NEW v \in Write PROVE Stays(wr[v], wr'[v])
    <3>1. wr'[v] = wr[v] \/ (wr[v].pc = "done" /\ wr'[v] = Over("done")) BY <1>0, <2>1
    <3> QED BY <1>1, <2>2, <3>1 DEF Moved, Stays, Alike, Holding, Keeping, Placed, Unanswered
  <2> QED BY <1>0, <1>5, <2>3, <2>4 DEF get_free_log_page, master, Quiet
<1> QED BY <1>2, <1>3, <1>4, <1>5 DEF Device

=============================================================================
