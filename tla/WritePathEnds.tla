--------------------------- MODULE WritePathEnds ---------------------------
(***************************************************************************)
(* The steps of WritePath by which a write ends keep its invariant: the     *)
(* answer, the release of its lba and of a block, and the undoing of a      *)
(* failed write.                                                            *)
(***************************************************************************)
EXTENDS WritePathQuiet

USE WritePathAssumption

LEMMA AnswerKeepsUp ==
    ASSUME UpInv, NEW w \in Write, device_send_ccb(w)
    PROVE  /\ UpInv' /\ wr[w].lba \in Lba /\ queue[wr[w].lba] = w
           /\ data[amap.entry[wr[w].lba]] = w
           /\ acked' = [acked EXCEPT ![wr[w].lba] = w]
           /\ UNCHANGED <<queue, data, amap>>
<1> USE DEF Holding, Fresh, Unanswered, Placed, Keeping, Written
<1> DEFINE l == wr[w].lba
<1>0. Typed /\ wr[w] \in WriteRec /\ wr[w].pc = "ack" /\ l \in Lba /\ queue[l] = w
  BY DEF UpInv, Typed, device_send_ccb, At, LbaInv
<1>1. "post" \in Pc BY DEF Pc
<1>2. wr' = Goto(w, "post") BY DEF device_send_ccb
<1>3. /\ wr' \in [Write -> WriteRec] /\ wr'[w].pc = "post" /\ Same(wr'[w], wr[w])
      /\ \A v \in Write : v # w => wr'[v] = wr[v]
  BY <1>0, <1>1, <1>2, GotoFacts DEF Typed
<1>4. /\ acked' = [acked EXCEPT ![l] = w]
      /\ UNCHANGED <<queue, amap, index, data, mode, crashes>>
  BY DEF device_send_ccb, master
<1>5. acked'[l] = w /\ \A m \in Lba : m # l => acked'[m] = acked[m] BY <1>0, <1>4 DEF Typed
<1>6. data[amap.entry[l]] = w BY <1>0 DEF UpInv, DataInv
<1>7. Typed' BY <1>0, <1>3, <1>4 DEF Typed
<1>8. LbaInv' BY <1>0, <1>3, <1>4 DEF UpInv, LbaInv, Same
<1>9. \A v \in Write : \A c : Claims(v, c)' <=> Claims(v, c)
  BY <1>0, <1>3 DEF Claims, Same
<1>10. BlockInv' BY <1>0, <1>3, <1>4, <1>9 DEF UpInv, BlockInv, Same
<1>11. DataInv'
  <2>1. \A v \in Write : wr'[v].pc \in Placed => amap'.entry[wr'[v].lba] = wr'[v].block
    BY <1>0, <1>3, <1>4 DEF UpInv, DataInv, Same
  <2>2. \A v \in Write : wr'[v].pc \in Written => data'[wr'[v].block] = v
    BY <1>0, <1>3, <1>4 DEF UpInv, DataInv, Same
  <2>3. ASSUME NEW v \in Write, wr'[v].pc \in Unanswered \cup {"post"}, v # w
        PROVE  wr'[v] = wr[v] /\ acked'[wr[v].lba] = acked[wr[v].lba]
    <3>1. wr'[v] = wr[v] BY <1>3, <2>3
    <3>2. wr[v].lba \in Lba /\ queue[wr[v].lba] = v BY <2>3, <3>1 DEF UpInv, LbaInv
    <3> QED BY <1>0, <1>5, <2>3, <3>1, <3>2
  <2>4. \A v \in Write : wr'[v].pc \in Unanswered => data'[wr'[v].old] = acked'[wr'[v].lba]
    BY <1>3, <1>4, <2>3 DEF UpInv, DataInv
  <2>5. \A v \in Write : wr'[v].pc = "post" => acked'[wr'[v].lba] = v
    BY <1>3, <1>5, <2>3 DEF UpInv, DataInv, Same
  <2>6. \A m \in Lba : \/ queue'[m] \in Write /\ wr'[queue'[m]].pc \in Placed
                       \/ data'[amap'.entry[m]] = acked'[m]
    BY <1>0, <1>3, <1>4, <1>5 DEF UpInv, DataInv
  <2> QED BY <2>1, <2>2, <2>4, <2>5, <2>6 DEF DataInv
<1> QED BY <1>0, <1>4, <1>6, <1>7, <1>8, <1>10, <1>11 DEF UpInv

\* The write leaves the queue of its lba, which reads as the last answered write.
LEMMA EndKeepsUp ==
    ASSUME UpInv, NEW w \in Write, pgdata_post_write(w) \/ ErrorLog(w)
    PROVE  /\ UpInv' /\ wr[w].lba \in Lba /\ queue[wr[w].lba] = w
           /\ data[amap.entry[wr[w].lba]] = acked[wr[w].lba]
           /\ queue' = [queue EXCEPT ![wr[w].lba] = None]
           /\ UNCHANGED <<acked, data, amap>>
<1> USE DEF Holding, Fresh, Unanswered, Placed, Keeping, Written
<1> DEFINE l == wr[w].lba
<1>0. /\ Typed /\ wr[w] \in WriteRec /\ wr[w].pc \in {"post", "err_log"}
      /\ l \in Lba /\ queue[l] = w
  BY DEF UpInv, Typed, pgdata_post_write, ErrorLog, At, LbaInv
<1>1. /\ queue' = [queue EXCEPT ![l] = None]
      /\ UNCHANGED <<amap, index, data, acked, mode, crashes>>
  BY DEF pgdata_post_write, ErrorLog, master
<1>2. queue'[l] = None /\ \A m \in Lba : m # l => queue'[m] = queue[m]
  BY <1>0, <1>1 DEF Typed
<1>3. /\ wr' \in [Write -> WriteRec] /\ \A v \in Write : v # w => wr'[v] = wr[v]
      /\ \/ wr[w].pc = "post" /\ wr'[w].pc = "dd_alloc" /\ Same(wr'[w], wr[w])
         \/ wr[w].pc = "err_log" /\ wr'[w].pc = "failed"
  <2>1. CASE pgdata_post_write(w)
    <3>1. "dd_alloc" \in Pc BY DEF Pc
    <3>2. wr' = Goto(w, "dd_alloc") /\ wr[w].pc = "post"
      BY <2>1 DEF pgdata_post_write, At
    <3> QED BY <1>0, <3>1, <3>2, GotoFacts DEF Typed
  <2>2. CASE ErrorLog(w)
    <3>1. Over("failed") \in WriteRec /\ Over("failed").pc = "failed"
      BY DEF Over, Idle, WriteRec, Pc, IoState
    <3>2. wr' = [wr EXCEPT ![w] = Over("failed")] /\ wr[w].pc = "err_log"
      BY <2>2 DEF ErrorLog, At
    <3> QED BY <1>0, <3>1, <3>2, Put DEF Typed
  <2> QED BY <2>1, <2>2
<1>4. data[amap.entry[l]] = acked[l]
  BY <1>0 DEF UpInv, DataInv
<1> HIDE DEF l
<1>5. Typed' BY <1>0, <1>1, <1>3 DEF Typed
<1>6. LbaInv'
  <2>1. ASSUME NEW v \in Write, wr'[v].pc \in Holding
        PROVE  wr'[v].lba \in Lba /\ queue'[wr'[v].lba] = v
    <3>1. v # w /\ wr'[v] = wr[v] BY <2>1, <1>3
    <3>2. wr[v].lba \in Lba /\ queue[wr[v].lba] = v BY <2>1, <3>1 DEF UpInv, LbaInv
    <3> QED BY <1>0, <1>2, <3>1, <3>2
  <2>2. ASSUME NEW m \in Lba, queue'[m] \in Write
        PROVE  wr'[queue'[m]].lba = m /\ wr'[queue'[m]].pc \in Holding
    <3>1. m # l /\ queue'[m] = queue[m] BY <2>2, <1>2
    <3>2. wr[queue[m]].lba = m /\ wr[queue[m]].pc \in Holding
      BY <2>2, <3>1 DEF UpInv, LbaInv
    <3>3. queue[m] # w BY <3>1, <3>2 DEF l
    <3> QED BY <2>2, <3>1, <3>2, <3>3, <1>3
  <2> QED BY <2>1, <2>2 DEF LbaInv
<1>7. \A v \in Write : \A c : Claims(v, c)' <=> Claims(v, c)
  BY <1>0, <1>3 DEF Claims, Same
<1>8. BlockInv'
  <2>1. /\ \A v \in Write : wr'[v].pc \in Fresh \cup Placed => wr'[v].block \in Block
        /\ \A v \in Write : wr'[v].pc \in Keeping => wr'[v].old \in Block
    BY <1>3 DEF UpInv, BlockInv, Same
  <2> QED BY <1>1, <1>7, <2>1 DEF UpInv, BlockInv
<1>9. DataInv'
  <2>1. \A v \in Write : wr'[v].pc \in Written => v # w /\ wr'[v] = wr[v] BY <1>3
  <2>2. \A m \in Lba : \/ queue'[m] \in Write /\ wr'[queue'[m]].pc \in Placed
                       \/ data'[amap'.entry[m]] = acked'[m]
    <3>1. ASSUME NEW m \in Lba, m # l, queue[m] \in Write, wr[queue[m]].pc \in Placed
          PROVE  queue'[m] \in Write /\ wr'[queue'[m]].pc \in Placed
      <4>1. queue[m] # w BY <3>1 DEF UpInv, LbaInv, l
      <4> QED BY <1>2, <1>3, <3>1, <4>1
    <3> QED BY <1>1, <1>4, <3>1 DEF UpInv, DataInv
  <2> QED BY <1>1, <2>1, <2>2 DEF UpInv, DataInv
<1> QED BY <1>0, <1>1, <1>4, <1>5, <1>6, <1>8, <1>9 DEF UpInv, l

LEMMA FreeFacts ==
    ASSUME NEW refs \in [Block -> Nat], NEW b \in Block
    PROVE  /\ bint_free_block(refs, b) \in [Block -> Nat]
           /\ \A c \in Block : c # b => bint_free_block(refs, b)[c] = refs[c]
<1>1. CASE refs[b] = 0 BY <1>1 DEF bint_free_block
<1>2. CASE refs[b] # 0 BY <1>2 DEF bint_free_block
<1> QED BY <1>1, <1>2

\* The new block of a failed write, or the old block of one that is over, is released.
LEMMA ReleaseKeepsUp ==
    ASSUME UpInv, NEW w \in Write, WriteFails(w) \/ DdDelete(w)
    PROVE  UpInv' /\ UNCHANGED <<queue, amap, data, acked>>
<1> USE DEF Holding, Fresh, Unanswered, Placed, Keeping, Written
<1> DEFINE b == IF wr[w].pc = "map" THEN wr[w].block ELSE wr[w].old
<1>0. /\ Typed /\ wr[w] \in WriteRec /\ index \in IndexPage /\ b \in Block
      /\ wr[w].pc \in {"map", "dd_delete"} /\ Claims(w, b)
  BY DEF UpInv, Typed, WriteFails, DdDelete, At, BlockInv, Claims
<1>1. UNCHANGED <<queue, amap, data, acked, mode, crashes>> BY DEF WriteFails, DdDelete
<1>2. index' = [index EXCEPT !.refs = bint_free_block(@, b), !.pend = @ + 1]
  BY DEF WriteFails, DdDelete, At
<1>3. /\ wr' \in [Write -> WriteRec] /\ \A v \in Write : v # w => wr'[v] = wr[v]
      /\ Same(wr'[w], wr[w])
      /\ \/ wr[w].pc = "map" /\ wr'[w].pc = "err_free"
         \/ wr[w].pc = "dd_delete" /\ wr'[w].pc = "dd_sync"
  <2>1. CASE WriteFails(w)
    <3>1. "err_free" \in Pc BY DEF Pc
    <3>2. wr' = Goto(w, "err_free") /\ wr[w].pc = "map" BY <2>1 DEF WriteFails, At
    <3> QED BY <1>0, <3>1, <3>2, GotoFacts DEF Typed
  <2>2. CASE DdDelete(w)
    <3> DEFINE r == [wr[w] EXCEPT !.pc = "dd_sync", !.del = "wait"]
    <3>1. r \in WriteRec /\ r.pc = "dd_sync" /\ Same(r, wr[w])
      BY <1>0 DEF WriteRec, Pc, IoState, Same
    <3>2. wr' = [wr EXCEPT ![w] = r] /\ wr[w].pc = "dd_delete"
      BY <1>0, <2>2 DEF Typed, DdDelete, At
    <3> HIDE DEF r
    <3> QED BY <1>0, <3>1, <3>2, Put DEF Typed
  <2> QED BY <2>1, <2>2
<1> HIDE DEF b
<1>4. index' \in IndexPage /\ \A c \in Block : c # b => index'.refs[c] = index.refs[c]
  <2>1. index.refs \in [Block -> Nat] BY <1>0 DEF IndexPage
  <2> DEFINE refs == bint_free_block(index.refs, b)
  <2>2. refs \in [Block -> Nat] /\ \A c \in Block : c # b => refs[c] = index.refs[c]
    BY <1>0, <2>1, FreeFacts
  <2>3. index' = [index EXCEPT !.refs = refs, !.pend = @ + 1] BY <1>2
  <2> HIDE DEF refs
  <2> DEFINE x == [index EXCEPT !.refs = refs]
  <2>4. x \in IndexPage /\ x.refs = refs BY <1>0, <2>2 DEF IndexPage
  <2>5. index' = [x EXCEPT !.pend = @ + 1] BY <1>0, <2>3 DEF IndexPage
  <2> HIDE DEF x
  <2>6. index' \in IndexPage /\ index'.refs = refs BY <2>4, <2>5 DEF IndexPage
  <2> QED BY <2>2, <2>6
<1>5. Typed' BY <1>0, <1>1, <1>3, <1>4 DEF Typed
<1>6. LbaInv' BY <1>0, <1>1, <1>3 DEF UpInv, LbaInv, Same
<1>7. BlockInv'
  <2>1. \A l \in Lba : amap.entry[l] \in Block /\ amap.entry[l] # b
    BY <1>0 DEF UpInv, BlockInv, Typed, MapPage
  <2>2. \A v \in Write : \A c : v # w => (Claims(v, c)' <=> Claims(v, c))
    BY <1>3 DEF Claims
  <2>3. \A c : ~ Claims(w, c)' BY <1>3 DEF Claims
  <2>4. /\ \A v \in Write : wr'[v].pc \in Fresh \cup Placed => wr'[v].block \in Block
        /\ \A v \in Write : wr'[v].pc \in Keeping => wr'[v].old \in Block
    BY <1>3 DEF UpInv, BlockInv
  <2>5. \A l \in Lba : index'.refs[amap'.entry[l]] >= 1
    BY <1>1, <1>4, <2>1 DEF UpInv, BlockInv
  <2>6. ASSUME NEW v \in Write, NEW c \in Block, Claims(v, c)'
        PROVE  /\ index'.refs[c] >= 1
               /\ \A l \in Lba : amap'.entry[l] # c
               /\ \A u \in Write : Claims(u, c)' => u = v
    <3>1. v # w /\ Claims(v, c) BY <2>2, <2>3, <2>6
    <3>2. c # b BY <1>0, <3>1 DEF UpInv, BlockInv
    <3>3. /\ index.refs[c] >= 1
          /\ \A l \in Lba : amap.entry[l] # c
          /\ \A u \in Write : Claims(u, c) => u = v
      BY <3>1 DEF UpInv, BlockInv
    <3> QED BY <1>1, <1>4, <2>2, <2>3, <3>2, <3>3
  <2> QED BY <1>1, <2>4, <2>5, <2>6 DEF UpInv, BlockInv
<1>8. DataInv' BY <1>0, <1>1, <1>3 DEF UpInv, DataInv
<1> QED BY <1>1, <1>5, <1>6, <1>7, <1>8 DEF UpInv

LEMMA UndoKeepsUp ==
    ASSUME UpInv, NEW w \in Write, MirrorFails(w)
    PROVE  /\ UpInv' /\ wr[w].lba \in Lba /\ queue[wr[w].lba] = w
           /\ data'[amap'.entry[wr[w].lba]] = acked[wr[w].lba]
           /\ \A l \in Lba : l # wr[w].lba => data'[amap'.entry[l]] = data[amap.entry[l]]
           /\ UNCHANGED <<queue, acked>>
<1> USE DEF Holding, Fresh, Unanswered, Placed, Keeping, Written
<1> DEFINE b == wr[w].block
           l == wr[w].lba
           o == wr[w].old
           rewrite == write_id_greater(amap.id, wr[w].aid)
           pc == IF rewrite THEN "err_amap" ELSE "err_index"
<1>0. /\ Typed /\ wr[w] \in WriteRec /\ wr[w].pc = "answer" /\ b \in Block /\ o \in Block
      /\ l \in Lba /\ queue[l] = w /\ amap \in MapPage /\ index \in IndexPage
  BY DEF UpInv, Typed, MirrorFails, At, BlockInv, LbaInv
<1>1. UNCHANGED <<queue, data, acked, mode, crashes>> BY DEF MirrorFails
<1>2. /\ amap' = [amap EXCEPT !.entry[l] = o, !.pend = IF rewrite THEN @ + 1 ELSE @]
      /\ wr' = [wr EXCEPT ![w] = [@ EXCEPT !.pc = pc,
                                         !.amap = IF rewrite THEN "wait" ELSE wr[w].amap]]
      /\ index' = [index EXCEPT !.refs = bint_free_block(@, b), !.pend = @ + 1]
  BY DEF MirrorFails
<1>3. pc \in Pc /\ pc \in Holding /\ pc \notin Fresh \cup Keeping \cup Written
  BY DEF Pc
<1> HIDE DEF rewrite, pc, b, l, o
<1>4. wr' \in [Write -> WriteRec] /\ wr'[w].pc = pc /\ Same(wr'[w], wr[w])
      /\ \A v \in Write : v # w => wr'[v] = wr[v]
  <2> DEFINE q == IF rewrite THEN "wait" ELSE wr[w].amap
             r == [wr[w] EXCEPT !.pc = pc, !.amap = q]
  <2>1. q \in IoState BY <1>0 DEF WriteRec, IoState
  <2>2. wr' = [wr EXCEPT ![w] = r] BY <1>0, <1>2 DEF Typed, WriteRec
  <2> HIDE DEF q
  <2>3. r \in WriteRec /\ r.pc = pc /\ Same(r, wr[w]) BY <1>0, <1>3, <2>1 DEF WriteRec, Same
  <2> HIDE DEF r
  <2> QED BY <1>0, <2>2, <2>3, Put DEF Typed
<1>5. amap' \in MapPage /\ amap'.entry = [amap.entry EXCEPT ![l] = o]
  <2> DEFINE a == [amap EXCEPT !.entry[l] = o]
  <2>1. a \in MapPage /\ a.entry = [amap.entry EXCEPT ![l] = o] BY <1>0 DEF MapPage
  <2>2. amap' = [a EXCEPT !.pend = IF rewrite THEN @ + 1 ELSE @] BY <1>0, <1>2 DEF MapPage
  <2> HIDE DEF a
  <2> QED BY <2>1, <2>2 DEF MapPage
<1>6. amap'.entry[l] = o /\ \A m \in Lba : m # l => amap'.entry[m] = amap.entry[m]
  BY <1>0, <1>5 DEF MapPage
<1>7. index' \in IndexPage /\ \A c \in Block : c # b => index'.refs[c] = index.refs[c]
  <2>1. index.refs \in [Block -> Nat] BY <1>0 DEF IndexPage
  <2> DEFINE refs == bint_free_block(index.refs, b)
             x == [index EXCEPT !.refs = refs]
  <2>2. refs \in [Block -> Nat] /\ \A c \in Block : c # b => refs[c] = index.refs[c]
    BY <1>0, <2>1, FreeFacts
  <2>3. index' = [index EXCEPT !.refs = refs, !.pend = @ + 1] BY <1>2
  <2> HIDE DEF refs
  <2>4. x \in IndexPage /\ x.refs = refs BY <1>0, <2>2 DEF IndexPage
  <2>5. index' = [x EXCEPT !.pend = @ + 1] BY <1>0, <2>3 DEF IndexPage
  <2> HIDE DEF x
  <2>6. index' \in IndexPage /\ index'.refs = refs BY <2>4, <2>5 DEF IndexPage
  <2> QED BY <2>2, <2>6
<1>8. /\ Claims(w, o) /\ amap.entry[l] = b /\ data[o] = acked[l]
      /\ \A m \in Lba : amap.entry[m] \in Block /\ amap.entry[m] # o
      /\ \A m \in Lba : m # l => amap.entry[m] # b
      /\ \A v \in Write : ~ Claims(v, b)
      /\ \A v \in Write : Claims(v, o) => v = w
      /\ index.refs[o] >= 1 /\ o # b
  <2>1. Claims(w, o) /\ amap.entry[l] = b /\ data[o] = acked[l]
    BY <1>0 DEF Claims, UpInv, DataInv, b, l, o
  <2>2. \A m \in Lba : amap.entry[m] \in Block BY <1>0 DEF MapPage
  <2> QED BY <1>0, <2>1, <2>2 DEF UpInv, BlockInv
<1>9. Typed' BY <1>0, <1>1, <1>4, <1>5, <1>7 DEF Typed
<1>10. LbaInv' BY <1>0, <1>1, <1>3, <1>4 DEF UpInv, LbaInv, Same
<1>11. BlockInv'
  <2>1. \A v \in Write : \A c : v # w => (Claims(v, c)' <=> Claims(v, c))
    BY <1>4 DEF Claims
  <2>2. \A c : ~ Claims(w, c)' BY <1>3, <1>4 DEF Claims
  <2>3. /\ \A v \in Write : wr'[v].pc \in Fresh \cup Placed => wr'[v].block \in Block
        /\ \A v \in Write : wr'[v].pc \in Keeping => wr'[v].old \in Block
    BY <1>3, <1>4 DEF UpInv, BlockInv
  <2>4. \A m \in Lba : index'.refs[amap'.entry[m]] >= 1
    BY <1>0, <1>6, <1>7, <1>8 DEF UpInv, BlockInv
  <2>5. \A m, n \in Lba : amap'.entry[m] = amap'.entry[n] => m = n
    BY <1>6, <1>8 DEF UpInv, BlockInv
  <2>6. ASSUME NEW v \in Write, NEW c \in Block, Claims(v, c)'
        PROVE  /\ index'.refs[c] >= 1
               /\ \A m \in Lba : amap'.entry[m] # c
               /\ \A u \in Write : Claims(u, c)' => u = v
    <3>1. v # w /\ Claims(v, c) BY <2>1, <2>2, <2>6
    <3>2. c # b /\ c # o BY <1>8, <3>1
    <3>3. /\ index.refs[c] >= 1
          /\ \A m \in Lba : amap.entry[m] # c
          /\ \A u \in Write : Claims(u, c) => u = v
      BY <3>1 DEF UpInv, BlockInv
    <3> QED BY <1>6, <1>7, <2>1, <2>2, <3>2, <3>3
  <2> QED BY <2>3, <2>4, <2>5, <2>6 DEF BlockInv
<1>12. DataInv'
  <2>1. \A v \in Write : wr'[v].pc \in Written => v # w /\ wr'[v] = wr[v] BY <1>3, <1>4
  <2>2. ASSUME NEW v \in Write, wr'[v].pc \in Placed
        PROVE  amap'.entry[wr'[v].lba] = wr'[v].block
    <3>1. v # w /\ wr'[v] = wr[v] BY <2>1, <2>2
    <3>2. wr[v].lba \in Lba /\ queue[wr[v].lba] = v BY <2>2, <3>1 DEF UpInv, LbaInv
    <3>3. wr[v].lba # l BY <1>0, <3>1, <3>2
    <3> QED BY <1>6, <2>2, <3>1, <3>2, <3>3 DEF UpInv, DataInv
  <2>3. ASSUME NEW m \in Lba
        PROVE  \/ queue'[m] \in Write /\ wr'[queue'[m]].pc \in Placed
               \/ data'[amap'.entry[m]] = acked'[m]
    <3>1. CASE m = l BY <3>1, <1>1, <1>6, <1>8
    <3>2. CASE m # l /\ queue[m] \in Write /\ wr[queue[m]].pc \in Placed
      <4>1. queue[m] # w BY <3>2 DEF UpInv, LbaInv, l
      <4> QED BY <1>1, <1>4, <3>2, <4>1
    <3>3. CASE m # l /\ data[amap.entry[m]] = acked[m] BY <3>3, <1>1, <1>6
    <3> QED BY <3>1, <3>2, <3>3 DEF UpInv, DataInv
  <2> QED BY <1>1, <2>1, <2>2, <2>3 DEF UpInv, DataInv
<1>13. \A m \in Lba : m # l => data'[amap'.entry[m]] = data[amap.entry[m]] BY <1>1, <1>6
<1>14. data'[amap'.entry[l]] = acked[l] BY <1>1, <1>6, <1>8
<1> QED BY <1>0, <1>1, <1>9, <1>10, <1>11, <1>12, <1>13, <1>14 DEF UpInv, l

=============================================================================
