-------------------------- MODULE WritePathBlocks --------------------------
(***************************************************************************)
(* The steps of WritePath by which a write takes its lba, takes a block,    *)
(* fills it and maps it keep its invariant.                                 *)
(***************************************************************************)
EXTENDS WritePathQuiet

USE WritePathAssumption

LEMMA BeginKeepsUp ==
    ASSUME UpInv, NEW w \in Write, NEW l \in Lba, Begin(w, l)
    PROVE  UpInv' /\ Disk!Start(l, w)
<1> USE DEF Holding, Fresh, Unanswered, Placed, Keeping, Written
<1>0. Typed /\ wr[w] \in WriteRec /\ wr[w].pc = "idle" /\ queue[l] = None
  BY DEF UpInv, Typed, Begin, At
<1> DEFINE r == [wr[w] EXCEPT !.pc = "alloc", !.lba = l, !.amap = "wait"]
<1>1. r \in WriteRec /\ r.pc = "alloc" /\ r.lba = l BY <1>0 DEF WriteRec, Pc, IoState
<1>2. wr' = [wr EXCEPT ![w] = r] BY <1>0 DEF Typed, Begin
<1> HIDE DEF r
<1>3. wr' \in [Write -> WriteRec] /\ wr'[w] = r /\ \A v \in Write : v # w => wr'[v] = wr[v]
  BY <1>0, <1>1, <1>2, Put DEF Typed
<1>4. amap' \in MapPage /\ amap'.entry = amap.entry BY <1>0 DEF Begin, Typed, MapPage
<1>5. /\ queue' = [queue EXCEPT ![l] = w]
      /\ UNCHANGED <<index, data, acked, mode, crashes>>
  BY DEF Begin
<1>6. Typed' BY <1>0, <1>3, <1>4, <1>5 DEF Typed
<1>7. LbaInv'
  <2>1. \A v \in Write : wr[v].pc \in Holding => wr[v].lba # l BY <1>0 DEF UpInv, LbaInv
  <2>2. \A m \in Lba : m # l => queue[m] # w BY <1>0 DEF UpInv, LbaInv
  <2> QED BY <1>0, <1>1, <1>3, <1>5, <2>1, <2>2 DEF UpInv, LbaInv, Typed
<1>8. \A v \in Write : \A b : Claims(v, b)' <=> Claims(v, b)
  BY <1>0, <1>1, <1>3 DEF Claims
<1>9. BlockInv' BY <1>0, <1>1, <1>3, <1>4, <1>5, <1>8 DEF UpInv, BlockInv
<1>10. DataInv'
  <2>1. data[amap.entry[l]] = acked[l] BY <1>0 DEF UpInv, DataInv
  <2>2. \A v \in Write : wr'[v].pc \in Written => v # w /\ wr'[v] = wr[v] BY <1>1, <1>3
  <2>3. ASSUME NEW m \in Lba
        PROVE  \/ queue'[m] \in Write /\ wr'[queue'[m]].pc \in Placed
               \/ data[amap.entry[m]] = acked[m]
    <3>1. CASE m # l /\ queue[m] \in Write /\ wr[queue[m]].pc \in Placed
      <4>1. queue[m] # w /\ queue'[m] = queue[m] BY <1>0, <1>5, <3>1 DEF Typed
      <4> QED BY <1>3, <3>1, <4>1
    <3> QED BY <2>1, <3>1 DEF UpInv, DataInv
  <2> QED BY <1>4, <1>5, <2>2, <2>3 DEF UpInv, DataInv
<1> QED BY <1>0, <1>4, <1>5, <1>6, <1>7, <1>9, <1>10 DEF UpInv, Disk!Start

LEMMA AllocKeepsUp ==
    ASSUME UpInv, NEW w \in Write, NEW b \in Block, Alloc(w, b)
    PROVE  UpInv'
<1> USE DEF Holding, Fresh, Unanswered, Placed, Keeping, Written
<1>0. Typed /\ wr[w] \in WriteRec /\ wr[w].pc = "alloc" /\ index.refs[b] = 0 /\ index \in IndexPage
  BY DEF UpInv, Typed, Alloc, At
<1> DEFINE r == [wr[w] EXCEPT !.pc = "data", !.block = b, !.iid = index.id, !.alloc = "wait"]
<1>1. r \in WriteRec /\ r.pc = "data" /\ r.lba = wr[w].lba /\ r.block = b
  BY <1>0 DEF WriteRec, Pc, IoState, IndexPage
<1>2. wr' = [wr EXCEPT ![w] = r] BY <1>0 DEF Typed, Alloc
<1> HIDE DEF r
<1>3. wr' \in [Write -> WriteRec] /\ wr'[w] = r /\ \A v \in Write : v # w => wr'[v] = wr[v]
  BY <1>0, <1>1, <1>2, Put DEF Typed
<1>4. index' \in IndexPage /\ index'.refs = [index.refs EXCEPT ![b] = 1]
  BY <1>0 DEF Alloc, IndexPage
<1>5. index'.refs[b] = 1 /\ \A c \in Block : c # b => index'.refs[c] = index.refs[c]
  BY <1>0, <1>4 DEF IndexPage
<1>6. UNCHANGED <<queue, amap, data, acked, mode, crashes>> BY DEF Alloc
<1>7. Typed' BY <1>0, <1>3, <1>4, <1>6 DEF Typed
<1>8. LbaInv' BY <1>0, <1>1, <1>3, <1>6 DEF UpInv, LbaInv, Typed
<1>9. BlockInv'
  <2>1. \A l \in Lba : amap.entry[l] # b
    BY <1>0 DEF UpInv, BlockInv
  <2>2. \A v \in Write : ~ Claims(v, b) BY <1>0 DEF UpInv, BlockInv
  <2>3. \A v \in Write : \A c : v # w => (Claims(v, c)' <=> Claims(v, c))
    BY <1>3 DEF Claims
  <2>4. \A c : Claims(w, c)' <=> c = b BY <1>1, <1>3 DEF Claims
  <2>5. \A c : ~ Claims(w, c) BY <1>0 DEF Claims
  <2>6. amap \in MapPage BY <1>0 DEF Typed
  <2>7. \A l \in Lba : amap.entry[l] \in Block BY <2>6 DEF MapPage
  <2>8. \A l \in Lba : index'.refs[amap.entry[l]] >= 1
    BY <1>5, <2>1, <2>7 DEF UpInv, BlockInv
  <2>9. /\ \A v \in Write : wr'[v].pc \in Fresh \cup Placed => wr'[v].block \in Block
        /\ \A v \in Write : wr'[v].pc \in Keeping => wr'[v].old \in Block
    BY <1>1, <1>3 DEF UpInv, BlockInv
  <2>10. ASSUME NEW v \in Write, NEW c \in Block, Claims(v, c)'
         PROVE  /\ index'.refs[c] >= 1
                /\ \A l \in Lba : amap.entry[l] # c
                /\ \A u \in Write : Claims(u, c)' => u = v
    <3>1. CASE v = w
      <4>1. c = b BY <2>4, <2>10, <3>1
      <4> QED BY <4>1, <3>1, <1>5, <2>1, <2>2, <2>3
    <3>2. CASE v # w
      <4>1. Claims(v, c) /\ c # b BY <2>2, <2>3, <2>10, <3>2
      <4>2. /\ index.refs[c] >= 1
            /\ \A l \in Lba : amap.entry[l] # c
            /\ \A u \in Write : Claims(u, c) => u = v
        BY <4>1 DEF UpInv, BlockInv
      <4> QED BY <4>1, <4>2, <1>5, <2>3, <2>4
    <3> QED BY <3>1, <3>2
  <2> QED BY <1>6, <2>8, <2>9, <2>10 DEF UpInv, BlockInv
<1>10. DataInv' BY <1>0, <1>1, <1>3, <1>6 DEF UpInv, DataInv
<1> QED BY <1>6, <1>7, <1>8, <1>9, <1>10 DEF UpInv

LEMMA WriteDataKeepsUp ==
    ASSUME UpInv, NEW w \in Write, WriteData(w)
    PROVE  UpInv' /\ \A l \in Lba : data'[amap'.entry[l]] = data[amap.entry[l]]
<1> USE DEF Holding, Fresh, Unanswered, Placed, Keeping, Written
<1> DEFINE b == wr[w].block
<1>0. Typed /\ wr[w] \in WriteRec /\ wr[w].pc = "data" /\ b \in Block
  BY DEF UpInv, Typed, WriteData, At, BlockInv
<1>1. "map" \in Pc BY DEF Pc
<1>2. wr' = Goto(w, "map") BY DEF WriteData
<1>3. /\ wr' \in [Write -> WriteRec] /\ wr'[w].pc = "map" /\ Same(wr'[w], wr[w])
      /\ \A v \in Write : v # w => wr'[v] = wr[v]
  BY <1>0, <1>1, <1>2, GotoFacts DEF Typed
<1>4. /\ data' = [data EXCEPT ![b] = w]
      /\ UNCHANGED <<queue, amap, index, acked, mode, crashes>>
  BY DEF WriteData, master
<1>5. data'[b] = w /\ \A c \in Block : c # b => data'[c] = data[c] BY <1>0, <1>4 DEF Typed
<1>6. Claims(w, b) BY <1>0 DEF Claims
<1>7. \A l \in Lba : amap.entry[l] \in Block /\ amap.entry[l] # b
  BY <1>0, <1>6 DEF UpInv, BlockInv, Typed, MapPage
<1>8. Typed' BY <1>0, <1>3, <1>4 DEF Typed
<1>9. LbaInv' BY <1>0, <1>3, <1>4 DEF UpInv, LbaInv, Same
<1>10. \A v \in Write : \A c : Claims(v, c)' <=> Claims(v, c)
  BY <1>0, <1>3 DEF Claims, Same
<1>11. BlockInv' BY <1>0, <1>3, <1>4, <1>10 DEF UpInv, BlockInv, Same
<1>12. DataInv'
  <2>1. \A v \in Write : wr'[v].pc \in Placed => amap'.entry[wr'[v].lba] = wr'[v].block
    BY <1>3, <1>4 DEF UpInv, DataInv
  <2>2. ASSUME NEW v \in Write, wr'[v].pc \in Written PROVE data'[wr'[v].block] = v
    <3>1. CASE v = w BY <3>1, <1>3, <1>5 DEF Same
    <3>2. CASE v # w
      <4>1. wr'[v] = wr[v] /\ data[wr[v].block] = v /\ wr[v].block \in Block
        BY <2>2, <3>2, <1>3 DEF UpInv, DataInv, BlockInv
      <4>2. wr[v].block # b
        <5>1. CASE wr[v].pc = "map" 
          <6>1. Claims(v, wr[v].block) BY <5>1 DEF Claims
          <6> QED BY <6>1, <1>0, <1>6, <3>2 DEF UpInv, BlockInv
        <5>2. CASE wr[v].pc \in Placed
          <6>1. amap.entry[wr[v].lba] = wr[v].block /\ wr[v].lba \in Lba
            BY <5>2 DEF UpInv, DataInv, LbaInv
          <6> QED BY <6>1, <1>7
        <5> QED BY <5>1, <5>2, <4>1, <2>2
      <4> QED BY <4>1, <4>2, <1>5
    <3> QED BY <3>1, <3>2
  <2>3. ASSUME NEW v \in Write, wr'[v].pc \in Unanswered
        PROVE  data'[wr'[v].old] = acked'[wr'[v].lba]
    <3>1. v # w /\ wr'[v] = wr[v] BY <2>3, <1>3
    <3>2. Claims(v, wr[v].old) /\ wr[v].old \in Block /\ data[wr[v].old] = acked[wr[v].lba]
      BY <3>1, <2>3 DEF Claims, UpInv, DataInv, BlockInv
    <3>3. wr[v].old # b BY <3>1, <3>2, <1>0, <1>6 DEF UpInv, BlockInv
    <3> QED BY <3>1, <3>2, <3>3, <1>4, <1>5
  <2>4. \A v \in Write : wr'[v].pc = "post" => acked'[wr'[v].lba] = v
    BY <1>3, <1>4 DEF UpInv, DataInv
  <2>5. \A l \in Lba : \/ queue'[l] \in Write /\ wr'[queue'[l]].pc \in Placed
                       \/ data'[amap'.entry[l]] = acked'[l]
    BY <1>0, <1>3, <1>4, <1>5, <1>7 DEF UpInv, DataInv
  <2> QED BY <2>1, <2>2, <2>3, <2>4, <2>5 DEF DataInv
<1> QED BY <1>4, <1>5, <1>7, <1>8, <1>9, <1>11, <1>12 DEF UpInv

LEMMA MapKeepsUp ==
    ASSUME UpInv, NEW w \in Write, pgdata_amap_io(w)
    PROVE  /\ UpInv' /\ wr[w].lba \in Lba /\ queue[wr[w].lba] = w
           /\ data'[amap'.entry[wr[w].lba]] = w
           /\ \A l \in Lba : l # wr[w].lba => data'[amap'.entry[l]] = data[amap.entry[l]]
           /\ UNCHANGED <<queue, acked>>
<1> USE DEF Holding, Fresh, Unanswered, Placed, Keeping, Written
<1> DEFINE b == wr[w].block
           l == wr[w].lba
           o == amap.entry[l]
<1>0. /\ Typed /\ wr[w] \in WriteRec /\ wr[w].pc = "map" /\ b \in Block
      /\ l \in Lba /\ queue[l] = w /\ amap \in MapPage
  BY DEF UpInv, Typed, pgdata_amap_io, At, BlockInv, LbaInv
<1>1. o \in Block /\ \A m \in Lba : amap.entry[m] \in Block BY <1>0 DEF MapPage
<1> DEFINE r == [wr[w] EXCEPT !.pc = "start", !.old = o, !.aid = amap.id]
<1>2. r \in WriteRec /\ r.pc = "start" /\ r.lba = l /\ r.block = b /\ r.old = o
  BY <1>0, <1>1 DEF WriteRec, Pc, MapPage
<1>3. wr' = [wr EXCEPT ![w] = r] BY <1>0 DEF Typed, pgdata_amap_io
<1> HIDE DEF r
<1>4. wr' \in [Write -> WriteRec] /\ wr'[w] = r /\ \A v \in Write : v # w => wr'[v] = wr[v]
  BY <1>0, <1>2, <1>3, Put DEF Typed
<1>5. amap' \in MapPage /\ amap'.entry = [amap.entry EXCEPT ![l] = b]
  BY <1>0 DEF pgdata_amap_io, MapPage
<1>6. amap'.entry[l] = b /\ \A m \in Lba : m # l => amap'.entry[m] = amap.entry[m]
  BY <1>0, <1>5 DEF MapPage
<1>7. UNCHANGED <<queue, index, data, acked, mode, crashes>> BY DEF pgdata_amap_io
<1>8. Claims(w, b) /\ data[b] = w /\ data[o] = acked[l]
  BY <1>0 DEF Claims, UpInv, DataInv
<1>9. \A m \in Lba : amap.entry[m] # b /\ (m # l => amap.entry[m] # o)
  BY <1>0, <1>8 DEF UpInv, BlockInv
<1> HIDE DEF b, l, o
<1>10. Typed' BY <1>0, <1>4, <1>5, <1>7 DEF Typed
<1>11. LbaInv' BY <1>0, <1>2, <1>4, <1>7 DEF UpInv, LbaInv, l
<1>12. BlockInv'
  <2>1. \A v \in Write : \A c : v # w => (Claims(v, c)' <=> Claims(v, c))
    BY <1>4 DEF Claims
  <2>2. \A c : (Claims(w, c)' <=> c = o) /\ (Claims(w, c) <=> c = b)
    BY <1>0, <1>2, <1>4 DEF Claims, b
  <2>3. /\ \A v \in Write : wr'[v].pc \in Fresh \cup Placed => wr'[v].block \in Block
        /\ \A v \in Write : wr'[v].pc \in Keeping => wr'[v].old \in Block
    BY <1>0, <1>1, <1>2, <1>4 DEF UpInv, BlockInv
  <2>4. index.refs[b] >= 1 /\ index.refs[o] >= 1
    BY <1>0, <1>8 DEF UpInv, BlockInv, o
  <2>5. \A m \in Lba : index'.refs[amap'.entry[m]] >= 1
    BY <1>6, <1>7, <2>4 DEF UpInv, BlockInv
  <2>6. \A m, n \in Lba : amap'.entry[m] = amap'.entry[n] => m = n
    BY <1>6, <1>9 DEF UpInv, BlockInv
  <2>7. ASSUME NEW v \in Write, NEW c \in Block, Claims(v, c)'
        PROVE  /\ index'.refs[c] >= 1
               /\ \A m \in Lba : amap'.entry[m] # c
               /\ \A u \in Write : Claims(u, c)' => u = v
    <3>1. \A u \in Write : ~ Claims(u, o) BY <1>0, <1>1 DEF UpInv, BlockInv, o
    <3>2. CASE v = w
      <4>1. c = o BY <2>2, <2>7, <3>2
      <4>2. \A m \in Lba : amap'.entry[m] # o BY <1>0, <1>6, <1>9 DEF o
      <4> QED BY <3>1, <3>2, <4>1, <4>2, <1>7, <2>1, <2>4
    <3>3. CASE v # w
      <4>1. Claims(v, c) /\ c # o BY <2>1, <2>7, <3>1, <3>3
      <4>2. /\ index.refs[c] >= 1
            /\ \A m \in Lba : amap.entry[m] # c
            /\ \A u \in Write : Claims(u, c) => u = v
        BY <4>1 DEF UpInv, BlockInv
      <4>3. c # b BY <1>8, <3>3, <4>2
      <4> QED BY <4>1, <4>2, <4>3, <1>6, <1>7, <2>1, <2>2
    <3> QED BY <3>2, <3>3
  <2> QED BY <2>3, <2>5, <2>6, <2>7 DEF BlockInv
<1>13. DataInv'
  <2>1. ASSUME NEW v \in Write, wr'[v].pc \in Placed
        PROVE  amap'.entry[wr'[v].lba] = wr'[v].block
    <3>1. CASE v = w BY <3>1, <1>2, <1>4, <1>6
    <3>2. CASE v # w
      <4>1. wr'[v] = wr[v] /\ wr[v].lba \in Lba /\ queue[wr[v].lba] = v
        BY <2>1, <3>2, <1>4 DEF UpInv, LbaInv
      <4>2. wr[v].lba # l BY <4>1, <3>2, <1>0
      <4> QED BY <4>1, <4>2, <2>1, <1>6 DEF UpInv, DataInv
    <3> QED BY <3>1, <3>2
  <2>2. \A v \in Write : wr'[v].pc \in Written => data'[wr'[v].block] = v
    BY <1>2, <1>4, <1>7, <1>8 DEF UpInv, DataInv
  <2>3. \A v \in Write : wr'[v].pc \in Unanswered => data'[wr'[v].old] = acked'[wr'[v].lba]
    BY <1>2, <1>4, <1>7, <1>8 DEF UpInv, DataInv
  <2>4. \A v \in Write : wr'[v].pc = "post" => acked'[wr'[v].lba] = v
    BY <1>2, <1>4, <1>7 DEF UpInv, DataInv
  <2>5. ASSUME NEW m \in Lba
        PROVE  \/ queue'[m] \in Write /\ wr'[queue'[m]].pc \in Placed
               \/ data'[amap'.entry[m]] = acked'[m]
    <3>1. CASE m = l BY <3>1, <1>0, <1>2, <1>4, <1>7
    <3>2. CASE m # l /\ queue[m] \in Write /\ wr[queue[m]].pc \in Placed
      <4>1. queue[m] # w BY <1>0, <3>2
      <4> QED BY <1>4, <1>7, <3>2, <4>1
    <3>3. CASE m # l /\ data[amap.entry[m]] = acked[m] BY <3>3, <1>6, <1>7
    <3> QED BY <3>1, <3>2, <3>3 DEF UpInv, DataInv
  <2> QED BY <2>1, <2>2, <2>3, <2>4, <2>5 DEF DataInv
<1> QED BY <1>0, <1>6, <1>7, <1>8, <1>10, <1>11, <1>12, <1>13 DEF UpInv, l
=============================================================================
