-------------------------- MODULE WritePathProofs --------------------------
(***************************************************************************)
(* What WritePath keeps, and the virtual disk it implements, until its      *)
(* master crashes.                                                          *)
(***************************************************************************)
EXTENDS WritePathBlocks, WritePathEnds

USE WritePathAssumption

(***************************************************************************)
(* All steps.  What the virtual disk sees of a step is in value, pending    *)
(* and answered.                                                            *)
(***************************************************************************)
value == [l \in Lba |-> IF mode = "up" THEN data[amap.entry[l]] ELSE acked[l]]

\* The disk is unchanged when no lba reads differently.
LEMMA SameDisk ==
    ASSUME mode = "up", mode' = "up", UNCHANGED <<queue, acked>>,
           \A l \in Lba : data'[amap'.entry[l]] = data[amap.entry[l]]
    PROVE  UNCHANGED Disk!vars
  BY DEF Disk!vars

LEMMA SetValue ==
    ASSUME mode = "up", mode' = "up", NEW l \in Lba, NEW x,
           data'[amap'.entry[l]] = x,
           \A m \in Lba : m # l => data'[amap'.entry[m]] = data[amap.entry[m]]
    PROVE  value' = [value EXCEPT ![l] = x]
  BY DEF value

\* What the virtual disk sees of a step of a write.
Seen ==
    \/ UNCHANGED Disk!vars
    \/ \E l \in Lba : Disk!Effect(l) \/ Disk!Answer(l) \/ Disk!Undo(l) \/ Disk!End(l)

LEMMA WritesKeepUp ==
    ASSUME UpInv, NEW w \in Write, WriteStep(w) \/ Fails(w)
    PROVE  UpInv' /\ Seen
<1>0. mode = "up" BY DEF UpInv
<1>1. ASSUME Quiet PROVE UpInv' /\ Seen
  <2>1. UpInv' BY <1>1, QuietKeepsUp
  <2>2. UNCHANGED Disk!vars BY <1>0, <1>1, SameDisk DEF Quiet
  <2> QED BY <2>1, <2>2 DEF Seen
<1>2. ASSUME NEW b \in Block, Alloc(w, b) PROVE UpInv' /\ Seen
  <2>1. UpInv' BY <1>2, AllocKeepsUp
  <2>2. UNCHANGED Disk!vars BY <1>0, <1>2, SameDisk DEF Alloc
  <2> QED BY <2>1, <2>2 DEF Seen
<1>3. CASE WriteData(w)
  <2>1. UpInv' /\ \A l \in Lba : data'[amap'.entry[l]] = data[amap.entry[l]]
    BY <1>3, WriteDataKeepsUp
  <2>2. UNCHANGED Disk!vars BY <1>0, <1>3, <2>1, SameDisk DEF WriteData
  <2> QED BY <2>1, <2>2 DEF Seen
<1>4. CASE pgdata_amap_io(w)
  <2>0. PICK l \in Lba : l = wr[w].lba BY <1>4, MapKeepsUp
  <2>1. /\ UpInv' /\ queue[l] = w /\ data'[amap'.entry[l]] = w
        /\ \A m \in Lba : m # l => data'[amap'.entry[m]] = data[amap.entry[m]]
        /\ UNCHANGED <<queue, acked>>
    BY <1>4, <2>0, MapKeepsUp
  <2>2. mode' = "up" BY <2>1 DEF UpInv
  <2>3. value' = [value EXCEPT ![l] = queue[l]] BY <1>0, <2>1, <2>2, SetValue
  <2>4. Disk!Effect(l) BY <1>0, <2>1, <2>2, <2>3 DEF Disk!Effect, value
  <2>5. Seen BY <2>4 DEF Seen
  <2> QED BY <2>1, <2>5
<1>5. CASE device_send_ccb(w)
  <2> DEFINE l == wr[w].lba
  <2>1. /\ UpInv' /\ l \in Lba /\ queue[l] = w /\ data[amap.entry[l]] = w
        /\ acked' = [acked EXCEPT ![l] = w] /\ UNCHANGED <<queue, data, amap>>
    BY <1>5, AnswerKeepsUp
  <2> HIDE DEF l
  <2>2. mode' = "up" BY <2>1 DEF UpInv
  <2>3. UNCHANGED value /\ value[l] = w BY <1>0, <2>1, <2>2 DEF value
  <2>4. Disk!Answer(l) BY <1>0, <2>1, <2>2, <2>3 DEF Disk!Answer, value
  <2>5. l \in Lba BY <2>1
  <2>6. Seen BY <2>4, <2>5 DEF Seen
  <2> QED BY <2>1, <2>6
<1>6. CASE pgdata_post_write(w) \/ ErrorLog(w)
  <2> DEFINE l == wr[w].lba
  <2>1. /\ UpInv' /\ l \in Lba /\ queue[l] = w /\ data[amap.entry[l]] = acked[l]
        /\ queue' = [queue EXCEPT ![l] = None] /\ UNCHANGED <<acked, data, amap>>
    BY <1>6, EndKeepsUp
  <2> HIDE DEF l
  <2>2. mode' = "up" BY <2>1 DEF UpInv
  <2>3. UNCHANGED value /\ value[l] = acked[l] BY <1>0, <2>1, <2>2 DEF value
  <2>4. Disk!End(l) BY <1>0, <2>1, <2>2, <2>3 DEF Disk!End, value
  <2>5. l \in Lba BY <2>1
  <2>6. Seen BY <2>4, <2>5 DEF Seen
  <2> QED BY <2>1, <2>6
<1>7. CASE WriteFails(w) \/ DdDelete(w)
  <2>1. UpInv' /\ UNCHANGED <<queue, amap, data, acked>> BY <1>7, ReleaseKeepsUp
  <2>2. UNCHANGED Disk!vars BY <1>0, <2>1, SameDisk DEF UpInv
  <2> QED BY <2>1, <2>2 DEF Seen
<1>8. CASE MirrorFails(w)
  <2>0. PICK l \in Lba : l = wr[w].lba BY <1>8, UndoKeepsUp
  <2>1. /\ UpInv' /\ queue[l] = w /\ data'[amap'.entry[l]] = acked[l]
        /\ \A m \in Lba : m # l => data'[amap'.entry[m]] = data[amap.entry[m]]
        /\ UNCHANGED <<queue, acked>>
    BY <1>8, <2>0, UndoKeepsUp
  <2>2. mode' = "up" BY <2>1 DEF UpInv
  <2>3. value' = [value EXCEPT ![l] = acked[l]] BY <1>0, <2>1, <2>2, SetValue
  <2>4. Disk!Undo(l) BY <1>0, <2>1, <2>2, <2>3 DEF Disk!Undo, value
  <2>5. Seen BY <2>4 DEF Seen
  <2> QED BY <2>1, <2>5
<1>9. CASE \/ AllocFails(w) \/ node_pgdata_sync_start(w) \/ LogWrite(w)
           \/ sync_amap_list_pre(w) \/ node_pgdata_sync_client_done(w)
           \/ DdIndex(w) \/ DdSync(w) \/ DdClear(w) \/ node_pgdata_sync_complete(w)
           \/ amap_sync_list_free_error(w) \/ ErrorAmap(w) \/ ErrorIndex(w)
           \/ ErrorComplete(w)
  BY <1>1, <1>9, QuietSteps
<1> QED BY <1>2, <1>3, <1>4, <1>5, <1>6, <1>7, <1>8, <1>9 DEF WriteStep, Fails

\* The first crash is one of the virtual disk, and before it nothing is recovered.
LEMMA StepUp ==
    ASSUME UpInv, Next
    PROVE  /\ UpInv' \/ (crashes' = 1 /\ crashes < MaxCrash)
           /\ Disk!Next \/ UNCHANGED Disk!vars
<1>0. mode = "up" /\ crashes = 0 BY DEF UpInv
<1>1. ASSUME NEW w \in Write, NEW l \in Lba, Begin(w, l)
      PROVE  UpInv' /\ Disk!Next
  BY <1>1, BeginKeepsUp DEF Disk!Next
<1>2. ASSUME NEW w \in Write, WriteStep(w) \/ Fails(w)
      PROVE  UpInv' /\ (Disk!Next \/ UNCHANGED Disk!vars)
  BY <1>2, WritesKeepUp DEF Seen, Disk!Next
<1>3. CASE Device
  <2>1. Quiet BY <1>3, QuietDevice
  <2>2. UpInv' BY <2>1, QuietKeepsUp
  <2>3. UNCHANGED Disk!vars BY <1>0, <2>1, SameDisk DEF Quiet
  <2> QED BY <2>2, <2>3
<1>4. ~ Recovery
  BY <1>0 DEF Recovery, node_ha_msg_check_logs, node_ha_msg_cancel_logs, log_entries_replay,
              RecoverAmap, RecoverIndex, RecoverLog, Resume, Replayed
<1>5. CASE CrashTakeover \/ CrashRestart
  <2>1. crashes' = 1 /\ crashes < MaxCrash /\ mode' # "up" /\ UNCHANGED <<queue, acked>>
    <3>1. ASSUME NEW a, NEW x, NEW c, NEW q, Loaded(a, x, c, q)
          PROVE  crashes' = 1 /\ UNCHANGED <<queue, acked>>
      BY <1>0, <3>1 DEF Loaded
    <3>2. CASE CrashTakeover BY <3>1, <3>2 DEF CrashTakeover
    <3>3. CASE CrashRestart BY <3>1, <3>3 DEF CrashRestart
    <3> QED BY <1>5, <3>2, <3>3
  <2>2. value' = acked
    <3>1. acked \in [Lba -> Write \cup Lba] BY DEF UpInv, Typed
    <3> QED BY <2>1, <3>1 DEF value
  <2>3. Disk!Crash BY <2>1, <2>2 DEF Disk!Crash, value
  <2> QED BY <2>1, <2>3 DEF Disk!Next
<1> QED BY <1>1, <1>2, <1>3, <1>4, <1>5 DEF Next

LEMMA CrashesGrow ==
    ASSUME Next, crashes \in Nat PROVE crashes' \in Nat /\ crashes' >= crashes
<1>0. ASSUME NEW a, NEW x, NEW c, NEW q, Loaded(a, x, c, q) PROVE crashes' = crashes + 1
  BY <1>0 DEF Loaded
<1>1. CrashTakeover => crashes' = crashes + 1 BY <1>0, Zenon DEF CrashTakeover
<1>2. CrashRestart => crashes' = crashes + 1 BY <1>0, Zenon DEF CrashRestart
<1>3. ASSUME NEW w \in Write, NEW l \in Lba, Begin(w, l) PROVE UNCHANGED crashes
  BY <1>3 DEF Begin
<1>4. ASSUME NEW w \in Write, WriteStep(w) \/ Fails(w) PROVE UNCHANGED crashes
  BY <1>4 DEF WriteStep, Fails, Alloc, AllocFails, WriteData, pgdata_amap_io,
       node_pgdata_sync_start, LogWrite, sync_amap_list_pre, node_pgdata_sync_client_done,
       device_send_ccb, pgdata_post_write, DdIndex, DdDelete, DdSync, DdClear,
       node_pgdata_sync_complete, amap_sync_list_free_error, ErrorAmap, ErrorIndex,
       ErrorComplete, ErrorLog, WriteFails, MirrorFails
<1>5. CASE Device
  BY <1>5 DEF Device, amap_end_bio, subgroup_end_bio, handle_amap_sync_post,
              handle_bintindex_sync_post, get_free_log_page
<1>6. ASSUME Recovery PROVE UNCHANGED crashes
  BY <1>6, Zenon DEF Recovery, node_ha_msg_check_logs, node_ha_msg_cancel_logs,
              log_entries_replay, RecoverAmap, RecoverIndex, RecoverLog, Resume
<1> QED BY <1>1, <1>2, <1>3, <1>4, <1>5, <1>6 DEF Next

LEMMA StutterUp == ASSUME UpInv, UNCHANGED vars PROVE UpInv'
<1>1. Typed' BY DEF UpInv, vars, Typed
<1>2. LbaInv' BY DEF UpInv, vars, LbaInv
<1>3. BlockInv'
  <2>1. \A w \in Write : \A b : Claims(w, b)' <=> Claims(w, b) BY DEF vars, Claims
  <2> QED BY <2>1 DEF UpInv, vars, BlockInv
<1>4. DataInv' BY DEF UpInv, vars, DataInv
<1> QED BY <1>1, <1>2, <1>3, <1>4 DEF UpInv, vars

UntilCrash == crashes \in Nat /\ (crashes = 0 => UpInv)

LEMMA UpIsInvariant == Spec => []UntilCrash
<1>1. Init => UntilCrash BY InitUp DEF UntilCrash, Init
<1>2. UntilCrash /\ [Next]_vars => UntilCrash'
  <2>1. ASSUME UntilCrash, Next PROVE UntilCrash'
    <3>1. crashes' \in Nat /\ crashes' >= crashes /\ crashes \in Nat
      BY <2>1, CrashesGrow DEF UntilCrash
    <3>2. CASE crashes = 0
      <4>1. UpInv' \/ crashes' = 1 BY <2>1, <3>2, StepUp DEF UntilCrash
      <4> QED BY <3>1, <4>1 DEF UntilCrash
    <3>3. CASE crashes # 0
      <4>1. crashes' # 0 BY <3>1, <3>3
      <4> QED BY <3>1, <4>1 DEF UntilCrash
    <3> QED BY <3>2, <3>3
  <2>2. ASSUME UntilCrash, UNCHANGED vars PROVE UntilCrash'
    BY <2>2, StutterUp DEF UntilCrash, vars
  <2> QED BY <2>1, <2>2
<1> QED BY <1>1, <1>2, PTL DEF Spec

-----------------------------------------------------------------------------
\* As long as the master has not crashed, an lba reads as the last write its client
\* was told of or as the write under way on it, for any number of writes, lbas and
\* blocks, with failing data IO, a failing mirror and blocks that are released and
\* allocated again (pgdata_amap_io, pgdata_cancel and the ddthread).
THEOREM AnsweredWritesKept == Spec => [](crashes = 0 => AckedWriteKept)
<1>1. UntilCrash => (crashes = 0 => AckedWriteKept)
  <2> SUFFICES ASSUME UpInv, NEW l \in Lba PROVE data[amap.entry[l]] \in {acked[l], queue[l]}
    BY DEF UntilCrash, AckedWriteKept
  <2>1. ASSUME queue[l] \in Write, wr[queue[l]].pc \in Placed
        PROVE  data[amap.entry[l]] = queue[l]
    BY <2>1 DEF UpInv, LbaInv, DataInv, Written
  <2> QED BY <2>1 DEF UpInv, DataInv
<1> QED BY <1>1, UpIsInvariant, PTL

\* As long as the master has not crashed, the block of an lba is in use in the index
\* page and is the block of no other lba: neither the release of an old block by a
\* ddthread nor that of a failed write's block takes it away.
THEOREM MappedBlocksInUse == Spec => [](crashes = 0 => MappedBlockInUse)
<1>1. UntilCrash => (crashes = 0 => MappedBlockInUse)
  BY DEF UntilCrash, UpInv, BlockInv, MappedBlockInUse
<1> QED BY <1>1, UpIsInvariant, PTL

LEMMA DiskInit == Init => Disk!Init
<1> SUFFICES ASSUME Init PROVE Disk!Init OBVIOUS
<1>1. mode = "up" /\ acked = [l \in Lba |-> l] /\ queue = [l \in Lba |-> None] BY DEF Init
<1>2. \A l \in Lba : data[amap.entry[l]] = l
  <2>1. UpInv BY InitUp
  <2> QED BY <1>1, <2>1 DEF UpInv, DataInv
<1>3. value = [l \in Lba |-> l] BY <1>1, <1>2 DEF value
<1> QED BY <1>1, <1>3 DEF Disk!Init, value

\* Up to and including its first crash the write path is the virtual disk of
\* VirtualDisk: each step of the threads, of the IO and of the crash is one of the
\* abstract disk or changes nothing its clients see.
THEOREM DiskUntilCrash == Spec => Disk!Init /\ [][crashes = 0 => Disk!Next]_(Disk!vars)
<1>1. Init => Disk!Init BY DiskInit
<1>2. UntilCrash /\ [Next]_vars => [crashes = 0 => Disk!Next]_(Disk!vars)
  <2>1. UNCHANGED vars => UNCHANGED Disk!vars BY DEF vars, Disk!vars
  <2>2. UntilCrash /\ Next /\ crashes = 0 => Disk!Next \/ UNCHANGED Disk!vars
    BY StepUp DEF UntilCrash
  <2> QED BY <2>1, <2>2
<1> QED BY <1>1, <1>2, UpIsInvariant, PTL DEF Spec

\* A master that does not crash implements the virtual disk.
THEOREM ImplementsDisk == ASSUME MaxCrash = 0 PROVE Spec => ImplementsVirtualDisk
<1> DEFINE Inv == UntilCrash /\ crashes = 0
<1>1. Init => Inv BY InitUp DEF UntilCrash, Init
<1>2. Inv /\ [Next]_vars => Inv' /\ [Disk!Next]_(Disk!vars)
  <2>1. ASSUME UpInv, Next PROVE UpInv' /\ [Disk!Next]_(Disk!vars) BY <2>1, StepUp DEF UpInv
  <2>2. ASSUME UpInv, UNCHANGED vars PROVE UpInv' /\ UNCHANGED Disk!vars
    BY <2>2, StutterUp DEF vars, Disk!vars
  <2> QED BY <2>1, <2>2 DEF UntilCrash, UpInv
<1>3. Init => Disk!Init BY DiskInit
<1> QED BY <1>1, <1>2, <1>3, PTL DEF Spec, ImplementsVirtualDisk, Disk!Spec
=============================================================================
