--------------------------- MODULE TaskSetProofs ---------------------------
(***************************************************************************)
(* Proofs about TaskSet, for any finite set of commands and any set of     *)
(* task management threads.                                                *)
(***************************************************************************)
EXTENDS TaskSet, FiniteSetTheorems, TLAPS

(* The commands that execute, and those of one attribute among them.       *)
Executing == {t \in Listed : queued[t]}
ExecutingOrdered == {t \in Listed : queued[t] /\ attr[t] = "ORDERED"}
ExecutingHead == {t \in Listed : queued[t] /\ attr[t] = "HEAD"}
Waiting == {t \in Listed : ~queued[t]}

(* queue_list holds each command once, and exactly the accepted ones.      *)
ListOK ==
  /\ \A i, j \in 1..Len(queue_list) : queue_list[i] = queue_list[j] => i = j
  /\ \A t \in Task : t \in Listed <=> loc[t] # "idle"

(***************************************************************************)
(* What a command's position says of it: only a command in "set" can be    *)
(* waiting, a HEAD OF QUEUE command never waits, and the thread of a       *)
(* command holds a list only when it has just accepted the command (and    *)
(* the list is the command) or has removed it.                             *)
(***************************************************************************)
CommandOK ==
  \A t \in Task :
    /\ queued[t] => t \in Listed
    /\ loc[t] \in {"devq", "run", "send"} => queued[t]
    /\ t \in Listed /\ attr[t] = "HEAD" => queued[t]
    /\ todo[t] # {} => loc[t] = "idle" \/ (loc[t] = "set" /\ todo[t] = {t})

IInv ==
  /\ TypeOK
  /\ ListOK
  /\ CommandOK
  /\ CountersMatchQueue
  /\ OldestExecutes
  /\ OrderedIsOldest
  /\ DispatchedOnce

LEMMA RemoveAtPosFacts ==
  ASSUME NEW S, NEW s \in Seq(S), NEW i \in 1..Len(s)
  PROVE  /\ RemoveAtPos(s, i) \in Seq(S)
         /\ Len(RemoveAtPos(s, i)) = Len(s) - 1
         /\ \A j \in 1..(Len(s) - 1) :
              RemoveAtPos(s, i)[j] = IF j < i THEN s[j] ELSE s[j + 1]
  BY DEF RemoveAtPos

(* TAILQ_REMOVE takes out that element and no other.                       *)
LEMMA RemoveAtPosRange ==
  ASSUME NEW S, NEW s \in Seq(S), NEW i \in 1..Len(s),
         \A j, k \in 1..Len(s) : s[j] = s[k] => j = k
  PROVE  LET r == RemoveAtPos(s, i) IN
         /\ {r[j] : j \in 1..Len(r)} = {s[j] : j \in 1..Len(s)} \ {s[i]}
         /\ \A j, k \in 1..Len(r) : r[j] = r[k] => j = k
<1> DEFINE r == RemoveAtPos(s, i)
<1>1. /\ Len(r) = Len(s) - 1
      /\ \A j \in 1..(Len(s) - 1) : r[j] = IF j < i THEN s[j] ELSE s[j + 1]
  BY RemoveAtPosFacts
<1> HIDE DEF r
<1> Len(s) \in Nat
  OBVIOUS
<1>2. \A j, k \in 1..Len(r) : r[j] = r[k] => j = k
  BY <1>1
<1>3. ASSUME NEW j \in 1..Len(r) PROVE r[j] \in {s[k] : k \in 1..Len(s)} \ {s[i]}
  BY <1>1
<1>4. ASSUME NEW k \in 1..Len(s), k # i PROVE s[k] \in {r[j] : j \in 1..Len(r)}
  <2>1. CASE k < i
    <3>1. k \in 1..Len(r) /\ r[k] = s[k]
      BY <1>1, <2>1
    <3> QED BY <3>1
  <2>2. CASE k > i
    <3>1. (k - 1) \in 1..Len(r) /\ r[k - 1] = s[k]
      BY <1>1, <2>2
    <3> QED BY <3>1
  <2> QED BY <1>4, <2>1, <2>2
<1>5. {r[j] : j \in 1..Len(r)} = {s[j] : j \in 1..Len(s)} \ {s[i]}
  <2>1. ASSUME NEW x \in {r[j] : j \in 1..Len(r)}
        PROVE  x \in {s[j] : j \in 1..Len(s)} \ {s[i]}
    BY <1>3
  <2>2. ASSUME NEW x \in {s[j] : j \in 1..Len(s)} \ {s[i]}
        PROVE  x \in {r[j] : j \in 1..Len(r)}
    <3>1. PICK k \in 1..Len(s) : x = s[k]
      OBVIOUS
    <3> QED BY <3>1, <1>4
  <2> QED BY <2>1, <2>2
<1> QED BY <1>2, <1>5 DEF r

LEMMA InitIInv == Init => IInv
<1> SUFFICES ASSUME Init PROVE IInv
  OBVIOUS
<1> USE DEF Init
<1>1. Listed = {}
  BY DEF Listed
<1>2. TypeOK
  <2>1. queued \in [Task -> BOOLEAN] /\ aborted \in [Task -> BOOLEAN] /\ blocked \in BOOLEAN
    BY Zenon
  <2>2. /\ queue_list \in Seq(Task) /\ pending_queue \in Seq(Task)
        /\ istate \in [ordered : Nat, head : Nat, queued : Nat, pending : Nat]
    OBVIOUS
  <2>3. /\ attr \in [Task -> Attr] /\ loc \in [Task -> Loc]
        /\ todo \in [Task -> SUBSET Task] /\ doomed \in SUBSET Task
        /\ mgr \in [Manager -> [op : Op, victims : SUBSET Task]]
    BY DEF Attr, Loc, Op
  <2> QED BY <2>1, <2>2, <2>3 DEF TypeOK
<1>3. ListOK /\ CommandOK
  BY <1>1 DEF ListOK, CommandOK
<1>4. CountersMatchQueue
  BY <1>1, FS_EmptySet DEF CountersMatchQueue
<1>5. OldestExecutes /\ OrderedIsOldest
  BY DEF OldestExecutes, OrderedIsOldest
<1>6. DispatchedOnce
  BY DEF DispatchedOnce, Queue
<1> QED BY <1>2, <1>3, <1>4, <1>5, <1>6 DEF IInv

(***************************************************************************)
(* The functions and the device queue threads do not touch the task set's  *)
(* own bookkeeping.                                                        *)
(***************************************************************************)
LEMMA BookkeepingUnchanged ==
  ASSUME IInv, UNCHANGED <<queue_list, attr, queued, istate>>
  PROVE  CountersMatchQueue' /\ OldestExecutes' /\ OrderedIsOldest'
         /\ Listed' = Listed
  BY DEF IInv, CountersMatchQueue, OldestExecutes, OrderedIsOldest, Listed

LEMMA ManagerStep ==
  ASSUME IInv, OthersUnchanged,
         aborted' \in [Task -> BOOLEAN], blocked' \in BOOLEAN,
         mgr' \in [Manager -> [op : Op, victims : SUBSET Task]],
         doomed' \in SUBSET Task
  PROVE  IInv'
<1> USE DEF OthersUnchanged
<1>1. CountersMatchQueue' /\ OldestExecutes' /\ OrderedIsOldest' /\ Listed' = Listed
  BY BookkeepingUnchanged
<1>2. TypeOK'
  BY DEF IInv, TypeOK
<1>3. ListOK' /\ CommandOK'
  BY <1>1 DEF IInv, ListOK, CommandOK
<1>4. DispatchedOnce'
  BY DEF IInv, DispatchedOnce, Queue
<1> QED BY <1>1, <1>2, <1>3, <1>4 DEF IInv

(* Facts about the sets that are counted.                                  *)
LEMMA FiniteCounts ==
  ASSUME IInv
  PROVE  /\ Listed \in SUBSET Task
         /\ \A S \in SUBSET Task : IsFiniteSet(S) /\ Cardinality(S) \in Nat
         /\ ExecutingOrdered \in SUBSET Task /\ ExecutingHead \in SUBSET Task
         /\ Executing \in SUBSET Task /\ Waiting \in SUBSET Task
<1>1. Listed \in SUBSET Task
  BY DEF IInv, TypeOK, Listed
<1>2. \A S \in SUBSET Task : IsFiniteSet(S) /\ Cardinality(S) \in Nat
  BY TaskFinite, FS_Subset, FS_CardinalityType
<1> QED BY <1>1, <1>2 DEF Executing, ExecutingOrdered, ExecutingHead, Waiting

(***************************************************************************)
(* When ORDERED may execute on arrival the list is empty, because nothing  *)
(* executes and the oldest command always does.                            *)
(***************************************************************************)
LEMMA NothingExecutes ==
  ASSUME IInv, istate.queued = 0
  PROVE  queue_list = <<>>
<1>1. Executing = {}
  BY FiniteCounts, FS_EmptySet DEF IInv, CountersMatchQueue, Executing
<1>2. queue_list # <<>> => queue_list[1] \in Executing
  BY DEF IInv, OldestExecutes, Executing, Listed, TypeOK
<1> QED BY <1>1, <1>2

(* A counter that is zero counts nothing.                                  *)
LEMMA NoneExecuting ==
  ASSUME IInv
  PROVE  /\ istate.ordered = 0 => ExecutingOrdered = {}
         /\ istate.head = 0 => ExecutingHead = {}
         /\ istate.pending = 0 => Waiting = {}
  BY FiniteCounts, FS_EmptySet DEF IInv, CountersMatchQueue, ExecutingOrdered, ExecutingHead, Waiting

(* CountersMatchQueue, by the names of the sets.                           *)
LEMMA CountersBySet ==
  CountersMatchQueue <=> /\ istate.ordered = Cardinality(ExecutingOrdered)
                         /\ istate.head = Cardinality(ExecutingHead)
                         /\ istate.queued = Cardinality(Executing)
                         /\ istate.pending = Cardinality(Waiting)
  BY DEF CountersMatchQueue, ExecutingOrdered, ExecutingHead, Executing, Waiting

LEMMA QueueCmdStep ==
  ASSUME IInv, NEW t \in Task, NEW a \in Attr, istate_queue_cmd(t, a)
  PROVE  IInv'
<1> USE DEF istate_queue_cmd
<1> DEFINE x == ExecNow(a)
<1>0. x \in BOOLEAN
  BY DEF ExecNow
<1>a. /\ TypeOK /\ ListOK /\ CommandOK /\ CountersMatchQueue /\ OldestExecutes
      /\ OrderedIsOldest /\ DispatchedOnce
  BY DEF IInv
<1>b. /\ Len(queue_list') = Len(queue_list) + 1
      /\ \A i \in 1..Len(queue_list) : queue_list'[i] = queue_list[i]
      /\ queue_list'[Len(queue_list')] = t
      /\ queue_list' \in Seq(Task) /\ Len(queue_list) \in Nat
  BY <1>a DEF TypeOK
<1>c. t \notin Listed /\ Listed' = Listed \cup {t}
  <2>1. t \notin Listed
    BY <1>a DEF ListOK
  <2>2. Listed' = Listed \cup {t}
    BY <1>b DEF Listed
  <2> QED BY <2>1, <2>2
<1>d. x => (a = "ORDERED" => queue_list = <<>>)
  BY NothingExecutes DEF ExecNow
<1>e. ~x => a # "HEAD"
  BY DEF ExecNow
<1>f. ~x => queue_list # <<>>
  <2>1. queue_list = <<>> => Listed = {}
    BY DEF Listed
  <2>2. Listed = {} => istate.ordered = 0 /\ istate.head = 0 /\ istate.queued = 0
    BY <1>a, FS_EmptySet, Zenon DEF CountersMatchQueue
  <2> QED BY <2>1, <2>2 DEF ExecNow, Attr
<1>g. /\ queued' \in [Task -> BOOLEAN] /\ queued'[t] = x
      /\ \A u \in Task : u # t => queued'[u] = queued[u]
  BY <1>0, <1>a, Zenon DEF TypeOK
<1>h. /\ attr' \in [Task -> Attr] /\ attr'[t] = a
      /\ \A u \in Task : u # t => attr'[u] = attr[u]
  BY <1>a DEF TypeOK
<1>i. /\ istate' \in [ordered : Nat, head : Nat, queued : Nat, pending : Nat]
      /\ istate'.ordered = istate.ordered + (IF x /\ a = "ORDERED" THEN 1 ELSE 0)
      /\ istate'.head = istate.head + (IF x /\ a = "HEAD" THEN 1 ELSE 0)
      /\ istate'.queued = istate.queued + (IF x THEN 1 ELSE 0)
      /\ istate'.pending = istate.pending + (IF x THEN 0 ELSE 1)
  BY <1>0, <1>a DEF TypeOK, One
<1> HIDE DEF x
<1>1. TypeOK'
  <2>1. aborted' \in [Task -> BOOLEAN]
    BY <1>a, Zenon DEF TypeOK
  <2>3. loc' \in [Task -> Loc] /\ todo' \in [Task -> SUBSET Task]
    BY <1>a DEF TypeOK, Loc
  <2> QED BY <1>a, <1>b, <1>g, <1>h, <1>i, <2>1, <2>3 DEF TypeOK
<1>2. ListOK'
  <2>1. \A u \in Task : u \in Listed' <=> loc'[u] # "idle"
    BY <1>a, <1>c DEF ListOK, TypeOK
  <2>2. \A i \in 1..Len(queue_list) : queue_list[i] # t
    BY <1>c DEF Listed
  <2>3. \A i, j \in 1..Len(queue_list') : queue_list'[i] = queue_list'[j] => i = j
    BY <1>a, <1>b, <2>2 DEF ListOK
  <2> QED BY <2>1, <2>3 DEF ListOK
<1>3. CommandOK'
  BY <1>a, <1>c, <1>e, <1>g, <1>h DEF CommandOK, TypeOK, x
<1>4. CountersMatchQueue'
  <2> HIDE DEF istate_queue_cmd
  <2>1. /\ ExecutingOrdered' = IF x /\ a = "ORDERED" THEN ExecutingOrdered \cup {t}
                                                          ELSE ExecutingOrdered
        /\ ExecutingHead' = IF x /\ a = "HEAD" THEN ExecutingHead \cup {t}
                                                    ELSE ExecutingHead
    BY <1>a, <1>c, <1>g, <1>h, FiniteCounts DEF ExecutingOrdered, ExecutingHead
  <2>2. Executing' = IF x THEN Executing \cup {t} ELSE Executing
    BY <1>a, <1>c, <1>g, FiniteCounts DEF Executing
  <2>3. Waiting' = IF x THEN Waiting ELSE Waiting \cup {t}
    BY <1>a, <1>c, <1>g, FiniteCounts DEF Waiting
  <2>4. ASSUME NEW S \in SUBSET Listed
        PROVE  Cardinality(S) \in Nat /\ Cardinality(S \cup {t}) = Cardinality(S) + 1
    BY <1>c, FiniteCounts, FS_AddElement
  <2>5. /\ ExecutingOrdered \in SUBSET Listed /\ ExecutingHead \in SUBSET Listed
        /\ Executing \in SUBSET Listed /\ Waiting \in SUBSET Listed
    BY DEF ExecutingOrdered, ExecutingHead, Executing, Waiting
  <2>6. /\ istate'.ordered = Cardinality(ExecutingOrdered')
        /\ istate'.head = Cardinality(ExecutingHead')
    BY <1>a, <1>i, <2>1, <2>4, <2>5, CountersBySet
  <2>7. istate'.queued = Cardinality(Executing')
    BY <1>a, <1>i, <2>2, <2>4, <2>5, CountersBySet
  <2>8. istate'.pending = Cardinality(Waiting')
    BY <1>a, <1>i, <2>3, <2>4, <2>5, CountersBySet
  <2> QED BY <2>6, <2>7, <2>8 DEF CountersMatchQueue, ExecutingOrdered, ExecutingHead, Executing, Waiting
<1>5. OldestExecutes'
  BY <1>a, <1>b, <1>f, <1>g, <1>c DEF OldestExecutes, Listed, TypeOK
<1>6. OrderedIsOldest'
  BY <1>a, <1>b, <1>c, <1>d, <1>g, <1>h DEF OrderedIsOldest, Listed, TypeOK
<1>7. DispatchedOnce'
  <2>1. \A u \in Task : t \notin todo[u]
    BY <1>a DEF DispatchedOnce, TypeOK
  <2>2. todo' = [todo EXCEPT ![t] = IF x THEN {t} ELSE {}]
    BY DEF x
  <2>3. Queue' = Queue
    BY DEF Queue
  <2> QED BY <1>a, <1>g, <2>1, <2>2, <2>3 DEF DispatchedOnce, TypeOK
<1> QED BY <1>1, <1>2, <1>3, <1>4, <1>5, <1>6, <1>7 DEF IInv

LEMMA InsertStep ==
  ASSUME IInv, NEW t \in Task, gdevq_insert_ccb(t)
  PROVE  IInv'
<1>a. /\ TypeOK /\ ListOK /\ CommandOK /\ DispatchedOnce
  BY DEF IInv
<1>b. PICK u \in Task :
        /\ u \in todo[t]
        /\ pending_queue' = Append(pending_queue, u)
        /\ loc' = [loc EXCEPT ![u] = "devq"]
        /\ todo' = [todo EXCEPT ![t] = @ \ {u}]
        /\ UNCHANGED <<queue_list, attr, queued, istate, blocked, aborted, mgr, doomed>>
  BY <1>a DEF gdevq_insert_ccb, TypeOK
<1>c. loc[u] = "set" /\ queued[u] /\ u \notin Queue
  BY <1>a, <1>b DEF DispatchedOnce
<1>1. CountersMatchQueue' /\ OldestExecutes' /\ OrderedIsOldest' /\ Listed' = Listed
  BY <1>b, BookkeepingUnchanged
<1>2. TypeOK'
  BY <1>a, <1>b DEF TypeOK, Loc
<1>3. ListOK'
  BY <1>a, <1>b, <1>c, <1>1 DEF ListOK, TypeOK
<1>4. CommandOK'
  <2>1. \A v \in Task : todo'[v] # {} => loc'[v] = "idle" \/ (loc'[v] = "set" /\ todo'[v] = {v})
    BY <1>a, <1>b, <1>c DEF CommandOK, TypeOK, DispatchedOnce
  <2> QED BY <1>a, <1>b, <1>c, <1>1, <2>1 DEF CommandOK, TypeOK
<1>5. DispatchedOnce'
  <2>1. Queue' = Queue \cup {u}
    BY <1>a, <1>b DEF Queue, TypeOK
  <2>2. \A i, j \in 1..Len(pending_queue') : pending_queue'[i] = pending_queue'[j] => i = j
    BY <1>a, <1>b, <1>c DEF DispatchedOnce, Queue, TypeOK
  <2>3. \A v \in Task : loc'[v] = "devq" <=> v \in Queue'
    BY <1>a, <1>b, <2>1 DEF DispatchedOnce, TypeOK
  <2>4. \A v \in Task : \A r, w \in Task : v \in todo'[r] \cap todo'[w] => r = w
    BY <1>a, <1>b DEF DispatchedOnce, TypeOK
  <2>5. \A v \in Task : (loc'[v] = "set" /\ queued'[v]) <=> \E w \in Task : v \in todo'[w]
    BY <1>a, <1>b DEF DispatchedOnce, TypeOK
  <2> QED BY <2>2, <2>3, <2>4, <2>5 DEF DispatchedOnce
<1> QED BY <1>1, <1>2, <1>3, <1>4, <1>5 DEF IInv

LEMMA ProcessStep ==
  ASSUME IInv, devq_process_queue
  PROVE  IInv'
<1> DEFINE t == Head(pending_queue)
<1>a. /\ TypeOK /\ ListOK /\ CommandOK /\ DispatchedOnce
  BY DEF IInv
<1>b. /\ t \in Task /\ loc[t] = "devq"
      /\ \A i \in 1..Len(pending_queue') : pending_queue'[i] = pending_queue[i + 1]
      /\ Len(pending_queue') = Len(pending_queue) - 1
      /\ pending_queue' \in Seq(Task) /\ Len(pending_queue) \in Nat /\ t = pending_queue[1]
      /\ pending_queue # <<>>
  BY <1>a DEF devq_process_queue, TypeOK, DispatchedOnce, Queue
<1>c. PICK l \in {"run", "send"} : loc' = [loc EXCEPT ![t] = l]
  BY DEF devq_process_queue
<1>1. CountersMatchQueue' /\ OldestExecutes' /\ OrderedIsOldest' /\ Listed' = Listed
  BY BookkeepingUnchanged DEF devq_process_queue
<1>d. /\ aborted' \in [Task -> BOOLEAN]
      /\ UNCHANGED <<queue_list, attr, queued, istate, blocked, todo, mgr, doomed>>
  BY <1>a, Zenon DEF devq_process_queue, TypeOK
<1>2. TypeOK'
  BY <1>a, <1>b, <1>c, <1>d DEF TypeOK, Loc
<1> HIDE DEF t
<1>3. ListOK'
  BY <1>a, <1>b, <1>c, <1>d, <1>1 DEF ListOK, TypeOK
<1>4. CommandOK'
  BY <1>a, <1>b, <1>c, <1>d, <1>1 DEF CommandOK, TypeOK
<1>5. DispatchedOnce'
  <2>1. \A i, j \in 1..Len(pending_queue') : pending_queue'[i] = pending_queue'[j] => i = j
    BY <1>a, <1>b DEF DispatchedOnce
  <2>2. Queue' = Queue \ {t}
    <3>1. \A i \in 1..Len(pending_queue') : pending_queue'[i] \in Queue \ {t}
      BY <1>a, <1>b DEF DispatchedOnce, Queue
    <3>2. ASSUME NEW i \in 1..Len(pending_queue), i # 1
          PROVE  pending_queue[i] \in Queue'
      <4>1. (i - 1) \in 1..Len(pending_queue') /\ pending_queue'[i - 1] = pending_queue[i]
        BY <1>b, <3>2
      <4> QED BY <4>1 DEF Queue
    <3>3. ASSUME NEW v \in Queue' PROVE v \in Queue \ {t}
      BY <3>1 DEF Queue
    <3>4. ASSUME NEW v \in Queue \ {t} PROVE v \in Queue'
      <4>1. PICK i \in 1..Len(pending_queue) : v = pending_queue[i]
        BY DEF Queue
      <4> QED BY <1>b, <3>2, <4>1
    <3> QED BY <3>3, <3>4
  <2>3. \A v \in Task : loc'[v] = "devq" <=> v \in Queue'
    BY <1>a, <1>b, <1>c, <2>2 DEF DispatchedOnce, TypeOK
  <2>4. \A v \in Task : (loc'[v] = "set" /\ queued'[v]) <=> \E w \in Task : v \in todo'[w]
    BY <1>a, <1>b, <1>c, <1>d DEF DispatchedOnce, TypeOK
  <2> QED BY <1>a, <1>d, <2>1, <2>3, <2>4 DEF DispatchedOnce
<1> QED BY <1>1, <1>2, <1>3, <1>4, <1>5 DEF IInv

LEMMA SendStep ==
  ASSUME IInv, NEW t \in Task, device_send_ccb(t)
  PROVE  IInv'
<1> USE DEF device_send_ccb
<1>a. /\ TypeOK /\ ListOK /\ CommandOK /\ DispatchedOnce
  BY DEF IInv
<1>1. CountersMatchQueue' /\ OldestExecutes' /\ OrderedIsOldest' /\ Listed' = Listed
  BY BookkeepingUnchanged
<1>2. TypeOK'
  <2>1. aborted' \in [Task -> BOOLEAN]
    BY <1>a, Zenon DEF TypeOK
  <2> QED BY <1>a, <2>1 DEF TypeOK, Loc
<1>3. ListOK'
  BY <1>a, <1>1 DEF ListOK, TypeOK
<1>4. CommandOK'
  BY <1>a, <1>1 DEF CommandOK, TypeOK
<1>5. DispatchedOnce'
  BY <1>a DEF DispatchedOnce, TypeOK, Queue
<1> QED BY <1>1, <1>2, <1>3, <1>4, <1>5 DEF IInv

LEMMA RemoveStep ==
  ASSUME IInv, NEW t \in Task, istate_remove_cmd(t)
  PROVE  IInv'
<1>a. /\ TypeOK /\ ListOK /\ CommandOK /\ CountersMatchQueue /\ OldestExecutes
      /\ OrderedIsOldest /\ DispatchedOnce
  BY DEF IInv
<1>b. PICK i \in 1..Len(queue_list) :
        /\ queue_list[i] = t
        /\ queue_list' = RemoveAtPos(queue_list, i)
        /\ queued' = [u \in Task |-> u # t /\ (queued[u] \/ u \in Allowed(i))]
        /\ istate' = Counters(t, Allowed(i))
        /\ todo' = [todo EXCEPT ![t] = Allowed(i)]
  BY DEF istate_remove_cmd
<1>c. /\ loc[t] = "send" /\ loc' = [loc EXCEPT ![t] = "idle"]
      /\ aborted' = [aborted EXCEPT ![t] = FALSE]
      /\ mgr' = [m \in Manager |-> [mgr[m] EXCEPT !.victims = @ \ {t}]]
      /\ doomed' = doomed \ {t}
      /\ attr' = [attr EXCEPT ![t] = "SIMPLE"]
      /\ UNCHANGED <<blocked, pending_queue>>
  BY DEF istate_remove_cmd
<1> DEFINE r == RemoveAtPos(queue_list, i)
           P == Allowed(i)
<1>d. /\ queue_list' = r /\ r \in Seq(Task) /\ Len(r) = Len(queue_list) - 1
      /\ Len(queue_list) \in Nat
      /\ \A j \in 1..Len(r) : r[j] = IF j < i THEN queue_list[j] ELSE queue_list[j + 1]
  <2>1. queue_list \in Seq(Task) /\ Len(queue_list) \in Nat
    BY <1>a DEF TypeOK
  <2>2. /\ r \in Seq(Task) /\ Len(r) = Len(queue_list) - 1
        /\ \A j \in 1..(Len(queue_list) - 1) :
             r[j] = IF j < i THEN queue_list[j] ELSE queue_list[j + 1]
    BY <2>1, RemoveAtPosFacts
  <2> QED BY <1>b, <2>1, <2>2
<1>e. /\ Listed' = Listed \ {t}
      /\ \A j, k \in 1..Len(r) : r[j] = r[k] => j = k
      /\ Listed' = {r[j] : j \in 1..Len(r)}
  <2>1. /\ queue_list \in Seq(Task)
        /\ \A j, k \in 1..Len(queue_list) : queue_list[j] = queue_list[k] => j = k
    BY <1>a DEF TypeOK, ListOK
  <2>2. /\ {r[j] : j \in 1..Len(r)} = Listed \ {queue_list[i]}
        /\ \A j, k \in 1..Len(r) : r[j] = r[k] => j = k
    BY <2>1, RemoveAtPosRange DEF Listed
  <2>3. Listed' = {r[j] : j \in 1..Len(r)}
    BY <1>d DEF Listed
  <2> QED BY <1>b, <2>2, <2>3
<1>f. P = IF istate.pending = 0 \/ i # 1 THEN {} ELSE {r[j] : j \in Promoted(r)}
  BY DEF Allowed
<1>g. P \in SUBSET (Waiting \ {t})
  <2>1. ASSUME NEW j \in Promoted(r) PROVE r[j] \in Waiting \ {t}
    BY <1>e, <2>1 DEF Promoted, Waiting
  <2> QED BY <1>f, <2>1
<1> HIDE DEF r, P
<1>h. /\ queued[t] /\ t \in Listed /\ todo[t] = {}
      /\ Listed \in SUBSET Task /\ P \in SUBSET Task
      /\ \A u \in P : u \in Listed /\ ~queued[u] /\ loc[u] = "set" /\ u # t /\ attr[u] # "HEAD"
  <2>1. queued[t] /\ t \in Listed /\ todo[t] = {}
    BY <1>a, <1>c DEF CommandOK, ListOK
  <2>2. Listed \in SUBSET Task /\ P \in SUBSET Task
    BY <1>g, FiniteCounts
  <2>3. \A u \in P : u \in Listed /\ ~queued[u] /\ u # t
    BY <1>g DEF Waiting
  <2>4. \A u \in P : loc[u] = "set" /\ attr[u] # "HEAD"
    BY <1>a, <2>2, <2>3 DEF CommandOK, ListOK, TypeOK, Loc
  <2> QED BY <2>1, <2>2, <2>3, <2>4
<1>i. /\ queued' \in [Task -> BOOLEAN]
      /\ \A u \in Task : queued'[u] <=> (u # t /\ (queued[u] \/ u \in P))
  BY <1>b, Zenon DEF P
<1>j. istate' = Counters(t, P) /\ todo' = [todo EXCEPT ![t] = P]
  BY <1>b DEF P
<1>k. /\ attr' \in [Task -> Attr]
      /\ \A u \in Task : u # t => attr'[u] = attr[u]
  BY <1>a, <1>c DEF TypeOK, Attr
<1>4. /\ CountersMatchQueue'
      /\ istate' \in [ordered : Nat, head : Nat, queued : Nat, pending : Nat]
  <2> DEFINE PO == {u \in P : attr[u] = "ORDERED"}
  <2>1. /\ ExecutingOrdered' = (ExecutingOrdered \ {t}) \cup PO
        /\ PO \cap ExecutingOrdered = {}
    BY <1>e, <1>h, <1>i, <1>k DEF ExecutingOrdered
  <2>2. ExecutingHead' = ExecutingHead \ {t}
    BY <1>e, <1>h, <1>i, <1>k DEF ExecutingHead
  <2>3. /\ Executing' = (Executing \ {t}) \cup P
        /\ P \cap Executing = {}
    BY <1>e, <1>h, <1>i DEF Executing
  <2>4. Waiting' = Waiting \ P /\ P \subseteq Waiting
    BY <1>e, <1>h, <1>i DEF Waiting
  <2>5. /\ t \in Executing
        /\ t \in ExecutingOrdered <=> attr[t] = "ORDERED"
        /\ t \in ExecutingHead <=> attr[t] = "HEAD"
    BY <1>h DEF Executing, ExecutingOrdered, ExecutingHead
  <2>6. PO \in SUBSET Task
    BY <1>h
  <2> HIDE DEF PO
  <2>7. ASSUME NEW S \in SUBSET Task, NEW Q \in SUBSET Task, Q \cap S = {}
        PROVE  Cardinality((S \ {t}) \cup Q)
                 = Cardinality(S) - One(t \in S) + Cardinality(Q)
    <3>1. /\ Cardinality(S \ {t}) = Cardinality(S) - One(t \in S)
      BY FiniteCounts, FS_RemoveElement DEF One
    <3>2. (S \ {t}) \cap Q = {}
      BY <2>7
    <3>3. IsFiniteSet(S \ {t}) /\ IsFiniteSet(Q) /\ Cardinality(S \ {t}) \in Nat
      BY FiniteCounts
    <3>4. Cardinality((S \ {t}) \cup Q)
            = Cardinality(S \ {t}) + Cardinality(Q) - Cardinality((S \ {t}) \cap Q)
      BY <3>3, FS_Union
    <3> QED BY <3>1, <3>2, <3>3, <3>4, FS_EmptySet, FiniteCounts DEF One
  <2>8. Cardinality(Waiting \ P) = Cardinality(Waiting) - Cardinality(P)
    <3>1. Waiting \cap P = P
      BY <2>4
    <3> QED BY <3>1, FiniteCounts, FS_Difference
  <2>9. /\ istate' = [ordered |-> istate.ordered - One(attr[t] = "ORDERED") + Cardinality(PO),
                      head    |-> istate.head - One(attr[t] = "HEAD"),
                      queued  |-> istate.queued - 1 + Cardinality(P),
                      pending |-> istate.pending - Cardinality(P)]
    BY <1>h, <1>j DEF Counters, One, PO
  <2>10. /\ istate'.ordered = Cardinality(ExecutingOrdered')
    <3>1. ExecutingOrdered \in SUBSET Task
      BY FiniteCounts
    <3>2. Cardinality((ExecutingOrdered \ {t}) \cup PO)
            = Cardinality(ExecutingOrdered) - One(t \in ExecutingOrdered) + Cardinality(PO)
      BY <2>1, <2>6, <2>7, <3>1
    <3>3. One(t \in ExecutingOrdered) = One(attr[t] = "ORDERED")
      BY <2>5 DEF One
    <3> QED BY <1>a, <2>1, <2>9, <3>2, <3>3, CountersBySet
  <2>11. /\ istate'.head = Cardinality(ExecutingHead')
    BY <1>a, <2>2, <2>5, <2>9, CountersBySet, FiniteCounts, FS_RemoveElement DEF One
  <2>12. /\ istate'.queued = Cardinality(Executing')
    <3>1. Cardinality((Executing \ {t}) \cup P)
            = Cardinality(Executing) - One(t \in Executing) + Cardinality(P)
      BY <1>h, <2>3, <2>7, FiniteCounts
    <3> QED BY <1>a, <2>3, <2>5, <2>9, <3>1, CountersBySet DEF One
  <2>13. /\ istate'.pending = Cardinality(Waiting')
    BY <1>a, <2>4, <2>8, <2>9, CountersBySet
  <2>14. /\ Cardinality(ExecutingOrdered') \in Nat /\ Cardinality(ExecutingHead') \in Nat
         /\ Cardinality(Executing') \in Nat /\ Cardinality(Waiting') \in Nat
    BY <1>h, <2>1, <2>2, <2>3, <2>4, <2>6, FiniteCounts
  <2> QED BY <2>9, <2>10, <2>11, <2>12, <2>13, <2>14
          DEF CountersMatchQueue, ExecutingOrdered, ExecutingHead, Executing, Waiting
<1>1. TypeOK'
  <2>1. aborted' \in [Task -> BOOLEAN]
    BY <1>a, <1>c, Zenon DEF TypeOK
  <2>2. mgr' \in [Manager -> [op : Op, victims : SUBSET Task]]
    BY <1>a, <1>c DEF TypeOK
  <2>3. loc' \in [Task -> Loc] /\ todo' \in [Task -> SUBSET Task] /\ doomed' \in SUBSET Task
    BY <1>a, <1>c, <1>h, <1>j DEF TypeOK, Loc
  <2> QED BY <1>a, <1>c, <1>d, <1>i, <1>k, <1>4, <2>1, <2>2, <2>3 DEF TypeOK
<1>2. ListOK'
  BY <1>a, <1>c, <1>d, <1>e DEF ListOK, TypeOK
<1>3. CommandOK'
  BY <1>a, <1>c, <1>e, <1>h, <1>i, <1>j, <1>k DEF CommandOK, TypeOK, DispatchedOnce
<1>5. OldestExecutes'
  <2> SUFFICES ASSUME queue_list' # <<>> PROVE queued'[queue_list'[1]]
    BY DEF OldestExecutes
  <2>1. 1 \in 1..Len(r) /\ r[1] \in Task /\ r[1] \in Listed /\ r[1] # t
    BY <1>d, <1>e, <1>h
  <2>2. CASE i # 1
    BY <1>a, <1>b, <1>d, <1>i, <2>1, <2>2 DEF OldestExecutes
  <2>3. CASE istate.pending = 0
    BY <1>d, <1>i, <2>1, <2>3, NoneExecuting DEF Waiting
  <2>4. CASE i = 1 /\ istate.pending # 0 /\ ~queued[r[1]]
    <3>1. attr[r[1]] \in {"SIMPLE", "ORDERED"}
      BY <1>a, <2>1, <2>4 DEF CommandOK, TypeOK, Attr
    <3>2. 1 \in Promoted(r)
      BY <2>1, <2>4, <3>1 DEF Promoted
    <3> QED BY <1>d, <1>f, <1>i, <2>1, <2>4, <3>2
  <2> QED BY <1>d, <1>i, <2>1, <2>2, <2>3, <2>4
<1>6. OrderedIsOldest'
  <2> SUFFICES ASSUME NEW j \in 1..Len(r), queued'[r[j]], attr'[r[j]] = "ORDERED"
               PROVE  j = 1
    BY <1>d DEF OrderedIsOldest
  <2>1. r[j] \in Task /\ r[j] \in Listed /\ r[j] # t /\ attr[r[j]] = "ORDERED"
    BY <1>e, <1>h, <1>k
  <2>2. CASE queued[r[j]]
    <3>1. CASE j < i
      BY <1>a, <1>d, <2>1, <2>2, <3>1 DEF OrderedIsOldest
    <3>2. CASE j >= i
      <4>1. (j + 1) \in 1..Len(queue_list) /\ queue_list[j + 1] = r[j]
        BY <1>d, <3>2
      <4>2. j + 1 = 1
        BY <1>a, <2>1, <2>2, <4>1 DEF OrderedIsOldest
      <4> QED BY <4>2
    <3> QED BY <1>d, <3>1, <3>2
  <2>3. CASE r[j] \in P
    <3>1. PICK k \in Promoted(r) : r[k] = r[j]
      BY <1>f, <2>3
    <3>2. k = j /\ k = 1
      BY <1>e, <2>1, <3>1 DEF Promoted
    <3> QED BY <3>2
  <2> QED BY <1>i, <2>1, <2>2, <2>3
<1>7. DispatchedOnce'
  <2>1. Queue' = Queue
    BY <1>c DEF Queue
  <2>2. \A v \in Task : loc'[v] = "devq" <=> v \in Queue'
    BY <1>a, <1>c, <2>1 DEF DispatchedOnce, TypeOK
  <2>3. \A v \in P : \A w \in Task : v \notin todo[w]
    BY <1>a, <1>h DEF DispatchedOnce
  <2>4. \A v \in Task : \A s, w \in Task : v \in todo'[s] \cap todo'[w] => s = w
    BY <1>a, <1>h, <1>j, <2>3 DEF DispatchedOnce, TypeOK
  <2>5. \A v \in Task : (loc'[v] = "set" /\ queued'[v]) <=> \E w \in Task : v \in todo'[w]
    BY <1>a, <1>c, <1>h, <1>i, <1>j DEF DispatchedOnce, TypeOK
  <2> QED BY <1>a, <1>c, <2>2, <2>4, <2>5 DEF DispatchedOnce
<1> QED BY <1>1, <1>2, <1>3, <1>4, <1>5, <1>6, <1>7 DEF IInv

(* Every step of the system preserves the inductive invariant.             *)
LEMMA NextIInv == IInv /\ [Next]_vars => IInv'
<1> SUFFICES ASSUME IInv, [Next]_vars PROVE IInv'
  OBVIOUS
<1>a. TypeOK
  BY DEF IInv
<1>b. Listed \in SUBSET Task /\ Queue \in SUBSET Task
  <2>1. Listed \in SUBSET Task
    BY FiniteCounts
  <2>2. Queue \in SUBSET Task
    BY <1>a DEF Queue, TypeOK
  <2> QED BY <2>1, <2>2
<1>c. \A S : Flag(S) \in [Task -> BOOLEAN]
  BY <1>a, Zenon DEF Flag, TypeOK
<1>d. (blocked \/ queue_list # <<>>) \in BOOLEAN
  OBVIOUS
<1>e. ASSUME NEW m \in Manager, NEW op \in Op, NEW V \in SUBSET Task, Begin(m, op, V)
      PROVE  mgr' \in [Manager -> [op : Op, victims : SUBSET Task]]
  BY <1>a, <1>e DEF Begin, TypeOK
<1>f. \A m \in Manager : mgr[m].victims \in SUBSET Task
  BY <1>a DEF TypeOK
<1>1. ASSUME NEW t \in Task, NEW a \in Attr, istate_queue_cmd(t, a) PROVE IInv'
  BY <1>1, QueueCmdStep
<1>2. ASSUME NEW t \in Task, gdevq_insert_ccb(t) PROVE IInv'
  BY <1>2, InsertStep
<1>3. CASE devq_process_queue
  BY <1>3, ProcessStep
<1>4. ASSUME NEW t \in Task, device_send_ccb(t) PROVE IInv'
  BY <1>4, SendStep
<1>5. ASSUME NEW t \in Task, istate_remove_cmd(t) PROVE IInv'
  BY <1>5, RemoveStep
<1>6. ASSUME NEW m \in Manager, NEW t \in Task, abort_task(m, t) PROVE IInv'
  <2>1. istate_abort_task(t) \cup gdevq_abort_task(t) \in SUBSET Task
    BY <1>b DEF istate_abort_task, gdevq_abort_task
  <2>2. mgr' \in [Manager -> [op : Op, victims : SUBSET Task]]
    BY <1>6, <1>e, <2>1 DEF abort_task, Op
  <2>3. /\ aborted' \in [Task -> BOOLEAN] /\ blocked' \in BOOLEAN /\ doomed' \in SUBSET Task
        /\ OthersUnchanged
    BY <1>6, <1>a, <1>c, Zenon DEF abort_task, TypeOK
  <2> QED BY <2>2, <2>3, ManagerStep
<1>7. ASSUME NEW m \in Manager, abort_task_gone(m) PROVE IInv'
  BY <1>7, <1>a, <1>e, ManagerStep DEF abort_task_gone, Op, TypeOK
<1>8. ASSUME NEW m \in Manager, abort_task_set(m) PROVE IInv'
  <2>1. mgr' \in [Manager -> [op : Op, victims : SUBSET Task]]
    BY <1>8, <1>b, <1>e DEF abort_task_set, Op
  <2>2. /\ aborted' \in [Task -> BOOLEAN] /\ blocked' \in BOOLEAN /\ doomed' \in SUBSET Task
        /\ OthersUnchanged
    BY <1>8, <1>a, <1>c, Zenon DEF abort_task_set, TypeOK
  <2> QED BY <2>1, <2>2, ManagerStep
<1>9. ASSUME NEW m \in Manager, abort_task_set_drained(m) PROVE IInv'
  BY <1>9, <1>a, <1>e, <1>f, ManagerStep DEF abort_task_set_drained, Op, TypeOK
<1>10. ASSUME NEW m \in Manager, unblock(m) PROVE IInv'
  <2>1. mgr' \in [Manager -> [op : Op, victims : SUBSET Task]]
    BY <1>10, <1>e DEF unblock, Op
  <2>2. /\ aborted' \in [Task -> BOOLEAN] /\ blocked' \in BOOLEAN /\ OthersUnchanged
    BY <1>10, <1>a, Zenon DEF unblock, TypeOK
  <2>3. doomed' \in SUBSET Task
    BY <1>10, <1>a, <1>f DEF unblock, TypeOK
  <2> QED BY <2>1, <2>2, <2>3, ManagerStep
<1>11. ASSUME NEW m \in Manager, tdisk_reset(m) PROVE IInv'
  <2>1. mgr' \in [Manager -> [op : Op, victims : SUBSET Task]]
    BY <1>11, <1>b, <1>e DEF tdisk_reset, Op
  <2>2. /\ aborted' \in [Task -> BOOLEAN] /\ blocked' \in BOOLEAN /\ doomed' \in SUBSET Task
        /\ OthersUnchanged
    BY <1>11, <1>a, <1>c, Zenon DEF tdisk_reset, TypeOK
  <2> QED BY <2>1, <2>2, ManagerStep
<1>12. ASSUME NEW m \in Manager, device_unblock_queues(m) PROVE IInv'
  <2>1. mgr' \in [Manager -> [op : Op, victims : SUBSET Task]]
    BY <1>12, <1>e DEF device_unblock_queues, Op
  <2>2. /\ aborted' \in [Task -> BOOLEAN] /\ blocked' \in BOOLEAN /\ doomed' \in SUBSET Task
        /\ OthersUnchanged
    BY <1>12, <1>a, Zenon DEF device_unblock_queues, TypeOK
  <2> QED BY <2>1, <2>2, ManagerStep
<1>13. CASE UNCHANGED vars
  <2>1. OthersUnchanged /\ UNCHANGED <<aborted, blocked, mgr, doomed>>
    BY <1>13 DEF vars, OthersUnchanged
  <2> QED BY <1>a, <2>1, ManagerStep DEF TypeOK
<1> QED BY <1>1, <1>2, <1>3, <1>4, <1>5, <1>6, <1>7, <1>8, <1>9, <1>10, <1>11,
           <1>12, <1>13 DEF Next

LEMMA IInvAlways == Spec => []IInv
<1> QED BY InitIInv, NextIInv, PTL DEF Spec

\* Type correctness.
THEOREM TypesCorrect == Spec => []TypeOK
<1>1. IInv => TypeOK
  BY DEF IInv
<1> QED BY IInvAlways, <1>1, PTL

(***************************************************************************)
(* The task set's counters are never wrong, whatever commands arrive and   *)
(* are aborted: istate->ordered, head, queued and pending are the numbers  *)
(* of commands in queue_list they stand for.                               *)
(***************************************************************************)
THEOREM CountersCorrect == Spec => []CountersMatchQueue
<1>1. IInv => CountersMatchQueue
  BY DEF IInv
<1> QED BY IInvAlways, <1>1, PTL

(***************************************************************************)
(* The task set never stalls: while commands are accepted the oldest one   *)
(* has been allowed to execute, so its completion makes istate_remove_cmd  *)
(* look for the next.                                                      *)
(***************************************************************************)
THEOREM NeverStalls == Spec => []OldestExecutes
<1>1. IInv => OldestExecutes
  BY DEF IInv
<1> QED BY IInvAlways, <1>1, PTL

(***************************************************************************)
(* An ORDERED command executes only once everything accepted before it has *)
(* completed, and at most one executes.                                    *)
(***************************************************************************)
THEOREM OrderedBarrier == Spec => []OrderedIsOldest
<1>1. IInv => OrderedIsOldest
  BY DEF IInv
<1> QED BY IInvAlways, <1>1, PTL

(***************************************************************************)
(* No command is handed to the device queue twice or forgotten between     *)
(* istate_lock and devq_wait.                                              *)
(***************************************************************************)
THEOREM NoDoubleDispatch == Spec => []DispatchedOnce
<1>1. IInv => DispatchedOnce
  BY DEF IInv
<1> QED BY IInvAlways, <1>1, PTL

-----------------------------------------------------------------------------
(***************************************************************************)
(* A command that ABORT TASK has found stays marked until device_send_ccb. *)
(***************************************************************************)
Marked(t) ==
  t \in Listed /\ loc[t] # "run" /\ (loc[t] \in {"set", "devq"} => aborted[t])

AbortInv ==
  /\ \A t \in doomed : Marked(t)
  /\ \A m \in Manager : mgr[m].victims \subseteq Listed
  /\ \A m \in Manager : mgr[m].op = "unblock" => \A t \in mgr[m].victims : Marked(t)

(* A step that keeps what was marked marked, and marks what it reports.    *)
LEMMA AbortKept ==
  ASSUME AbortInv, doomed' \subseteq doomed, mgr' = mgr, Listed \subseteq Listed',
         \A t \in Listed : Marked(t) => Marked(t)'
  PROVE  AbortInv'
  BY DEF AbortInv, Marked

(* What the task management functions do to marks.                         *)
LEMMA AbortManager ==
  ASSUME IInv, AbortInv, OthersUnchanged, \A t \in Task : aborted[t] => aborted'[t],
         NEW m \in Manager, NEW op \in Op, NEW V \in SUBSET Listed, Begin(m, op, V),
         op = "unblock" => \A t \in V : Marked(t)',
         \A t \in doomed' : t \in doomed \/ Marked(t)
  PROVE  AbortInv'
<1>1. Listed' = Listed /\ Listed \in SUBSET Task
  BY FiniteCounts DEF OthersUnchanged, Listed
<1>2. \A t \in Listed : Marked(t) => Marked(t)'
  BY <1>1 DEF OthersUnchanged, Marked
<1>3. \A n \in Manager : mgr'[n] = IF n = m THEN [op |-> op, victims |-> V] ELSE mgr[n]
  BY DEF Begin, IInv, TypeOK
<1>4. \A t \in doomed' : Marked(t)'
  BY <1>2 DEF AbortInv, Marked
<1>5. \A n \in Manager : mgr'[n].victims \subseteq Listed'
  BY <1>1, <1>3 DEF AbortInv
<1>6. ASSUME NEW n \in Manager, mgr'[n].op = "unblock", NEW t \in mgr'[n].victims
      PROVE  Marked(t)'
  BY <1>2, <1>3, <1>6 DEF AbortInv, Marked
<1> QED BY <1>4, <1>5, <1>6 DEF AbortInv

LEMMA InitAbortInv == Init => AbortInv
  BY DEF Init, AbortInv

LEMMA NextAbortInv == IInv /\ IInv' /\ AbortInv /\ [Next]_vars => AbortInv'
<1> SUFFICES ASSUME IInv, IInv', AbortInv, [Next]_vars PROVE AbortInv'
  OBVIOUS
<1>a. TypeOK /\ ListOK /\ DispatchedOnce /\ Listed \in SUBSET Task
  BY FiniteCounts DEF IInv
<1>b. ListOK'
  BY DEF IInv
<1>1. ASSUME NEW t \in Task, NEW a \in Attr, istate_queue_cmd(t, a) PROVE AbortInv'
  <2>a. queue_list' = Append(queue_list, t) /\ queue_list \in Seq(Task) /\ loc[t] = "idle"
    BY <1>1, <1>a DEF istate_queue_cmd, TypeOK
  <2>b. Listed' = Listed \cup {t}
    <3>1. Len(queue_list') = Len(queue_list) + 1 /\ Len(queue_list) \in Nat
      BY <2>a
    <3>2. /\ \A i \in 1..Len(queue_list) : queue_list'[i] = queue_list[i]
          /\ queue_list'[Len(queue_list) + 1] = t
      BY <2>a
    <3>3. 1..Len(queue_list') = (1..Len(queue_list)) \cup {Len(queue_list) + 1}
      BY <3>1
    <3> QED BY <3>2, <3>3 DEF Listed
  <2>c. t \notin Listed
    BY <1>a, <2>a DEF ListOK
  <2>1. Listed' = Listed \cup {t} /\ t \notin Listed
    BY <2>b, <2>c
  <2>2. \A u \in Listed : Marked(u) => Marked(u)'
    BY <1>1, <1>a, <2>1 DEF istate_queue_cmd, Marked, TypeOK
  <2> QED BY <1>1, <2>1, <2>2, AbortKept DEF istate_queue_cmd
<1>2. ASSUME NEW t \in Task, gdevq_insert_ccb(t) PROVE AbortInv'
  <2>1. Listed' = Listed
    BY <1>2 DEF gdevq_insert_ccb, Listed
  <2>2. PICK u \in Task : u \in todo[t] /\ loc' = [loc EXCEPT ![u] = "devq"]
    BY <1>2, <1>a DEF gdevq_insert_ccb, TypeOK
  <2>3. loc[u] = "set"
    BY <1>a, <2>2 DEF DispatchedOnce
  <2>4. aborted' = aborted /\ mgr' = mgr /\ doomed' = doomed
    BY <1>2 DEF gdevq_insert_ccb
  <2>5. \A v \in Listed : Marked(v) => Marked(v)'
    BY <1>a, <2>1, <2>2, <2>3, <2>4 DEF Marked, TypeOK
  <2> QED BY <2>1, <2>4, <2>5, AbortKept
<1>3. CASE devq_process_queue
  <2> DEFINE h == Head(pending_queue)
  <2>1. Listed' = Listed /\ mgr' = mgr /\ doomed' = doomed
    BY <1>3 DEF devq_process_queue, Listed
  <2>2. h \in Task /\ loc[h] = "devq"
    BY <1>3, <1>a DEF devq_process_queue, TypeOK, DispatchedOnce, Queue
  <2>3. \/ ~aborted[h] /\ loc' = [loc EXCEPT ![h] = "run"] /\ aborted' = aborted
        \/ loc' = [loc EXCEPT ![h] = "send"] /\ aborted' = [aborted EXCEPT ![h] = FALSE]
    BY <1>3 DEF devq_process_queue
  <2> HIDE DEF h
  <2>4. \A v \in Listed : Marked(v) => Marked(v)'
    BY <1>a, <2>1, <2>2, <2>3 DEF Marked, TypeOK
  <2> QED BY <2>1, <2>4, AbortKept
<1>4. ASSUME NEW t \in Task, device_send_ccb(t) PROVE AbortInv'
  <2>1. Listed' = Listed /\ mgr' = mgr /\ doomed' = doomed
    BY <1>4 DEF device_send_ccb, Listed
  <2>2. \A v \in Listed : Marked(v) => Marked(v)'
    BY <1>4, <1>a, <2>1 DEF device_send_ccb, Marked, TypeOK
  <2> QED BY <2>1, <2>2, AbortKept
<1>5. ASSUME NEW t \in Task, istate_remove_cmd(t) PROVE AbortInv'
  <2>1. /\ loc' = [loc EXCEPT ![t] = "idle"] /\ aborted' = [aborted EXCEPT ![t] = FALSE]
        /\ doomed' = doomed \ {t}
        /\ mgr' = [m \in Manager |-> [mgr[m] EXCEPT !.victims = @ \ {t}]]
    BY <1>5 DEF istate_remove_cmd
  <2>2. \A u \in Task : u # t /\ u \in Listed => u \in Listed'
    BY <1>a, <1>b, <2>1 DEF ListOK, TypeOK
  <2>3. \A u \in Listed : u # t /\ Marked(u) => Marked(u)'
    BY <1>a, <2>1, <2>2 DEF Marked, TypeOK
  <2>4. \A m \in Manager : mgr'[m].op = mgr[m].op /\ mgr'[m].victims = mgr[m].victims \ {t}
    BY <1>a, <2>1 DEF TypeOK
  <2>5. \A u \in doomed' : Marked(u)'
    BY <2>1, <2>3 DEF AbortInv, Marked
  <2>6. \A m \in Manager : mgr'[m].victims \subseteq Listed'
    BY <1>a, <2>2, <2>4 DEF AbortInv
  <2>7. \A m \in Manager : mgr'[m].op = "unblock" => \A u \in mgr'[m].victims : Marked(u)'
    BY <2>3, <2>4 DEF AbortInv, Marked
  <2> QED BY <2>5, <2>6, <2>7 DEF AbortInv
<1>6. ASSUME NEW m \in Manager, NEW t \in Task, abort_task(m, t) PROVE AbortInv'
  <2> DEFINE found == istate_abort_task(t) \cup gdevq_abort_task(t)
  <2>1. found \in SUBSET Listed /\ \A u \in found : loc[u] # "run"
    BY <1>a DEF istate_abort_task, gdevq_abort_task, ListOK, DispatchedOnce, InDevq, Queue, TypeOK
  <2>2. OthersUnchanged /\ aborted' = Flag(found) /\ doomed' = doomed
    BY <1>6 DEF abort_task
  <2>3. Listed' = Listed
    BY <2>2 DEF OthersUnchanged, Listed
  <2>4. (found = {} /\ Begin(m, "task", {t}) /\ t \in Listed) \/ Begin(m, "unblock", found)
    BY <1>6 DEF abort_task
  <2> HIDE DEF found
  <2>5. \A u \in found : Marked(u)'
    <3>1. \A u \in found : aborted'[u]
      BY <1>a, <2>1, <2>2, Zenon DEF Flag
    <3> QED BY <2>1, <2>2, <2>3, <3>1 DEF Marked, OthersUnchanged
  <2>6. \A u \in Task : aborted[u] => aborted'[u]
    BY <2>2, Zenon DEF Flag
  <2>7. CASE Begin(m, "unblock", found)
    BY <2>1, <2>2, <2>5, <2>6, <2>7, AbortManager DEF Op
  <2>8. CASE Begin(m, "task", {t}) /\ t \in Listed
    BY <2>2, <2>6, <2>8, AbortManager DEF Op
  <2> QED BY <2>4, <2>7, <2>8
<1>7. ASSUME NEW m \in Manager, abort_task_gone(m) PROVE AbortInv'
  BY <1>7, AbortManager DEF abort_task_gone, Op
<1>8. ASSUME NEW m \in Manager, abort_task_set(m) PROVE AbortInv'
  <2>1. \A u \in Task : aborted[u] => aborted'[u]
    BY <1>8, Zenon DEF abort_task_set, Flag
  <2> QED BY <1>8, <2>1, AbortManager DEF abort_task_set, Op
<1>9. ASSUME NEW m \in Manager, abort_task_set_drained(m) PROVE AbortInv'
  <2>1. mgr[m].victims = {}
    BY <1>9 DEF abort_task_set_drained, AbortInv, Listed
  <2> QED BY <1>9, <2>1, AbortManager DEF abort_task_set_drained, Op
<1>10. ASSUME NEW m \in Manager, unblock(m) PROVE AbortInv'
  <2>1. OthersUnchanged /\ aborted' = aborted /\ Begin(m, "idle", {})
    BY <1>10 DEF unblock
  <2>2. \A t \in doomed' : t \in doomed \/ Marked(t)
    BY <1>10 DEF unblock, AbortInv
  <2>3. "idle" \in Op /\ {} \in SUBSET Listed
    BY DEF Op
  <2> QED BY <2>1, <2>2, <2>3, AbortManager
<1>11. ASSUME NEW m \in Manager, tdisk_reset(m) PROVE AbortInv'
  <2>1. \A u \in Task : aborted[u] => aborted'[u]
    BY <1>11, Zenon DEF tdisk_reset, Flag
  <2> QED BY <1>11, <2>1, AbortManager DEF tdisk_reset, Op
<1>12. ASSUME NEW m \in Manager, device_unblock_queues(m) PROVE AbortInv'
  <2>1. OthersUnchanged /\ aborted' = aborted /\ doomed' = doomed /\ Begin(m, "idle", {})
    BY <1>12 DEF device_unblock_queues
  <2>2. "idle" \in Op /\ {} \in SUBSET Listed
    BY DEF Op
  <2> QED BY <2>1, <2>2, AbortManager
<1>13. CASE UNCHANGED vars
  BY <1>13 DEF vars, AbortInv, Marked, Listed
<1> QED BY <1>1, <1>2, <1>3, <1>4, <1>5, <1>6, <1>7, <1>8, <1>9, <1>10, <1>11,
           <1>12, <1>13 DEF Next

(***************************************************************************)
(* Once ABORT TASK has reported a command aborted the command never        *)
(* executes, for any number of concurrent task management functions.       *)
(***************************************************************************)
THEOREM AbortIsFinal == Spec => []AbortedNeverRuns
<1>1. AbortInv => AbortedNeverRuns
  BY DEF AbortInv, AbortedNeverRuns, Marked
<1> QED BY IInvAlways, InitAbortInv, NextAbortInv, <1>1, PTL DEF Spec

-----------------------------------------------------------------------------
(***************************************************************************)
(* No step lets a SIMPLE command execute beside an ORDERED one: on arrival *)
(* istate->ordered is zero, and istate_remove_cmd's scan stops at an       *)
(* ORDERED command, which is then the oldest.                              *)
(***************************************************************************)
LEMMA SimpleStep ==
  ASSUME IInv, IInv', [Next]_vars, NEW t \in Task,
         ~queued[t], queued'[t], attr'[t] = "SIMPLE",
         NEW u \in Listed', queued'[u], attr'[u] = "ORDERED"
  PROVE  FALSE
<1>a. TypeOK /\ ListOK
  BY DEF IInv
<1>1. ASSUME NEW v \in Task, NEW a \in Attr, istate_queue_cmd(v, a) PROVE FALSE
  <2>1. v = t /\ a = "SIMPLE" /\ ExecNow(a)
    BY <1>1, <1>a DEF istate_queue_cmd, TypeOK
  <2>2. ExecutingOrdered = {}
    BY <2>1, NoneExecuting DEF ExecNow
  <2>3. u # t /\ u \in Listed
    <3>1. /\ queue_list' = Append(queue_list, t) /\ queue_list \in Seq(Task)
          /\ attr'[t] = "SIMPLE"
      BY <1>1, <1>a, <2>1 DEF istate_queue_cmd, TypeOK
    <3>2. u # t
      BY <3>1
    <3>3. PICK n \in 1..Len(queue_list') : u = queue_list'[n]
      BY DEF Listed
    <3>4. n \in 1..Len(queue_list) /\ u = queue_list[n]
      BY <3>1, <3>2, <3>3
    <3> QED BY <3>2, <3>4 DEF Listed
  <2>4. queued[u] /\ attr[u] = "ORDERED"
    BY <1>1, <1>a, <2>1, <2>3, FiniteCounts DEF istate_queue_cmd, TypeOK
  <2> QED BY <2>2, <2>3, <2>4 DEF ExecutingOrdered
<1>2. ASSUME NEW v \in Task, istate_remove_cmd(v) PROVE FALSE
  <2>1. PICK i \in 1..Len(queue_list) :
          /\ queue_list' = RemoveAtPos(queue_list, i)
          /\ queued' = [w \in Task |-> w # v /\ (queued[w] \/ w \in Allowed(i))]
    BY <1>2 DEF istate_remove_cmd
  <2>2. attr' = [attr EXCEPT ![v] = "SIMPLE"]
    BY <1>2 DEF istate_remove_cmd
  <2>3. t # v /\ t \in Allowed(i)
    BY <2>1
  <2>4. PICK k \in Promoted(queue_list') : t = queue_list'[k]
    BY <2>1, <2>3 DEF Allowed
  <2>5. PICK n \in 1..Len(queue_list') : u = queue_list'[n]
    BY DEF Listed
  <2>6. n = 1
    BY <2>5 DEF IInv, OrderedIsOldest
  <2>7. u \in Task /\ u # v /\ attr[u] = "ORDERED"
    <3>1. queue_list' \in Seq(Task) /\ attr \in [Task -> Attr]
      BY <1>a DEF IInv, TypeOK
    <3>2. u \in Task
      BY <2>5, <3>1
    <3> QED BY <2>2, <3>1, <3>2
  <2>8. k \in 1..Len(queue_list') /\ Len(queue_list') \in Nat
    BY DEF Promoted, IInv, TypeOK
  <2>9. k # 1
    BY <2>4, <2>5, <2>6
  <2>10. attr[t] = "SIMPLE"
    BY <1>a, <2>2, <2>3 DEF TypeOK
  <2>11. attr[queue_list'[1]] = "SIMPLE"
    BY <2>4, <2>8, <2>9, <2>10 DEF Promoted
  <2> QED BY <2>5, <2>6, <2>7, <2>11
<1>3. ASSUME UNCHANGED queued PROVE FALSE
  BY <1>3
<1>4. ASSUME NEW m \in Manager, NEW v \in Task, abort_task(m, v) PROVE FALSE
  BY <1>3, <1>4 DEF abort_task, OthersUnchanged
<1>5. ASSUME NEW m \in Manager,
             \/ abort_task_gone(m) \/ abort_task_set(m) \/ abort_task_set_drained(m)
             \/ unblock(m) \/ tdisk_reset(m) \/ device_unblock_queues(m)
      PROVE  FALSE
  BY <1>3, <1>5 DEF abort_task_gone, abort_task_set, abort_task_set_drained, unblock,
                    tdisk_reset, device_unblock_queues, OthersUnchanged
<1>6. ASSUME NEW v \in Task, gdevq_insert_ccb(v) \/ device_send_ccb(v) PROVE FALSE
  BY <1>3, <1>6 DEF gdevq_insert_ccb, device_send_ccb
<1>7. CASE devq_process_queue \/ UNCHANGED vars
  BY <1>3, <1>7 DEF devq_process_queue, vars
<1> QED BY <1>1, <1>2, <1>4, <1>5, <1>6, <1>7 DEF Next

(***************************************************************************)
(* No SIMPLE command starts while an ORDERED command executes.             *)
(***************************************************************************)
THEOREM SimpleBehindOrdered == Spec => SimpleWaitsForOrdered
<1>1. IInv /\ IInv' /\ [Next]_vars =>
        [\A t \in Task :
           (~queued[t] /\ queued'[t] /\ attr'[t] = "SIMPLE")
             => ~\E u \in Listed' : queued'[u] /\ attr'[u] = "ORDERED"]_vars
  BY SimpleStep
<1> QED BY IInvAlways, <1>1, PTL DEF Spec, SimpleWaitsForOrdered
=============================================================================
