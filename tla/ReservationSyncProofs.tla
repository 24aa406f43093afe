------------------------ MODULE ReservationSyncProofs ------------------------
(***************************************************************************)
(* Proofs about ReservationSync: telling the standby leaves the master what *)
(* Reservation says it is, and the standby is in step whenever the lock is  *)
(* free.                                                                    *)
(***************************************************************************)
EXTENDS ReservationSync, ReservationProofs

USE ReservationAssumption DEF ZeroKey, NoInitiator

LEMMA OutIsOut ==
    ASSUME NEW c \in Ctio, persistent_reserve_out_sync(c)
    PROVE  tdisk_cmd_persistent_reserve_out(c)
  BY DEF persistent_reserve_out_sync, tdisk_cmd_persistent_reserve_out

\* Every step is one of Reservation or leaves its variables alone.
LEMMA SyncStep == [SyncNext]_syncVars => [Next]_vars
<1> SUFFICES ASSUME [SyncNext]_syncVars PROVE [Next]_vars OBVIOUS
<1>1. CASE UNCHANGED syncVars BY <1>1 DEF syncVars, vars
<1>2. CASE node_sync_send_page \/ node_sync_disable
  BY <1>2 DEF node_sync_send_page, node_sync_disable, vars
<1>3. CASE \E c \in Ctio : other_cmd(c) BY <1>3 DEF Next
<1>4. CASE Locked
  <2>1. CASE \E c \in Ctio, i \in Initiator, op \in Op : tdisk_proc_cmd(c, i, op)
    BY <2>1 DEF Next
  <2>2. CASE \E c \in Ctio : persistent_reserve_out_sync(c)
    BY <2>2, OutIsOut DEF Next
  <2>3. CASE \E c \in Ctio : tdisk_cmd_request_sense(c) \/ reserve_sync(c) \/ release_sync(c)
    BY <2>3 DEF Next, reserve_sync, release_sync
  <2>4. CASE reset_sync BY <2>4 DEF Next, reset_sync
  <2>5. CASE \E i \in Initiator : device_free_initiator(i) BY <2>5 DEF Next
  <2> QED BY <1>4, <2>1, <2>2, <2>3, <2>4, <2>5 DEF Locked
<1> QED BY <1>1, <1>2, <1>3, <1>4 DEF SyncNext

\* The master of a pair is a Reservation: the messages add no behaviour.
THEOREM SyncImplements == SyncSpec => Spec
<1>1. SyncInit => Init BY DEF SyncInit
<1> QED BY <1>1, SyncStep, PTL DEF SyncSpec, Spec

-----------------------------------------------------------------------------
(* Sequences of messages.                                                   *)

SenseOp == {"ISTATE_CLEAR", "SENSE_STATE"}

Message == [op : {"ADD", "DELETE", "MODIFY", "RESERVATION", "CLEAR"} \cup SenseOp,
            who : SUBSET Registration, res : Reservations, gen : 0 .. GenMod - 1]

Elems(s) == {s[n] : n \in 1 .. Len(s)}

\* The copies of the senses follow at once when the old ones are dropped.
Ordered(s) ==
    \A n \in 1 .. Len(s) :
        s[n].op = "ISTATE_CLEAR" => n < Len(s) /\ s[n + 1].op = "SENSE_STATE"

LEMMA Concat ==
    ASSUME NEW s \in Seq(Message), NEW t \in Seq(Message)
    PROVE  /\ s \o t \in Seq(Message)
           /\ Elems(s \o t) = Elems(s) \cup Elems(t)
           /\ Ordered(s) /\ Ordered(t) => Ordered(s \o t)
           /\ t # <<>> => /\ s \o t # <<>>
                          /\ (s \o t)[Len(s \o t)] = t[Len(t)]
<1> DEFINE u == s \o t
<1>1. /\ u \in Seq(Message) /\ Len(s) \in Nat /\ Len(t) \in Nat /\ Len(u) = Len(s) + Len(t)
      /\ \A n \in 1 .. Len(u) : u[n] = IF n <= Len(s) THEN s[n] ELSE t[n - Len(s)]
  OBVIOUS
<1>2. t # <<>> => Len(t) > 0 OBVIOUS
<1> HIDE DEF u
<1>3. \A n \in 1 .. Len(s) : n \in 1 .. Len(u) /\ u[n] = s[n] BY <1>1
<1>4. ASSUME NEW n \in 1 .. Len(t)
      PROVE  Len(s) + n \in 1 .. Len(u) /\ u[Len(s) + n] = t[n]
  <2>1. /\ Len(s) + n \in 1 .. Len(u) /\ ~(Len(s) + n <= Len(s))
        /\ (Len(s) + n) - Len(s) = n
    BY <1>1
  <2>2. u[Len(s) + n] = t[(Len(s) + n) - Len(s)] BY <1>1, <2>1
  <2> QED BY <2>1, <2>2
<1>5. Elems(s) \subseteq Elems(u) BY <1>3 DEF Elems
<1>6. Elems(t) \subseteq Elems(u) BY <1>4 DEF Elems
<1>7. Elems(u) \subseteq Elems(s) \cup Elems(t)
  <2> SUFFICES ASSUME NEW n \in 1 .. Len(u) PROVE u[n] \in Elems(s) \cup Elems(t)
    BY DEF Elems
  <2>1. CASE n <= Len(s)
    <3>1. n \in 1 .. Len(s) /\ u[n] = s[n] BY <1>1, <2>1
    <3> QED BY <3>1 DEF Elems
  <2>2. CASE ~(n <= Len(s))
    <3>1. n - Len(s) \in 1 .. Len(t) /\ u[n] = t[n - Len(s)] BY <1>1, <2>2
    <3> QED BY <3>1 DEF Elems
  <2> QED BY <2>1, <2>2
<1>8. ASSUME Ordered(s), Ordered(t) PROVE Ordered(u)
  <2> SUFFICES ASSUME NEW n \in 1 .. Len(u), u[n].op = "ISTATE_CLEAR"
               PROVE  n < Len(u) /\ u[n + 1].op = "SENSE_STATE"
    BY DEF Ordered
  <2>1. CASE n <= Len(s)
    <3>1. n \in 1 .. Len(s) /\ s[n].op = "ISTATE_CLEAR" BY <1>1, <2>1
    <3>2. n < Len(s) /\ s[n + 1].op = "SENSE_STATE" BY <3>1, <1>8 DEF Ordered
    <3> QED BY <1>1, <3>2
  <2>2. CASE ~(n <= Len(s))
    <3>1. n - Len(s) \in 1 .. Len(t) /\ t[n - Len(s)].op = "ISTATE_CLEAR" BY <1>1, <2>2
    <3>2. n - Len(s) < Len(t) /\ t[(n - Len(s)) + 1].op = "SENSE_STATE"
      BY <3>1, <1>8 DEF Ordered
    <3>3. (n - Len(s)) + 1 = (n + 1) - Len(s) /\ n + 1 \in 1 .. Len(u) /\ ~(n + 1 <= Len(s))
      BY <1>1, <2>2, <3>2
    <3>4. u[n + 1] = t[(n + 1) - Len(s)] BY <1>1, <3>3
    <3> QED BY <1>1, <3>2, <3>3, <3>4
  <2> QED BY <2>1, <2>2
<1>9. t # <<>> => u # <<>> /\ u[Len(u)] = t[Len(t)]
  <2> SUFFICES ASSUME t # <<>> PROVE u # <<>> /\ u[Len(u)] = t[Len(t)] OBVIOUS
  <2>1. Len(u) \in 1 .. Len(u) /\ ~(Len(u) <= Len(s)) /\ Len(u) - Len(s) = Len(t)
    BY <1>1, <1>2
  <2>2. u[Len(u)] = t[Len(t)] BY <1>1, <2>1
  <2>3. u # <<>> BY <2>1, <1>1
  <2> QED BY <2>2, <2>3
<1> QED BY <1>1, <1>5, <1>6, <1>7, <1>8, <1>9 DEF u

LEMMA One ==
    ASSUME NEW m \in Message
    PROVE  /\ <<m>> \in Seq(Message) /\ <<m>> # <<>> /\ Elems(<<m>>) = {m}
           /\ <<m>>[Len(<<m>>)] = m
           /\ m.op # "ISTATE_CLEAR" => Ordered(<<m>>)
<1>1. <<m>> \in Seq(Message) /\ Len(<<m>>) = 1 /\ <<m>>[1] = m OBVIOUS
<1>2. \A n \in 1 .. Len(<<m>>) : <<m>>[n] = m BY <1>1
<1>3. Elems(<<m>>) = {m}
  <2>1. m \in Elems(<<m>>) BY <1>1 DEF Elems
  <2> QED BY <2>1, <1>2 DEF Elems
<1>4. <<m>> # <<>> BY <1>1
<1> QED BY <1>1, <1>2, <1>3, <1>4 DEF Ordered

LEMMA Nothing == <<>> \in Seq(Message) /\ Elems(<<>>) = {} /\ Ordered(<<>>)
<1>1. <<>> \in Seq(Message) /\ Len(<<>>) = 0 OBVIOUS
<1>2. 1 .. 0 = {} OBVIOUS
<1> QED BY <1>1, <1>2 DEF Elems, Ordered

LEMMA EmptyLen == ASSUME NEW s \in Seq(Message) PROVE s = <<>> <=> Len(s) = 0
  OBVIOUS

\* The messages after the first.
LEMMA Rest ==
    ASSUME NEW s \in Seq(Message), s # <<>>
    PROVE  /\ s[1] \in Message /\ Tail(s) \in Seq(Message)
           /\ Elems(s) = {s[1]} \cup Elems(Tail(s))
           /\ Ordered(s) => /\ Ordered(Tail(s))
                            /\ s[1].op = "ISTATE_CLEAR" =>
                                   \E m \in Elems(Tail(s)) : m.op = "SENSE_STATE"
           /\ s[Len(s)] = IF Tail(s) = <<>> THEN s[1] ELSE Tail(s)[Len(Tail(s))]
<1> DEFINE t == Tail(s)
<1>1. /\ t \in Seq(Message) /\ Len(s) \in Nat /\ Len(s) >= 1 /\ Len(t) = Len(s) - 1
      /\ \A n \in 1 .. Len(t) : t[n] = s[n + 1]
      /\ s[1] \in Message
  OBVIOUS
<1> HIDE DEF t
<1>e. t = <<>> <=> Len(t) = 0 BY <1>1, EmptyLen
<1>2. Elems(s) = {s[1]} \cup Elems(t)
  <2>1. s[1] \in Elems(s) BY <1>1 DEF Elems
  <2>2. ASSUME NEW n \in 1 .. Len(t) PROVE t[n] \in Elems(s)
    <3>1. n + 1 \in 1 .. Len(s) /\ t[n] = s[n + 1] BY <1>1
    <3> QED BY <3>1 DEF Elems
  <2>3. ASSUME NEW n \in 1 .. Len(s) PROVE s[n] \in {s[1]} \cup Elems(t)
    <3>1. CASE n = 1 BY <3>1
    <3>2. CASE n # 1
      <4>1. n - 1 \in 1 .. Len(t) /\ (n - 1) + 1 = n BY <1>1, <3>2
      <4>2. t[n - 1] = s[n] BY <1>1, <4>1
      <4> QED BY <4>1, <4>2 DEF Elems
    <3> QED BY <3>1, <3>2
  <2> QED BY <2>1, <2>2, <2>3 DEF Elems
<1>3. ASSUME Ordered(s) PROVE Ordered(t)
  <2> SUFFICES ASSUME NEW n \in 1 .. Len(t), t[n].op = "ISTATE_CLEAR"
               PROVE  n < Len(t) /\ t[n + 1].op = "SENSE_STATE"
    BY DEF Ordered
  <2>1. n + 1 \in 1 .. Len(s) /\ s[n + 1].op = "ISTATE_CLEAR" BY <1>1
  <2>2. n + 1 < Len(s) /\ s[(n + 1) + 1].op = "SENSE_STATE" BY <2>1, <1>3 DEF Ordered
  <2>3. n + 1 \in 1 .. Len(t) BY <1>1, <2>2
  <2> QED BY <1>1, <2>2, <2>3
<1>4. ASSUME Ordered(s), s[1].op = "ISTATE_CLEAR"
      PROVE  \E m \in Elems(t) : m.op = "SENSE_STATE"
  <2>1. 1 < Len(s) /\ s[1 + 1].op = "SENSE_STATE" BY <1>1, <1>4 DEF Ordered
  <2>2. 1 \in 1 .. Len(t) BY <1>1, <2>1
  <2>3. t[1] = s[1 + 1] BY <1>1, <2>2
  <2>4. t[1] \in Elems(t) BY <2>2 DEF Elems
  <2> QED BY <2>1, <2>3, <2>4
<1>5. s[Len(s)] = IF t = <<>> THEN s[1] ELSE t[Len(t)]
  <2>1. CASE t = <<>>
    <3>1. Len(s) = 1 BY <1>1, <1>e, <2>1
    <3> QED BY <3>1, <2>1
  <2>2. CASE t # <<>>
    <3>1. Len(t) \in 1 .. Len(t) /\ Len(t) + 1 = Len(s) BY <1>1, <1>e, <2>2
    <3>2. t[Len(t)] = s[Len(t) + 1] BY <1>1, <3>1
    <3> QED BY <3>1, <3>2, <2>2
  <2> QED BY <2>1, <2>2
<1> QED BY <1>1, <1>2, <1>3, <1>4, <1>5 DEF t

\* The first message is replaced by one about fewer registrations.
LEMMA Narrowed ==
    ASSUME NEW s \in Seq(Message), s # <<>>, Ordered(s), NEW x \in Message,
           x.op # "ISTATE_CLEAR"
    PROVE  LET u == [s EXCEPT ![1] = x] IN
           /\ u \in Seq(Message) /\ u # <<>> /\ Ordered(u)
           /\ Elems(u) = {x} \cup Elems(Tail(s))
           /\ u[Len(u)] = IF Tail(s) = <<>> THEN x ELSE s[Len(s)]
<1> DEFINE u == [s EXCEPT ![1] = x]
           t == Tail(s)
<1>1. /\ u \in Seq(Message) /\ Len(s) \in Nat /\ Len(s) >= 1 /\ Len(u) = Len(s)
      /\ \A n \in 1 .. Len(s) : u[n] = IF n = 1 THEN x ELSE s[n]
  OBVIOUS
<1>2. /\ t \in Seq(Message) /\ Len(t) = Len(s) - 1
      /\ \A n \in 1 .. Len(t) : t[n] = s[n + 1]
  OBVIOUS
<1> HIDE DEF u, t
<1>e. t = <<>> <=> Len(t) = 0 BY <1>2, EmptyLen
<1>3. Elems(u) = {x} \cup Elems(t)
  <2>1. x \in Elems(u)
    <3>1. 1 \in 1 .. Len(u) /\ u[1] = x BY <1>1
    <3> QED BY <3>1 DEF Elems
  <2>2. ASSUME NEW n \in 1 .. Len(t) PROVE t[n] \in Elems(u)
    <3>1. n + 1 \in 1 .. Len(u) /\ n + 1 # 1 /\ t[n] = s[n + 1] BY <1>1, <1>2
    <3>2. u[n + 1] = t[n] BY <1>1, <3>1
    <3> QED BY <3>1, <3>2 DEF Elems
  <2>3. ASSUME NEW n \in 1 .. Len(u) PROVE u[n] \in {x} \cup Elems(t)
    <3>1. CASE n = 1 BY <3>1, <1>1
    <3>2. CASE n # 1
      <4>1. n - 1 \in 1 .. Len(t) /\ (n - 1) + 1 = n BY <1>1, <1>2, <3>2
      <4>2. t[n - 1] = s[n] /\ u[n] = s[n] BY <1>1, <1>2, <4>1, <3>2
      <4> QED BY <4>1, <4>2 DEF Elems
    <3> QED BY <3>1, <3>2
  <2> QED BY <2>1, <2>2, <2>3 DEF Elems
<1>4. Ordered(u)
  <2> SUFFICES ASSUME NEW n \in 1 .. Len(u), u[n].op = "ISTATE_CLEAR"
               PROVE  n < Len(u) /\ u[n + 1].op = "SENSE_STATE"
    BY DEF Ordered
  <2>1. n # 1 BY <1>1
  <2>2. n \in 1 .. Len(s) /\ s[n].op = "ISTATE_CLEAR" BY <1>1, <2>1
  <2>3. n < Len(s) /\ s[n + 1].op = "SENSE_STATE" BY <2>2 DEF Ordered
  <2>4. n + 1 \in 1 .. Len(s) /\ n + 1 # 1 BY <2>3, <1>1
  <2> QED BY <1>1, <2>3, <2>4
<1>5. u[Len(u)] = IF t = <<>> THEN x ELSE s[Len(s)] BY <1>1, <1>2, <1>e
<1>6. u # <<>> BY <1>1
<1> QED BY <1>1, <1>3, <1>4, <1>5, <1>6 DEF u, t

\* What is sent about sense.
LEMMA SenseMessages ==
    ASSUME NEW told, reservation \in Reservations, generation \in 0 .. GenMod - 1
    PROVE  LET s == node_istate_sense_state_send(told) IN
           /\ s \in Seq(Message) /\ Ordered(s)
           /\ \A m \in Elems(s) : m.op \in SenseOp
           /\ told # {} => \E m \in Elems(s) : m.op = "SENSE_STATE"
<1> DEFINE a == [op |-> "ISTATE_CLEAR", who |-> {}, res |-> reservation, gen |-> generation]
           b == [op |-> "SENSE_STATE", who |-> {}, res |-> reservation, gen |-> generation]
           s == <<a>> \o <<b>>
<1>1. CASE told = {}
  BY <1>1, Nothing DEF node_istate_sense_state_send
<1>2. CASE told # {}
  <2>1. node_istate_sense_state_send(told) = s
    BY <1>2 DEF node_istate_sense_state_send, ReservationMsg
  <2>2. a \in Message /\ b \in Message BY DEF Message, SenseOp
  <2>3. a.op = "ISTATE_CLEAR" /\ b.op = "SENSE_STATE" OBVIOUS
  <2> HIDE DEF a, b
  <2>4. <<a>> \in Seq(Message) /\ <<b>> \in Seq(Message) /\ Elems(<<a>>) = {a} /\ Elems(<<b>>) = {b}
    BY <2>2, One
  <2>5. s \in Seq(Message) /\ Elems(s) = {a, b}
    <3>1. s \in Seq(Message) /\ Elems(s) = Elems(<<a>>) \cup Elems(<<b>>)
      BY <2>4, Concat
    <3> HIDE DEF s
    <3> QED BY <3>1, <2>4
  <2>6. /\ Len(<<a>>) = 1 /\ Len(<<b>>) = 1 /\ <<a>>[1] = a /\ <<b>>[1] = b OBVIOUS
  <2>7. Len(s) = 2 /\ \A n \in 1 .. 2 : s[n] = IF n <= 1 THEN <<a>>[n] ELSE <<b>>[n - 1]
    BY <2>4, <2>6
  <2>8. s[1] = a /\ s[2] = b BY <2>6, <2>7
  <2>9. Ordered(s)
    <3> HIDE DEF s
    <3> SUFFICES ASSUME NEW n \in 1 .. 2, s[n].op = "ISTATE_CLEAR"
                 PROVE  n < 2 /\ s[n + 1].op = "SENSE_STATE"
      BY <2>7 DEF Ordered
    <3>1. n # 2 BY <2>8, <2>3
    <3>2. n = 1 BY <3>1
    <3> QED BY <3>2, <2>8, <2>3
  <2> HIDE DEF s
  <2> QED BY <2>1, <2>3, <2>5, <2>9 DEF SenseOp
<1> QED BY <1>1, <1>2

-----------------------------------------------------------------------------
(***************************************************************************)
(* The invariant says what the messages still to be sent will make of the   *)
(* standby's copy.                                                          *)
(***************************************************************************)
Copy == [regs : SUBSET Registration, gen : 0 .. GenMod - 1,
         told : SUBSET Initiator, res : Reservations]

\* What PersistentAtStandby asks of the standby's reservation and generation.
Matches(r, g) ==
    /\ g = generation
    /\ InPersistent \/ r.type = "PERSISTENT" => r = reservation

Removes(m, q) ==
    \/ m.op = "CLEAR"
    \/ m.op \in {"DELETE", "MODIFY"} /\ \E r \in m.who : r.iid = q.iid

\* A registration the master no longer has will be removed, none it does not have
\* will be added.
RegsInv ==
    /\ \A q \in copy.regs : q \in registration_list \/ \E m \in Elems(out) : Removes(m, q)
    /\ \A m \in Elems(out) : m.op = "ADD" => m.who \subseteq registration_list

\* The last message carries the reservation, unless there are only messages about
\* sense, or none, and the copy is right already.
LastInv ==
    \/ /\ Matches(copy.res, copy.gen)
       /\ \A m \in Elems(out) : m.op \in SenseOp
    \/ /\ out # <<>>
       /\ out[Len(out)].op \notin SenseOp
       /\ Matches(out[Len(out)].res, out[Len(out)].gen)

\* A nexus the standby does not know to be owed a unit attention will be told of.
ToldInv ==
    /\ owed \subseteq copy.told \/ \E m \in Elems(out) : m.op = "SENSE_STATE"
    /\ Ordered(out)

StandbyInv ==
    /\ out \in Seq(Message)
    /\ copy \in Copy
    /\ IF sync THEN RegsInv /\ LastInv /\ ToldInv ELSE out = <<>>

LEMMA EmptyCopy == Empty \in Copy
<1>1. [is_reserved |-> FALSE, type |-> "NONE", persistent_type |-> NoType,
       iid |-> NoInitiator, persistent_key |-> ZeroKey] \in Reservations
  BY DEF Reservations
<1>2. 0 \in 0 .. GenMod - 1 OBVIOUS
<1> QED BY <1>1, <1>2 DEF Empty, Copy

LEMMA StandbyInitially == SyncInit => StandbyInv
<1> SUFFICES ASSUME SyncInit PROVE StandbyInv OBVIOUS
<1>1. out = <<>> /\ out \in Seq(Message) /\ Elems(out) = {} /\ Ordered(out)
  BY Nothing DEF SyncInit
<1>2. copy = Empty /\ Empty.regs = {} /\ Empty.gen = 0 /\ Empty.told = {}
  BY DEF SyncInit, Empty
<1>3. Empty \in Copy BY EmptyCopy
<1>4. RegsInv BY <1>1, <1>2 DEF RegsInv
<1>5. LastInv BY <1>1, <1>2 DEF LastInv, Matches, Empty, SyncInit, Init
<1>6. ToldInv BY <1>1, <1>2 DEF ToldInv, SyncInit, Init
<1> QED BY <1>1, <1>2, <1>3, <1>4, <1>5, <1>6 DEF StandbyInv

\* A message is applied.
LEMMA PageKeepsStandbyInv ==
    ASSUME StandbyInv, SInv, sync, node_sync_send_page
    PROVE  StandbyInv'
<1> DEFINE m == out[1]
           x(r) == [op |-> m.op, who |-> m.who \ {r}, res |-> m.res, gen |-> m.gen]
<1>0. /\ out \in Seq(Message) /\ out # <<>> /\ copy \in Copy
      /\ RegsInv /\ LastInv /\ ToldInv
  BY DEF StandbyInv, node_sync_send_page
<1>1. /\ m \in Message /\ Tail(out) \in Seq(Message)
      /\ Elems(out) = {m} \cup Elems(Tail(out))
      /\ Ordered(Tail(out))
      /\ m.op = "ISTATE_CLEAR" => \E e \in Elems(Tail(out)) : e.op = "SENSE_STATE"
      /\ out[Len(out)] = IF Tail(out) = <<>> THEN m ELSE Tail(out)[Len(Tail(out))]
  BY <1>0, Rest DEF ToldInv
<1>2. UNCHANGED <<registration_list, reservation, generation, istate, sense, owed, sync>>
  BY DEF node_sync_send_page
<1>3. InPersistent' = InPersistent BY <1>2 DEF InPersistent
<1>4. CASE m.op \in {"ADD", "DELETE", "MODIFY"}
  <2>1. PICK r \in m.who :
           /\ copy' = node_registration_sync_recv(copy, m, r)
           /\ out' = IF m.who = {r} THEN Tail(out)
                     ELSE [out EXCEPT ![1] = [op |-> m.op, who |-> m.who \ {r},
                                              res |-> m.res, gen |-> m.gen]]
    BY <1>4 DEF node_sync_send_page
  <2>2. r \in Registration BY <1>1 DEF Message
  <2>3. /\ copy' \in Copy
        /\ copy'.regs = IF m.op = "ADD" THEN copy.regs \cup {r}
                                        ELSE {q \in copy.regs : q.iid # r.iid}
        /\ copy'.res = m.res /\ copy'.gen = m.gen /\ copy'.told = copy.told
    BY <1>0, <1>1, <2>1, <2>2 DEF node_registration_sync_recv, registration_spec_add,
       registration_spec_remove, reservation_spec_copy, Copy, Message
  <2>4. x(r) \in Message /\ x(r).op = m.op /\ x(r).who = m.who \ {r}
        /\ x(r).res = m.res /\ x(r).gen = m.gen
    BY <1>1 DEF Message
  <2>5. x(r).op # "ISTATE_CLEAR" BY <1>4, <2>4
  <2>6. /\ out' \in Seq(Message) /\ Ordered(out')
        /\ Elems(Tail(out)) \subseteq Elems(out')
        /\ Elems(out') \subseteq {x(r)} \cup Elems(Tail(out))
        /\ m.who # {r} => x(r) \in Elems(out') /\ out' # <<>>
        /\ m.who = {r} => out' = Tail(out)
        /\ m.who # {r} => out'[Len(out')] = IF Tail(out) = <<>> THEN x(r) ELSE out[Len(out)]
    <3> HIDE DEF m
    <3>1. CASE m.who = {r} BY <3>1, <2>1, <1>1
    <3>2. CASE m.who # {r}
      <4>1. out' = [out EXCEPT ![1] = x(r)] BY <3>2, <2>1
      <4> HIDE DEF x
      <4> DEFINE u == [out EXCEPT ![1] = x(r)]
      <4>2. /\ u \in Seq(Message) /\ u # <<>> /\ Ordered(u)
            /\ Elems(u) = {x(r)} \cup Elems(Tail(out))
            /\ u[Len(u)] = IF Tail(out) = <<>> THEN x(r) ELSE out[Len(out)]
        BY <1>0, <2>4, <2>5, Narrowed DEF ToldInv
      <4> HIDE DEF u
      <4>3. out' = u BY <4>1 DEF u
      <4> QED BY <4>2, <4>3, <3>2
    <3> QED BY <3>1, <3>2
  <2> HIDE DEF x
  <2>7. RegsInv'
    <3>1. ASSUME NEW q \in copy'.regs
          PROVE  q \in registration_list \/ \E e \in Elems(out') : Removes(e, q)
      <4>1. CASE m.op = "ADD" /\ q = r
        BY <4>1, <1>0, <1>1 DEF RegsInv
      <4>2. CASE q \in copy.regs /\ (m.op # "ADD" => q.iid # r.iid)
        <5>1. q \in registration_list \/ \E e \in {m} \cup Elems(Tail(out)) : Removes(e, q)
          BY <1>0, <1>1, <4>2 DEF RegsInv
        <5>2. CASE Removes(m, q)
          <6>1. m.op \in {"DELETE", "MODIFY"} /\ \E p \in m.who : p.iid = q.iid
            BY <5>2, <1>4 DEF Removes
          <6>2. PICK p \in m.who : p.iid = q.iid BY <6>1
          <6>3. p # r BY <6>1, <6>2, <4>2
          <6>4. p \in x(r).who /\ m.who # {r} BY <6>2, <6>3, <2>4
          <6>5. Removes(x(r), q) BY <6>1, <6>2, <6>4, <2>4 DEF Removes
          <6> QED BY <6>4, <6>5, <2>6
        <5> QED BY <5>1, <5>2, <2>6
      <4> QED BY <4>1, <4>2, <2>3
    <3>2. ASSUME NEW e \in Elems(out'), e.op = "ADD" PROVE e.who \subseteq registration_list
      <4>1. CASE e = x(r) BY <4>1, <3>2, <2>4, <1>0, <1>1 DEF RegsInv
      <4> QED BY <4>1, <3>2, <2>6, <1>0, <1>1 DEF RegsInv
    <3> QED BY <3>1, <3>2, <1>2 DEF RegsInv
  <2>8. LastInv'
    <3>1. m.op \notin SenseOp BY <1>4 DEF SenseOp
    <3>2. out[Len(out)].op \notin SenseOp /\ Matches(out[Len(out)].res, out[Len(out)].gen)
      BY <3>1, <1>0, <1>1 DEF LastInv
    <3>3. CASE out' = <<>>
      <4>1. Matches(m.res, m.gen) BY <3>2, <3>3, <1>1, <2>6
      <4>2. Elems(out') = {} BY <3>3, Nothing
      <4> QED BY <4>1, <4>2, <2>3, <1>2, <1>3 DEF LastInv, Matches
    <3>4. CASE out' # <<>>
      <4>1. /\ out'[Len(out')].op = out[Len(out)].op
            /\ out'[Len(out')].res = out[Len(out)].res
            /\ out'[Len(out')].gen = out[Len(out)].gen
        BY <3>4, <1>1, <2>4, <2>6
      <4> QED BY <3>2, <3>4, <4>1, <1>2, <1>3 DEF LastInv, Matches
    <3> QED BY <3>3, <3>4
  <2>9. ToldInv'
    <3>1. owed \subseteq copy.told \/ \E e \in Elems(out) : e.op = "SENSE_STATE"
      BY <1>0 DEF ToldInv
    <3>2. owed \subseteq copy.told \/ \E e \in Elems(out') : e.op = "SENSE_STATE"
      BY <3>1, <1>1, <1>4, <2>6
    <3> QED BY <3>2, <2>3, <2>6, <1>2 DEF ToldInv
  <2> QED BY <1>2, <2>3, <2>6, <2>7, <2>8, <2>9 DEF StandbyInv
<1>5. CASE m.op \notin {"ADD", "DELETE", "MODIFY"}
  <2>1. out' = Tail(out) BY <1>5 DEF node_sync_send_page
  <2> HIDE DEF m
  <2>2. CASE m.op \in {"RESERVATION", "CLEAR"}
    <3>1. /\ copy' \in Copy /\ copy'.told = copy.told
          /\ copy'.res = m.res /\ copy'.gen = m.gen
          /\ copy'.regs = IF m.op = "CLEAR" THEN {} ELSE copy.regs
      BY <1>0, <1>1, <2>2 DEF node_sync_send_page, registration_spec_clear,
         reservation_spec_copy, Copy, Message, m
    <3>2. RegsInv'
      <4>1. ASSUME NEW q \in copy'.regs
            PROVE  q \in registration_list \/ \E e \in Elems(out') : Removes(e, q)
        <5>1. q \in copy.regs /\ m.op = "RESERVATION" BY <3>1, <2>2
        <5>2. ~ Removes(m, q) BY <5>1 DEF Removes
        <5> QED BY <5>1, <5>2, <1>0, <1>1, <2>1 DEF RegsInv
      <4> QED BY <4>1, <1>0, <1>1, <1>2, <2>1 DEF RegsInv
    <3>3. LastInv'
      <4>1. m.op \notin SenseOp BY <2>2 DEF SenseOp
      <4>2. out[Len(out)].op \notin SenseOp /\ Matches(out[Len(out)].res, out[Len(out)].gen)
        BY <4>1, <1>0, <1>1 DEF LastInv
      <4>3. CASE out' = <<>>
        <5>1. Matches(m.res, m.gen) BY <4>2, <4>3, <1>1, <2>1
        <5>2. Elems(out') = {} BY <4>3, Nothing
        <5> QED BY <5>1, <5>2, <3>1, <1>2, <1>3 DEF LastInv, Matches
      <4>4. CASE out' # <<>>
        BY <4>2, <4>4, <1>1, <2>1, <1>2, <1>3 DEF LastInv, Matches
      <4> QED BY <4>3, <4>4
    <3>4. ToldInv' BY <3>1, <2>2, <1>0, <1>1, <1>2, <2>1 DEF ToldInv
    <3> QED BY <1>2, <3>1, <3>2, <3>3, <3>4, <1>1, <2>1 DEF StandbyInv
  <2>3. CASE m.op \in SenseOp
    <3>1. /\ copy' \in Copy /\ copy'.regs = copy.regs
          /\ copy'.res = copy.res /\ copy'.gen = copy.gen
          /\ m.op = "SENSE_STATE" => copy'.told = copy.told \cup {i \in istate : sense[i] # <<>>}
      <4>1. istate \subseteq Initiator BY DEF SInv
      <4> QED BY <4>1, <1>0, <1>1, <2>3 DEF node_sync_send_page, Copy, SenseOp, m
    <3>2. RegsInv'
      <4>1. \A q : ~ Removes(m, q) BY <2>3 DEF Removes, SenseOp
      <4> QED BY <4>1, <1>0, <1>1, <1>2, <2>1, <3>1 DEF RegsInv
    <3>3. LastInv'
      <4>1. CASE Matches(copy.res, copy.gen) /\ \A e \in Elems(out) : e.op \in SenseOp
        BY <4>1, <1>1, <1>2, <1>3, <2>1, <3>1 DEF LastInv, Matches
      <4>2. CASE /\ out[Len(out)].op \notin SenseOp
                 /\ Matches(out[Len(out)].res, out[Len(out)].gen)
        <5>1. Tail(out) # <<>> /\ out'[Len(out')] = out[Len(out)] BY <4>2, <2>3, <1>1, <2>1
        <5> QED BY <4>2, <5>1, <1>2, <1>3, <2>1 DEF LastInv, Matches
      <4> QED BY <4>1, <4>2, <1>0 DEF LastInv
    <3>4. ToldInv'
      <4>1. CASE m.op = "SENSE_STATE"
        <5>1. owed \subseteq {i \in istate : sense[i] # <<>>} BY DEF SInv, LossIsReported
        <5> QED BY <4>1, <5>1, <3>1, <1>1, <1>2, <2>1 DEF ToldInv
      <4>2. CASE m.op = "ISTATE_CLEAR" BY <4>2, <1>1, <1>2, <2>1 DEF ToldInv
      <4> QED BY <4>1, <4>2, <2>3 DEF SenseOp
    <3> QED BY <1>2, <3>1, <3>2, <3>3, <3>4, <1>1, <2>1 DEF StandbyInv
  <2> QED BY <2>2, <2>3, <1>1, <1>5 DEF Message, SenseOp
<1> QED BY <1>4, <1>5

-----------------------------------------------------------------------------
(***************************************************************************)
(* What a handler must send for the standby to follow its change.           *)
(***************************************************************************)
Tells(msgs) ==
    /\ msgs \in Seq(Message) /\ Ordered(msgs)
    /\ \A q \in registration_list :
          q \in registration_list' \/ \E m \in Elems(msgs) : Removes(m, q)
    /\ \A m \in Elems(msgs) : m.op = "ADD" => m.who \subseteq registration_list'
    /\ \/ /\ \A m \in Elems(msgs) : m.op \in SenseOp
          /\ generation' = generation
          /\ \/ reservation' = reservation
             \/ reservation.type # "PERSISTENT" /\ reservation'.type # "PERSISTENT"
       \/ /\ msgs # <<>>
          /\ msgs[Len(msgs)].op \notin SenseOp
          /\ msgs[Len(msgs)].res = reservation' /\ msgs[Len(msgs)].gen = generation'
    /\ owed' \subseteq owed \/ \E m \in Elems(msgs) : m.op = "SENSE_STATE"

LEMMA TellingKeepsStandbyInv ==
    ASSUME StandbyInv, out = <<>>, UNCHANGED <<copy, sync>>,
           IF sync THEN Tells(out') ELSE out' = <<>>
    PROVE  StandbyInv'
<1>1. CASE ~ sync BY <1>1, Nothing DEF StandbyInv
<1>2. CASE sync
  <2>1. Elems(out) = {} BY Nothing
  <2>2. copy \in Copy /\ copy'.regs \subseteq registration_list
        /\ Matches(copy.res, copy.gen) /\ owed \subseteq copy.told
    BY <1>2, <2>1 DEF StandbyInv, RegsInv, LastInv, ToldInv
  <2>3. Tells(out') BY <1>2
  <2>4. RegsInv' BY <2>2, <2>3 DEF Tells, RegsInv, Removes
  <2>5. LastInv'
    <3>1. CASE /\ \A m \in Elems(out') : m.op \in SenseOp
               /\ generation' = generation
               /\ \/ reservation' = reservation
                  \/ reservation.type # "PERSISTENT" /\ reservation'.type # "PERSISTENT"
      <4>1. Matches(copy.res, copy.gen)'
        BY <3>1, <2>2 DEF Matches, InPersistent
      <4> QED BY <3>1, <4>1 DEF LastInv
    <3>2. CASE /\ out' # <<>>
               /\ out'[Len(out')].op \notin SenseOp
               /\ out'[Len(out')].res = reservation' /\ out'[Len(out')].gen = generation'
      BY <3>2 DEF LastInv, Matches
    <3> QED BY <3>1, <3>2, <2>3 DEF Tells
  <2>6. ToldInv' BY <2>2, <2>3 DEF Tells, ToldInv
  <2> QED BY <2>2, <2>3, <2>4, <2>5, <2>6 DEF Tells, StandbyInv
<1> QED BY <1>1, <1>2

\* A handler that changes nothing of what the standby has, and sends nothing.
LEMMA NothingToTell ==
    ASSUME UNCHANGED <<registration_list, reservation, generation>>, owed' \subseteq owed
    PROVE  Tells(<<>>)
  BY Nothing DEF Tells

\* A body without ADD, and the reservation as it is now.
LEMMA ReservationComesLast ==
    ASSUME NEW b \in Seq(Message), Ordered(b), \A m \in Elems(b) : m.op # "ADD",
           NEW op \in {"RESERVATION", "CLEAR"}, RInv',
           \A q \in registration_list :
              \/ q \in registration_list' \/ op = "CLEAR"
              \/ \E m \in Elems(b) : Removes(m, q),
           owed' \subseteq owed \/ \E m \in Elems(b) : m.op = "SENSE_STATE"
    PROVE  Tells(b \o ReservationMsg(op, reservation', generation'))
<1> DEFINE r == [op |-> op, who |-> {}, res |-> reservation', gen |-> generation']
           s == b \o <<r>>
<1>1. r \in Message BY DEF RInv, Message
<1>2. r.op = op /\ r.res = reservation' /\ r.gen = generation' OBVIOUS
<1>3. ReservationMsg(op, reservation', generation') = <<r>> BY DEF ReservationMsg
<1> HIDE DEF r
<1>4. /\ <<r>> \in Seq(Message) /\ <<r>> # <<>> /\ Elems(<<r>>) = {r} /\ Ordered(<<r>>)
      /\ <<r>>[Len(<<r>>)] = r
  BY <1>1, <1>2, One
<1>5. /\ s \in Seq(Message) /\ Elems(s) = Elems(b) \cup Elems(<<r>>) /\ Ordered(s)
      /\ s # <<>> /\ s[Len(s)] = <<r>>[Len(<<r>>)]
  BY <1>4, Concat
<1> HIDE DEF s
<1>6. /\ s \in Seq(Message) /\ Elems(s) = Elems(b) \cup {r} /\ Ordered(s)
      /\ s # <<>> /\ s[Len(s)] = r
  BY <1>4, <1>5
<1>7. op = "CLEAR" => \A q : Removes(r, q) BY <1>2 DEF Removes
<1>8. r.op \notin SenseOp /\ r.op # "ADD" BY <1>2 DEF SenseOp
<1>9. Tells(s) BY <1>2, <1>6, <1>7, <1>8 DEF Tells
<1> QED BY <1>9, <1>3 DEF s

\* The reservation alone.
LEMMA ReservationAlone ==
    ASSUME NEW op \in {"RESERVATION", "CLEAR"}, RInv',
           registration_list \subseteq registration_list' \/ op = "CLEAR",
           owed' \subseteq owed
    PROVE  /\ Tells(ReservationMsg(op, reservation', generation'))
           /\ Tells(<<>> \o ReservationMsg(op, reservation', generation'))
<1> DEFINE r == [op |-> op, who |-> {}, res |-> reservation', gen |-> generation']
<1>1. Tells(<<>> \o ReservationMsg(op, reservation', generation'))
  BY Nothing, ReservationComesLast
<1>2. <<>> \o ReservationMsg(op, reservation', generation')
        = ReservationMsg(op, reservation', generation')
  BY DEF ReservationMsg
<1> QED BY <1>1, <1>2

LEMMA RegisterTells ==
    ASSUME RInv, RInv', NEW c \in Ctio, NEW i \in Initiator, NEW sa \in Key \cup {ZeroKey},
           IF Registered(i) THEN change_registration(c, i, sa) ELSE add_registration(c, i, sa)
    PROVE  Tells(Register(i, sa))
<1>0. /\ registration_list \subseteq Registration /\ generation \in 0 .. GenMod - 1
      /\ registration_list' \subseteq Registration /\ generation' \in 0 .. GenMod - 1
      /\ reservation \in Reservations /\ reservation' \in Reservations
  BY DEF RInv
<1>1. CASE Registered(i) /\ sa = ZeroKey
  <2> DEFINE X == IF Released(i, {r \in registration_list : r.iid # i}) /\ in_persistent_ro_type
                  THEN node_istate_sense_state_send(Others(i)) ELSE <<>>
             d == [op |-> "DELETE", who |-> {r \in registration_list : r.iid = i},
                   res |-> reservation', gen |-> generation]
             b == X \o <<d>>
  <2>1. registration_list' = {r \in registration_list : r.iid # i} /\ owed' = owed
    BY <1>1 DEF change_registration
  <2>2. X \in Seq(Message) /\ Ordered(X) /\ \A m \in Elems(X) : m.op \in SenseOp
    BY <1>0, SenseMessages, Nothing
  <2>3. d \in Message BY <1>0 DEF Message
  <2>4. d.op = "DELETE" /\ d.who = {r \in registration_list : r.iid = i} OBVIOUS
  <2>5. Register(i, sa) = b \o ReservationMsg("RESERVATION", reservation', generation')
    BY <1>1 DEF Register, Unregister, Registrations
  <2> HIDE DEF X, d
  <2>6. <<d>> \in Seq(Message) /\ Elems(<<d>>) = {d} /\ Ordered(<<d>>) BY <2>3, <2>4, One
  <2>7. b \in Seq(Message) /\ Ordered(b) /\ Elems(b) = Elems(X) \cup Elems(<<d>>)
    BY <2>2, <2>6, Concat
  <2> HIDE DEF b
  <2>8. b \in Seq(Message) /\ Ordered(b) /\ Elems(b) = Elems(X) \cup {d} BY <2>6, <2>7
  <2>9. \A m \in Elems(b) : m.op # "ADD" BY <2>2, <2>4, <2>8 DEF SenseOp
  <2>10. ASSUME NEW q \in registration_list, q \notin registration_list'
         PROVE  \E m \in Elems(b) : Removes(m, q)
    BY <2>1, <2>4, <2>8, <2>10 DEF Removes
  <2>11. Tells(b \o ReservationMsg("RESERVATION", reservation', generation'))
    BY <2>1, <2>8, <2>9, <2>10, ReservationComesLast
  <2> QED BY <2>5, <2>11
<1>2. CASE Registered(i) /\ sa # ZeroKey
  <2> DEFINE d == [op |-> "MODIFY", who |-> {[iid |-> i, key |-> sa]},
                   res |-> reservation', gen |-> generation]
             b == <<d>>
  <2>1. /\ registration_list' = {r \in registration_list : r.iid # i} \cup {[iid |-> i, key |-> sa]}
        /\ owed' = owed
    BY <1>2 DEF change_registration
  <2>2. [iid |-> i, key |-> sa] \in Registration BY <1>2 DEF Registration
  <2>3. d \in Message BY <1>0, <2>2 DEF Message
  <2>4. d.op = "MODIFY" /\ d.who = {[iid |-> i, key |-> sa]} OBVIOUS
  <2>5. Register(i, sa) = b \o ReservationMsg("RESERVATION", reservation', generation')
    BY <1>2 DEF Register, Registrations
  <2> HIDE DEF d
  <2>6. b \in Seq(Message) /\ Elems(b) = {d} /\ Ordered(b) BY <2>3, <2>4, One
  <2> HIDE DEF b
  <2>7. ASSUME NEW q \in registration_list, q \notin registration_list'
        PROVE  \E m \in Elems(b) : Removes(m, q)
    <3>1. q.iid = i BY <2>1, <2>7
    <3>2. \E r \in d.who : r.iid = q.iid BY <3>1, <2>4
    <3> QED BY <3>2, <2>4, <2>6 DEF Removes
  <2>8. Tells(b \o ReservationMsg("RESERVATION", reservation', generation'))
    BY <2>1, <2>4, <2>6, <2>7, ReservationComesLast
  <2> QED BY <2>5, <2>8
<1>3. CASE ~ Registered(i) /\ sa = ZeroKey
  <2>1. registration_list' = registration_list /\ owed' = owed
    BY <1>3 DEF add_registration
  <2>2. Tells(ReservationMsg("RESERVATION", reservation', generation'))
    BY <2>1, ReservationAlone
  <2> QED BY <1>3, <2>2 DEF Register
<1>4. CASE ~ Registered(i) /\ sa # ZeroKey
  <2> DEFINE a == [op |-> "ADD", who |-> {[iid |-> i, key |-> sa]},
                   res |-> reservation', gen |-> generation']
  <2>1. /\ registration_list' = registration_list \cup {[iid |-> i, key |-> sa]}
        /\ owed' = owed
    BY <1>4 DEF add_registration
  <2>2. [iid |-> i, key |-> sa] \in Registration BY <1>4 DEF Registration
  <2>3. a \in Message BY <1>0, <2>2 DEF Message
  <2>4. a.op = "ADD" /\ a.who = {[iid |-> i, key |-> sa]}
        /\ a.res = reservation' /\ a.gen = generation'
    OBVIOUS
  <2>5. Register(i, sa) = <<a>> BY <1>4 DEF Register, Registrations
  <2> HIDE DEF a
  <2>6. /\ <<a>> \in Seq(Message) /\ Elems(<<a>>) = {a} /\ Ordered(<<a>>)
        /\ <<a>> # <<>> /\ <<a>>[Len(<<a>>)] = a
    BY <2>3, <2>4, One
  <2>7. a.op \notin SenseOp BY <2>4 DEF SenseOp
  <2> DEFINE s == <<a>>
  <2> HIDE DEF s
  <2>8. Tells(s) BY <2>1, <2>4, <2>6, <2>7 DEF Tells, s
  <2> QED BY <2>5, <2>8 DEF s
<1> QED BY <1>1, <1>2, <1>3, <1>4

LEMMA PreemptTells ==
    ASSUME RInv, RInv', NEW c \in Ctio, NEW i \in Initiator,
           NEW k, NEW sa, NEW t, PreemptAccepted(i, k, sa),
           persistent_reservation_handle_preempt(c, i, k, sa, t)
    PROVE  Tells(Preempt(i, sa))
<1>0. /\ registration_list \subseteq Registration /\ generation \in 0 .. GenMod - 1
      /\ reservation \in Reservations
  BY DEF RInv
<1> DEFINE gone == Preempted(i, sa)
           X == node_istate_sense_state_send(gone)
           d == [op |-> "DELETE", who |-> gone, res |-> reservation, gen |-> generation]
           D == IF gone = {} THEN <<>> ELSE <<d>>
           b == D \o X
<1>1. gone \subseteq registration_list BY DEF Preempted
<1>2. /\ registration_list' = registration_list \ gone
      /\ owed' = owed \cup ({r.iid : r \in gone} \cap istate)
  BY DEF persistent_reservation_handle_preempt
<1>3. Preempt(i, sa) = b \o ReservationMsg("RESERVATION", reservation', generation')
  BY DEF Preempt, Registrations
<1> HIDE DEF gone
<1>4. d \in Message BY <1>0, <1>1 DEF Message
<1>5. d.op = "DELETE" /\ d.who = gone OBVIOUS
<1>6. /\ X \in Seq(Message) /\ Ordered(X) /\ \A m \in Elems(X) : m.op \in SenseOp
      /\ gone # {} => \E m \in Elems(X) : m.op = "SENSE_STATE"
  BY <1>0, SenseMessages
<1> HIDE DEF d, X
<1>7. /\ D \in Seq(Message) /\ Ordered(D) /\ Elems(D) \subseteq {d}
      /\ gone # {} => d \in Elems(D)
  BY <1>4, <1>5, One, Nothing
<1> HIDE DEF D
<1>8. b \in Seq(Message) /\ Ordered(b) /\ Elems(b) = Elems(D) \cup Elems(X)
  BY <1>6, <1>7, Concat
<1> HIDE DEF b
<1>9. \A m \in Elems(b) : m.op # "ADD" BY <1>5, <1>6, <1>7, <1>8 DEF SenseOp
<1>10. ASSUME NEW q \in registration_list, q \notin registration_list'
       PROVE  \E m \in Elems(b) : Removes(m, q)
  <2>1. q \in gone BY <1>2, <1>10
  <2>2. d \in Elems(b) BY <2>1, <1>7, <1>8
  <2> QED BY <2>1, <2>2, <1>5 DEF Removes
<1>11. owed' \subseteq owed \/ \E m \in Elems(b) : m.op = "SENSE_STATE"
  BY <1>2, <1>6, <1>8
<1>12. Tells(b \o ReservationMsg("RESERVATION", reservation', generation'))
  BY <1>8, <1>9, <1>10, <1>11, ReservationComesLast
<1> QED BY <1>3, <1>12

\* CLEAR, and RELEASE: the senses, then the reservation.
LEMMA SenseThenReservation ==
    ASSUME RInv, RInv', NEW told, NEW op \in {"RESERVATION", "CLEAR"},
           registration_list \subseteq registration_list' \/ op = "CLEAR",
           owed' \subseteq owed \/ told # {}
    PROVE  Tells(node_istate_sense_state_send(told)
                 \o ReservationMsg(op, reservation', generation'))
<1> DEFINE b == node_istate_sense_state_send(told)
<1>1. reservation \in Reservations /\ generation \in 0 .. GenMod - 1 BY DEF RInv
<1>2. /\ b \in Seq(Message) /\ Ordered(b) /\ \A m \in Elems(b) : m.op \in SenseOp
      /\ told # {} => \E m \in Elems(b) : m.op = "SENSE_STATE"
  BY <1>1, SenseMessages
<1> HIDE DEF b
<1>3. \A m \in Elems(b) : m.op # "ADD" BY <1>2 DEF SenseOp
<1>4. Tells(b \o ReservationMsg(op, reservation', generation'))
  BY <1>2, <1>3, ReservationComesLast
<1> QED BY <1>4 DEF b

LEMMA OutKeepsStandbyInv ==
    ASSUME IInv, IInv', StandbyInv, out = <<>>, NEW c \in Ctio, persistent_reserve_out_sync(c)
    PROVE  StandbyInv'
<1> DEFINE i == ctio[c].iid
<1>1. RInv /\ RInv' BY DEF IInv
<1>2. i \in Initiator
  BY DEF persistent_reserve_out_sync, IInv, CInv, Idle, Op
<1>3. generation \in 0 .. GenMod - 1 BY <1>1 DEF RInv
<1> HIDE DEF i
\* It is enough that what was sent tells the standby.
<1>s. ASSUME UNCHANGED <<copy, sync>>, sync => Tells(out'), ~ sync => out' = <<>>
      PROVE  StandbyInv'
  BY <1>s, TellingKeepsStandbyInv
<1>u. ASSUME Unchanged(c) PROVE Tells(<<>>)
  BY <1>u, NothingToTell DEF Unchanged
<1>4. CASE Mirrored /\ Unchanged(c) /\ Send(<<>>)
  BY <1>4, <1>s, <1>u DEF Send
<1>5. ASSUME NEW k \in Key \cup {ZeroKey}, NEW sa \in Key \cup {ZeroKey},
             persistent_reservation_handle_register(c, i, k, sa),
             Send(IF generation' # generation THEN Register(i, sa) ELSE <<>>)
      PROVE  StandbyInv'
  <2>1. CASE Unchanged(c)
    <3>1. generation' = generation BY <2>1 DEF Unchanged
    <3> QED BY <2>1, <3>1, <1>5, <1>s, <1>u DEF Send
  <2>2. CASE IF Registered(i) THEN change_registration(c, i, sa) ELSE add_registration(c, i, sa)
    <3>1. Generation BY <2>2 DEF change_registration, add_registration
    <3>2. generation' # generation BY <3>1, <1>3, NextGeneration
    <3>3. Tells(Register(i, sa)) BY <2>2, <1>1, <1>2, RegisterTells
    <3> QED BY <3>2, <3>3, <1>5, <1>s DEF Send
  <2> QED BY <2>1, <2>2, <1>5 DEF persistent_reservation_handle_register
<1>6. ASSUME NEW sa \in Key \cup {ZeroKey},
             persistent_reservation_handle_register_and_ignore(c, i, sa),
             Send(Register(i, sa))
      PROVE  StandbyInv'
  <2>1. Tells(Register(i, sa))
    BY <1>6, <1>1, <1>2, RegisterTells DEF persistent_reservation_handle_register_and_ignore
  <2> QED BY <2>1, <1>6, <1>s DEF Send
<1>7. ASSUME NEW k \in Key \cup {ZeroKey}, NEW t \in Types,
             persistent_reservation_handle_reserve(c, i, k, t),
             Send(IF reservation' # reservation
                  THEN ReservationMsg("RESERVATION", reservation', generation) ELSE <<>>)
      PROVE  StandbyInv'
  <2>1. /\ UNCHANGED <<registration_list, generation, owed>>
    BY <1>7 DEF persistent_reservation_handle_reserve, Unchanged
  <2>2. Tells(ReservationMsg("RESERVATION", reservation', generation'))
    BY <2>1, <1>1, ReservationAlone
  <2>3. reservation' = reservation => Tells(<<>>) BY <2>1, NothingToTell
  <2> QED BY <2>1, <2>2, <2>3, <1>7, <1>s DEF Send
<1>8. ASSUME NEW k \in Key \cup {ZeroKey}, NEW t \in Types,
             persistent_reservation_handle_release(c, i, k, t),
             Send(IF ReleaseAccepted(i, k, t)
                  THEN (IF multiple_registrants_reservation_type
                        THEN node_istate_sense_state_send(Others(i)) ELSE <<>>)
                       \o ReservationMsg("RESERVATION", reservation', generation)
                  ELSE <<>>)
      PROVE  StandbyInv'
  <2>1. /\ UNCHANGED <<registration_list, generation, owed>>
    BY <1>8 DEF persistent_reservation_handle_release, Unchanged
  <2>2. CASE ~ ReleaseAccepted(i, k, t)
    BY <2>2, <1>8, <1>s, <1>u DEF Send, persistent_reservation_handle_release
  <2>3. CASE ReleaseAccepted(i, k, t)
    <3>1. Tells(<<>> \o ReservationMsg("RESERVATION", reservation', generation'))
      BY <2>1, <1>1, ReservationAlone
    <3>2. Tells(node_istate_sense_state_send(Others(i))
                \o ReservationMsg("RESERVATION", reservation', generation'))
      BY <2>1, <1>1, SenseThenReservation
    <3> QED BY <2>1, <2>3, <3>1, <3>2, <1>8, <1>s DEF Send
  <2> QED BY <2>2, <2>3
<1>9. ASSUME NEW k \in Key \cup {ZeroKey},
             persistent_reservation_handle_clear(c, i, k),
             Send(IF initiator_has_registered(k, i)
                  THEN node_istate_sense_state_send(Others(i))
                       \o ReservationMsg("CLEAR", reservation', generation')
                  ELSE <<>>)
      PROVE  StandbyInv'
  <2>1. CASE ~ initiator_has_registered(k, i)
    BY <2>1, <1>9, <1>s, <1>u DEF Send, persistent_reservation_handle_clear
  <2>2. CASE initiator_has_registered(k, i)
    <3>1. owed' = owed \cup (Others(i) \cap istate)
      BY <2>2, <1>9 DEF persistent_reservation_handle_clear
    <3>2. owed' \subseteq owed \/ Others(i) # {} BY <3>1
    <3>3. Tells(node_istate_sense_state_send(Others(i))
                \o ReservationMsg("CLEAR", reservation', generation'))
      BY <3>2, <1>1, SenseThenReservation
    <3> QED BY <2>2, <3>3, <1>9, <1>s DEF Send
  <2> QED BY <2>1, <2>2
<1>10. ASSUME NEW k \in Key \cup {ZeroKey}, NEW sa \in Key \cup {ZeroKey}, NEW t \in Types,
              persistent_reservation_handle_preempt(c, i, k, sa, t),
              Send(IF PreemptAccepted(i, k, sa) THEN Preempt(i, sa) ELSE <<>>)
       PROVE  StandbyInv'
  <2>1. CASE ~ PreemptAccepted(i, k, sa)
    BY <2>1, <1>10, <1>s, <1>u DEF Send, persistent_reservation_handle_preempt
  <2>2. CASE PreemptAccepted(i, k, sa)
    <3>1. Tells(Preempt(i, sa)) BY <2>2, <1>10, <1>1, <1>2, PreemptTells
    <3> QED BY <2>2, <3>1, <1>10, <1>s DEF Send
  <2> QED BY <2>1, <2>2
<1> QED
  BY <1>4, <1>5, <1>6, <1>7, <1>8, <1>9, <1>10 DEF persistent_reserve_out_sync, i

LEMMA LockedKeepsStandbyInv ==
    ASSUME IInv, IInv', StandbyInv, out = <<>>, Locked
    PROVE  StandbyInv'
<1>1. RInv /\ RInv' BY DEF IInv
<1>s. ASSUME UNCHANGED <<copy, sync>>, sync => Tells(out'), ~ sync => out' = <<>>
      PROVE  StandbyInv'
  BY <1>s, TellingKeepsStandbyInv
<1>2. ASSUME UNCHANGED <<registration_list, reservation, generation>>, owed' \subseteq owed,
             Send(<<>>)
      PROVE  StandbyInv'
  BY <1>2, <1>s, NothingToTell DEF Send
<1>3. CASE \E c \in Ctio, j \in Initiator, op \in Op : tdisk_proc_cmd(c, j, op) /\ Send(<<>>)
  BY <1>3, <1>2 DEF tdisk_proc_cmd, report_sense, access_check
<1>4. CASE \E c \in Ctio : tdisk_cmd_request_sense(c) /\ Send(<<>>)
  BY <1>4, <1>2 DEF tdisk_cmd_request_sense
<1>5. CASE \E j \in Initiator : device_free_initiator(j) /\ Send(<<>>)
  BY <1>5, <1>2 DEF device_free_initiator
<1>6. CASE \E c \in Ctio : persistent_reserve_out_sync(c) BY <1>6, OutKeepsStandbyInv
<1>7. ASSUME NEW c \in Ctio, reserve_sync(c) PROVE StandbyInv'
  <2>1. UNCHANGED <<registration_list, generation, owed>>
        /\ (~ tdisk_cmd_access_ok(ctio[c].iid, "RESERVE") => reservation' = reservation)
    BY <1>7 DEF reserve_sync, tdisk_cmd_reserve
  <2>2. Tells(ReservationMsg("RESERVATION", reservation', generation'))
    BY <2>1, <1>1, ReservationAlone
  <2>3. reservation' = reservation => Tells(<<>>) BY <2>1, NothingToTell
  <2> QED BY <2>1, <2>2, <2>3, <1>7, <1>s DEF reserve_sync, Send
<1>8. ASSUME NEW c \in Ctio, release_sync(c) PROVE StandbyInv'
  <2>1. UNCHANGED <<registration_list, generation, owed>>
        /\ (reservation.iid # ctio[c].iid => reservation' = reservation)
    BY <1>8 DEF release_sync, tdisk_cmd_release
  <2>2. Tells(ReservationMsg("RESERVATION", reservation', generation'))
    BY <2>1, <1>1, ReservationAlone
  <2>3. reservation' = reservation => Tells(<<>>) BY <2>1, NothingToTell
  <2> QED BY <2>1, <2>2, <2>3, <1>8, <1>s DEF release_sync, Send
<1>9. CASE reset_sync
  <2> DEFINE b == node_istate_sense_state_send(Initiator)
  <2>1. /\ UNCHANGED <<registration_list, generation, owed>>
        /\ \/ reservation' = reservation
           \/ reservation.type # "PERSISTENT" /\ reservation'.type # "PERSISTENT"
    BY <1>9 DEF reset_sync, tdisk_reset
  <2>2. b \in Seq(Message) /\ Ordered(b) /\ \A m \in Elems(b) : m.op \in SenseOp
    BY <1>1, SenseMessages DEF RInv
  <2> HIDE DEF b
  <2>3. Tells(b) BY <2>1, <2>2 DEF Tells, SenseOp
  <2> QED BY <2>3, <1>9, <1>s DEF reset_sync, Send, b
<1> QED BY <1>3, <1>4, <1>5, <1>6, <1>7, <1>8, <1>9 DEF Locked

LEMMA StepKeepsStandbyInv ==
    ASSUME IInv, IInv', StandbyInv, [SyncNext]_syncVars
    PROVE  StandbyInv'
<1>1. CASE out = <<>> /\ Locked BY <1>1, LockedKeepsStandbyInv
<1>2. ASSUME UNCHANGED <<registration_list, reservation, generation, owed, out, copy, sync>>
      PROVE  StandbyInv'
  BY <1>2 DEF StandbyInv, RegsInv, LastInv, ToldInv, Matches, InPersistent
<1>3. CASE \E c \in Ctio : other_cmd(c) /\ UNCHANGED <<out, copy, sync>>
  BY <1>3, <1>2 DEF other_cmd, Unchanged
<1>4. CASE node_sync_send_page
  <2>1. CASE sync BY <1>4, <2>1, PageKeepsStandbyInv DEF IInv
  <2>2. CASE ~ sync BY <1>4, <2>2 DEF StandbyInv, node_sync_send_page
  <2> QED BY <2>1, <2>2
<1>5. CASE node_sync_disable
  BY <1>5, Nothing, EmptyCopy DEF node_sync_disable, StandbyInv
<1>6. CASE UNCHANGED syncVars BY <1>6, <1>2 DEF syncVars
<1> QED BY <1>1, <1>3, <1>4, <1>5, <1>6 DEF SyncNext

-----------------------------------------------------------------------------
(* The theorems.                                                            *)

LEMMA SyncInvariance == SyncSpec => [](IInv /\ StandbyInv)
<1>1. SyncInit => IInv /\ StandbyInv
  BY Initially, StandbyInitially DEF SyncInit
<1>2. IInv /\ [Next]_vars => IInv'
  BY StepKeepsRInv, StepKeepsSInv, StepKeepsCInv DEF IInv
<1>3. (IInv /\ StandbyInv) /\ [SyncNext]_syncVars => (IInv /\ StandbyInv)'
  BY <1>2, SyncStep, StepKeepsStandbyInv
<1> QED BY <1>1, <1>3, PTL DEF SyncSpec

LEMMA StandbyInStep ==
    IInv /\ StandbyInv => NoStaleRegistration /\ PersistentAtStandby /\ OwedAtStandby
<1> SUFFICES ASSUME StandbyInv, Replicated
             PROVE  /\ copy.regs \subseteq registration_list
                    /\ Matches(copy.res, copy.gen)
                    /\ owed \subseteq copy.told
  BY DEF NoStaleRegistration, PersistentAtStandby, OwedAtStandby, Matches
<1>1. out = <<>> /\ Elems(out) = {} BY Nothing DEF Replicated
<1>2. RegsInv /\ LastInv /\ ToldInv BY DEF StandbyInv, Replicated
<1> QED BY <1>1, <1>2 DEF RegsInv, LastInv, ToldInv

\* Whatever was unregistered, preempted, cleared or given another key does not come
\* back with a takeover.
THEOREM NoStaleAtStandby == SyncSpec => []NoStaleRegistration
  BY SyncInvariance, StandbyInStep, PTL

\* A takeover changes no persistent reservation, makes none up and does not set the
\* generation back.
THEOREM PersistentTakesOver == SyncSpec => []PersistentAtStandby
  BY SyncInvariance, StandbyInStep, PTL

\* A nexus whose registration another one removed is told so by the standby too.
THEOREM OwedTakesOver == SyncSpec => []OwedAtStandby
  BY SyncInvariance, StandbyInStep, PTL

\* What holds of the reservations of one node holds of the master of a pair.
THEOREM MasterKeepsItsPromises ==
    SyncSpec => /\ [](HolderIsRegistered /\ OneRegistration /\ LossIsReported
                         /\ UnregisteredMayNotWrite)
                /\ PersistentIsKept /\ GenerationTellsChanges
<1>1. SyncSpec => [](HolderIsRegistered /\ OneRegistration /\ LossIsReported)
  BY SyncInvariance, IInvImplies, PTL
<1> QED
  BY <1>1, SyncImplements, UnregisteredFenced, PersistentKept, GenerationTells, PTL
=============================================================================
