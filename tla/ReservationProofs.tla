------------------------ MODULE ReservationProofs ------------------------
(* Proofs about Reservation, for any sets of initiators, commands and keys. *)
EXTENDS Reservation, TLAPS

USE ReservationAssumption DEF ZeroKey, NoInitiator

Reservations ==
    [is_reserved : BOOLEAN, type : {"NONE", "RESERVE", "PERSISTENT"},
     persistent_type : Types \cup {NoType},
     iid : Initiator \cup {NoInitiator}, persistent_key : Key \cup {ZeroKey}]

\* The sense lists alone: what TypeOK and LossIsReported say about them.
SenseOK(s) ==
    /\ s \in [Initiator -> Seq(UnitAttention)]
    /\ \A i \in Initiator : Len(s[i]) <= MaxUnitAttentions

\* device_add_sense returns a list that is not empty and not too long.
LEMMA AddSense ==
    ASSUME NEW s \in Seq(UnitAttention), Len(s) <= MaxUnitAttentions,
           NEW ua \in UnitAttention
    PROVE  /\ device_add_sense(s, ua) \in Seq(UnitAttention)
           /\ Len(device_add_sense(s, ua)) <= MaxUnitAttentions
           /\ device_add_sense(s, ua) # <<>>
<1>1. CASE Len(s) = MaxUnitAttentions
  <2>1. s # <<>> BY <1>1
  <2>2. Tail(s) \in Seq(UnitAttention) /\ Len(Tail(s)) = Len(s) - 1 BY <2>1
  <2>3. /\ Append(Tail(s), ua) \in Seq(UnitAttention)
        /\ Len(Append(Tail(s), ua)) = Len(s)
    BY <2>2
  <2>4. Append(Tail(s), ua) # <<>> BY <2>3, <1>1
  <2> QED BY <1>1, <2>3, <2>4 DEF device_add_sense
<1>2. CASE Len(s) # MaxUnitAttentions
  <2>1. /\ Append(s, ua) \in Seq(UnitAttention)
        /\ Len(Append(s, ua)) = Len(s) + 1
    OBVIOUS
  <2>2. Append(s, ua) # <<>> BY <2>1
  <2>3. Len(s) < MaxUnitAttentions BY <1>2
  <2> QED BY <1>2, <2>1, <2>2, <2>3 DEF device_add_sense
<1> QED BY <1>1, <1>2

\* registrants_unit_attention keeps the lists well formed, empties none and leaves
\* none of the nexuses it tells with an empty one.
LEMMA UnitAttentions ==
    ASSUME SenseOK(sense), NEW S, NEW ua \in UnitAttention
    PROVE  /\ SenseOK(registrants_unit_attention(S, ua))
           /\ \A i \in Initiator : i \in S \cap istate \/ sense[i] # <<>>
                 => registrants_unit_attention(S, ua)[i] # <<>>
<1> DEFINE new == registrants_unit_attention(S, ua)
<1>1. \A i \in Initiator : new[i] = IF i \in S \cap istate
                                    THEN device_add_sense(sense[i], ua) ELSE sense[i]
  BY DEF registrants_unit_attention
<1>2. ASSUME NEW i \in Initiator
      PROVE  /\ new[i] \in Seq(UnitAttention)
             /\ Len(new[i]) <= MaxUnitAttentions
             /\ i \in S \cap istate \/ sense[i] # <<>> => new[i] # <<>>
  <2>1. sense[i] \in Seq(UnitAttention) /\ Len(sense[i]) <= MaxUnitAttentions
    BY DEF SenseOK
  <2>2. /\ device_add_sense(sense[i], ua) \in Seq(UnitAttention)
        /\ Len(device_add_sense(sense[i], ua)) <= MaxUnitAttentions
        /\ device_add_sense(sense[i], ua) # <<>>
    BY <2>1, AddSense
  <2> HIDE DEF new
  <2> QED BY <1>1, <2>1, <2>2
<1>3. new = [i \in Initiator |-> new[i]] BY DEF registrants_unit_attention
<1> HIDE DEF new
<1>4. new \in [Initiator -> Seq(UnitAttention)] BY <1>2, <1>3
<1> QED BY <1>2, <1>4 DEF SenseOK, new

-----------------------------------------------------------------------------
(* The invariant falls into three parts: the registrations and the          *)
(* reservation, the sense lists, and the commands in flight.                *)

RInv ==
    /\ registration_list \subseteq Registration
    /\ reservation \in Reservations
    /\ generation \in 0 .. GenMod - 1
    /\ OneRegistration
    /\ HolderIsRegistered

SInv ==
    /\ SenseOK(sense)
    /\ istate \subseteq Initiator
    /\ owed \subseteq istate
    /\ LossIsReported

CInv == ctio \in [Ctio -> {Idle} \cup [iid : Initiator, op : Op]]

IInv == RInv /\ SInv /\ CInv

LEMMA IInvImplies ==
    IInv => TypeOK /\ OneRegistration /\ HolderIsRegistered /\ LossIsReported
  BY DEF IInv, RInv, SInv, CInv, SenseOK, TypeOK, Reservations

LEMMA Initially == Init => IInv
<1> SUFFICES ASSUME Init PROVE IInv OBVIOUS
<1>1. RInv
  BY DEF Init, RInv, Registration, Reservations, OneRegistration, HolderIsRegistered,
         InPersistent, NoType
<1>2. SInv
  <2>1. <<>> \in Seq(UnitAttention) /\ Len(<<>>) = 0 OBVIOUS
  <2> QED BY <2>1 DEF Init, SInv, SenseOK, LossIsReported
<1>3. CInv BY DEF Init, CInv
<1> QED BY <1>1, <1>2, <1>3 DEF IInv

\* What a command of PERSISTENT RESERVE OUT leaves of the first part.
LEMMA NextGeneration ==
    ASSUME generation \in 0 .. GenMod - 1, Generation
    PROVE  generation' \in 0 .. GenMod - 1 /\ generation' # generation
<1>1. CASE generation = GenMod - 1
  <2>1. (generation + 1) % GenMod = 0 BY <1>1
  <2> QED BY <1>1, <2>1 DEF Generation
<1>2. CASE generation # GenMod - 1
  <2>1. (generation + 1) % GenMod = generation + 1 BY <1>2
  <2> QED BY <1>2, <2>1 DEF Generation
<1> QED BY <1>1, <1>2

LEMMA ChangeKeepsRInv ==
    ASSUME RInv, NEW c, NEW i \in Initiator, NEW sa \in Key \cup {ZeroKey},
           change_registration(c, i, sa)
    PROVE  RInv'
<1> DEFINE rest == {r \in registration_list : r.iid # i}
<1>g. generation' \in 0 .. GenMod - 1
  BY NextGeneration DEF RInv, change_registration
<1>t. /\ registration_list \subseteq Registration
      /\ reservation \in Reservations
      /\ OneRegistration
      /\ HolderIsRegistered
  BY DEF RInv
<1>1. CASE sa = ZeroKey
  <2>1. registration_list' = rest BY <1>1 DEF change_registration
  <2>2. reservation' = IF Released(i, rest) THEN persistent_reservation_reset(reservation)
                       ELSE reservation
    BY <1>1 DEF change_registration, persistent_reservation_remove_registration
  <2>3. registration_list' \subseteq Registration BY <2>1, <1>t
  <2>4. OneRegistration' BY <2>1, <1>t DEF OneRegistration
  <2>5. CASE Released(i, rest)
    <3>1. reservation' = persistent_reservation_reset(reservation) BY <2>2, <2>5
    <3>2. reservation' \in Reservations /\ ~ reservation'.is_reserved
      BY <3>1, <1>t DEF persistent_reservation_reset, Reservations, NoType
    <3> QED BY <3>2, <2>3, <2>4, <1>g DEF RInv, HolderIsRegistered, InPersistent
  <2>6. CASE ~ Released(i, rest)
    <3>1. reservation' = reservation BY <2>2, <2>6
    <3>2. HolderIsRegistered'
      <4> SUFFICES ASSUME InPersistent, reservation.persistent_type \in PersistentType
                   PROVE  IF reservation.persistent_type \in AR
                          THEN rest # {}
                          ELSE [iid |-> reservation.iid, key |-> reservation.persistent_key]
                                  \in rest
        BY <3>1, <2>1 DEF HolderIsRegistered, InPersistent, initiator_has_registered
      <4>1. CASE reservation.persistent_type \in AR
        BY <4>1, <2>6 DEF Released, in_persistent_ar_type, InPersistent
      <4>2. CASE reservation.persistent_type \notin AR
        <5>1. reservation.iid # i
          BY <4>2, <2>6 DEF Released, in_persistent_ar_type, InPersistent, PersistentType,
                            is_persistent_reservation_holder
        <5>2. [iid |-> reservation.iid, key |-> reservation.persistent_key]
                 \in registration_list
          BY <4>2, <1>t DEF HolderIsRegistered, initiator_has_registered
        <5> QED BY <4>2, <5>1, <5>2
      <4> QED BY <4>1, <4>2
    <3> QED BY <3>1, <3>2, <2>3, <2>4, <1>g, <1>t DEF RInv, InPersistent
  <2> QED BY <2>5, <2>6
<1>2. CASE sa # ZeroKey
  <2>1. registration_list' = rest \cup {[iid |-> i, key |-> sa]}
    BY <1>2 DEF change_registration
  <2>2. reservation' = persistent_reservation_update_key(i, sa)
    BY <1>2 DEF change_registration
  <2>3. registration_list' \subseteq Registration BY <2>1, <1>t, <1>2 DEF Registration
  <2>4. OneRegistration' BY <2>1, <1>t DEF OneRegistration
  <2>5. reservation' \in Reservations
    BY <2>2, <1>t DEF persistent_reservation_update_key, Reservations
  <2>6. HolderIsRegistered'
    <3> SUFFICES ASSUME InPersistent', reservation'.persistent_type \in PersistentType
                 PROVE  IF reservation'.persistent_type \in AR
                        THEN registration_list' # {}
                        ELSE [iid |-> reservation'.iid, key |-> reservation'.persistent_key]
                                \in registration_list'
      BY DEF HolderIsRegistered, initiator_has_registered
    <3>1. CASE reservation'.persistent_type \in AR BY <3>1, <2>1
    <3>2. CASE reservation'.persistent_type \notin AR /\ reservation.iid = i
      <4>1. reservation'.iid = i /\ reservation'.persistent_key = sa
        BY <3>2, <2>2, <1>t
           DEF persistent_reservation_update_key, InPersistent, Reservations
      <4> QED BY <3>2, <4>1, <2>1
    <3>3. CASE reservation'.persistent_type \notin AR /\ reservation.iid # i
      <4>1. reservation' = reservation BY <3>3, <2>2 DEF persistent_reservation_update_key
      <4>2. [iid |-> reservation.iid, key |-> reservation.persistent_key]
               \in registration_list
        BY <4>1, <3>3, <1>t DEF HolderIsRegistered, initiator_has_registered, InPersistent
      <4> QED BY <3>3, <4>1, <4>2, <2>1
    <3> QED BY <3>1, <3>2, <3>3
  <2> QED BY <2>3, <2>4, <2>5, <2>6, <1>g DEF RInv
<1> QED BY <1>1, <1>2

LEMMA AddKeepsRInv ==
    ASSUME RInv, NEW c, NEW i \in Initiator, NEW sa \in Key \cup {ZeroKey},
           ~ Registered(i), add_registration(c, i, sa)
    PROVE  RInv'
<1>g. generation' \in 0 .. GenMod - 1
  BY NextGeneration DEF RInv, add_registration
<1>1. reservation' = reservation BY DEF add_registration
<1>2. CASE sa = ZeroKey
  <2>1. registration_list' = registration_list BY <1>2 DEF add_registration
  <2> QED BY <1>g, <1>1, <2>1 DEF RInv, OneRegistration, HolderIsRegistered, InPersistent,
                                  initiator_has_registered
<1>3. CASE sa # ZeroKey
  <2>1. registration_list' = registration_list \cup {[iid |-> i, key |-> sa]}
    BY <1>3 DEF add_registration
  <2>2. registration_list' \subseteq Registration BY <2>1, <1>3 DEF RInv, Registration
  <2>3. OneRegistration' BY <2>1 DEF RInv, OneRegistration, Registered
  <2>4. HolderIsRegistered'
    BY <2>1, <1>1 DEF RInv, HolderIsRegistered, InPersistent, initiator_has_registered
  <2> QED BY <1>g, <1>1, <2>2, <2>3, <2>4 DEF RInv, InPersistent
<1> QED BY <1>2, <1>3

LEMMA UnchangedKeepsRInv ==
    ASSUME RInv, UNCHANGED <<registration_list, reservation, generation>>
    PROVE  RInv'
  BY DEF RInv, OneRegistration, HolderIsRegistered, InPersistent, initiator_has_registered

LEMMA PreemptKeepsRInv ==
    ASSUME RInv, NEW c, NEW i \in Initiator, NEW k \in Key \cup {ZeroKey},
           NEW sa \in Key \cup {ZeroKey}, NEW t \in Types,
           PreemptAccepted(i, k, sa), persistent_reservation_handle_preempt(c, i, k, sa, t)
    PROVE  RInv'
<1>t. /\ registration_list \subseteq Registration
      /\ reservation \in Reservations
      /\ OneRegistration
      /\ HolderIsRegistered
  BY DEF RInv
<1>1. /\ registration_list' = registration_list \ Preempted(i, sa)
      /\ reservation' = IF TakesOver(sa)
                        THEN [is_reserved |-> reservation.is_reserved,
                              type |-> "PERSISTENT", persistent_type |-> t,
                              iid |-> i, persistent_key |-> k]
                        ELSE reservation
      /\ Generation
  BY DEF persistent_reservation_handle_preempt
<1>g. generation' \in 0 .. GenMod - 1 BY <1>1, NextGeneration DEF RInv
<1>2. registration_list' \subseteq Registration BY <1>1, <1>t
<1>3. OneRegistration' BY <1>1, <1>t DEF OneRegistration
<1>4. [iid |-> i, key |-> k] \in registration_list'
  BY <1>1 DEF PreemptAccepted, initiator_has_registered, Preempted
<1>5. CASE TakesOver(sa)
  <2>1. reservation' = [is_reserved |-> reservation.is_reserved, type |-> "PERSISTENT",
                        persistent_type |-> t, iid |-> i, persistent_key |-> k]
    BY <1>1, <1>5
  <2>2. reservation' \in Reservations BY <2>1, <1>t DEF Reservations
  <2>3. HolderIsRegistered' BY <2>1, <1>4 DEF HolderIsRegistered, initiator_has_registered
  <2> QED BY <2>2, <2>3, <1>2, <1>3, <1>g DEF RInv
<1>6. CASE ~ TakesOver(sa)
  <2>1. reservation' = reservation BY <1>1, <1>6
  <2>2. HolderIsRegistered'
    <3> SUFFICES ASSUME InPersistent, reservation.persistent_type \in PersistentType \ AR
                 PROVE  [iid |-> reservation.iid, key |-> reservation.persistent_key]
                            \in registration_list'
      BY <2>1, <1>4 DEF HolderIsRegistered, InPersistent, initiator_has_registered
    <3>1. [iid |-> reservation.iid, key |-> reservation.persistent_key]
             \in registration_list
      BY <1>t DEF HolderIsRegistered, initiator_has_registered
    <3>2. ~ in_persistent_ar_type /\ reservation.persistent_key # sa
      BY <1>6 DEF TakesOver, in_persistent_ar_type, InPersistent
    <3> QED BY <3>1, <3>2, <1>1 DEF Preempted
  <2> QED BY <2>1, <2>2, <1>2, <1>3, <1>g, <1>t DEF RInv, InPersistent
<1> QED BY <1>5, <1>6

LEMMA ClearKeepsRInv ==
    ASSUME RInv, NEW c, NEW i \in Initiator, NEW k, initiator_has_registered(k, i),
           persistent_reservation_handle_clear(c, i, k)
    PROVE  RInv'
<1>1. /\ registration_list' = {}
      /\ reservation' = persistent_reservation_reset(reservation)
      /\ Generation
  BY DEF persistent_reservation_handle_clear
<1>2. generation' \in 0 .. GenMod - 1 BY <1>1, NextGeneration DEF RInv
<1>3. reservation' \in Reservations /\ ~ reservation'.is_reserved
  BY <1>1 DEF RInv, persistent_reservation_reset, Reservations, NoType
<1> QED BY <1>1, <1>2, <1>3 DEF RInv, OneRegistration, HolderIsRegistered, InPersistent

\* PERSISTENT RESERVE OUT keeps registrations and reservation in step.
LEMMA OutKeepsRInv ==
    ASSUME RInv, CInv, NEW c \in Ctio, tdisk_cmd_persistent_reserve_out(c)
    PROVE  RInv'
<1> DEFINE i == ctio[c].iid
<1>i. i \in Initiator
  BY DEF CInv, Idle, tdisk_cmd_persistent_reserve_out
<1>u. ASSUME Unchanged(c) PROVE RInv'
  BY <1>u, UnchangedKeepsRInv DEF Unchanged
<1> HIDE DEF i
<1>1. CASE Mirrored /\ Unchanged(c) BY <1>1, <1>u
<1>2. ASSUME NEW k \in Key \cup {ZeroKey}, NEW sa \in Key \cup {ZeroKey},
             persistent_reservation_handle_register(c, i, k, sa)
      PROVE  RInv'
  BY <1>2, <1>i, <1>u, ChangeKeepsRInv, AddKeepsRInv
     DEF persistent_reservation_handle_register
<1>3. ASSUME NEW sa \in Key \cup {ZeroKey},
             persistent_reservation_handle_register_and_ignore(c, i, sa)
      PROVE  RInv'
  BY <1>3, <1>i, ChangeKeepsRInv, AddKeepsRInv
     DEF persistent_reservation_handle_register_and_ignore
<1>4. ASSUME NEW k \in Key \cup {ZeroKey}, NEW t \in Types,
             persistent_reservation_handle_reserve(c, i, k, t)
      PROVE  RInv'
  <2>1. CASE initiator_has_registered(k, i) /\ ~ reservation.is_reserved
    <3>1. /\ reservation' = Persistent(i, k, t)
          /\ UNCHANGED <<registration_list, generation>>
      BY <1>4, <2>1 DEF persistent_reservation_handle_reserve
    <3>2. reservation' \in Reservations
      BY <3>1, <1>i DEF Persistent, Reservations
    <3>3. HolderIsRegistered'
      BY <3>1, <2>1 DEF HolderIsRegistered, Persistent, initiator_has_registered
    <3> QED BY <3>1, <3>2, <3>3 DEF RInv, OneRegistration
  <2>2. CASE ~ (initiator_has_registered(k, i) /\ ~ reservation.is_reserved)
    BY <1>4, <2>2, <1>u DEF persistent_reservation_handle_reserve
  <2> QED BY <2>1, <2>2
<1>5. ASSUME NEW k \in Key \cup {ZeroKey}, NEW t \in Types,
             persistent_reservation_handle_release(c, i, k, t)
      PROVE  RInv'
  <2>1. CASE ReleaseAccepted(i, k, t)
    <3>1. /\ reservation' = persistent_reservation_reset(reservation)
          /\ UNCHANGED <<registration_list, generation>>
      BY <1>5, <2>1 DEF persistent_reservation_handle_release
    <3>2. reservation' \in Reservations /\ ~ reservation'.is_reserved
      BY <3>1 DEF RInv, persistent_reservation_reset, Reservations, NoType
    <3> QED BY <3>1, <3>2 DEF RInv, OneRegistration, HolderIsRegistered, InPersistent
  <2>2. CASE ~ ReleaseAccepted(i, k, t)
    BY <1>5, <2>2, <1>u DEF persistent_reservation_handle_release
  <2> QED BY <2>1, <2>2
<1>6. ASSUME NEW k \in Key \cup {ZeroKey}, persistent_reservation_handle_clear(c, i, k)
      PROVE  RInv'
  <2>1. CASE initiator_has_registered(k, i) BY <1>6, <2>1, <1>i, ClearKeepsRInv
  <2>2. CASE ~ initiator_has_registered(k, i)
    BY <1>6, <2>2, <1>u DEF persistent_reservation_handle_clear
  <2> QED BY <2>1, <2>2
<1>7. ASSUME NEW k \in Key \cup {ZeroKey}, NEW sa \in Key \cup {ZeroKey}, NEW t \in Types,
             persistent_reservation_handle_preempt(c, i, k, sa, t)
      PROVE  RInv'
  <2>1. CASE PreemptAccepted(i, k, sa) BY <1>7, <2>1, <1>i, PreemptKeepsRInv
  <2>2. CASE ~ PreemptAccepted(i, k, sa)
    BY <1>7, <2>2, <1>u DEF persistent_reservation_handle_preempt
  <2> QED BY <2>1, <2>2
<1> QED
  BY <1>1, <1>2, <1>3, <1>4, <1>5, <1>6, <1>7 DEF tdisk_cmd_persistent_reserve_out, i

\* So does every other step.
LEMMA StepKeepsRInv ==
    ASSUME RInv, CInv, [Next]_vars
    PROVE  RInv'
<1>1. ASSUME NEW c \in Ctio, NEW i \in Initiator, NEW op \in Op, tdisk_proc_cmd(c, i, op)
      PROVE  RInv'
  BY <1>1, UnchangedKeepsRInv DEF tdisk_proc_cmd
<1>2. ASSUME NEW c \in Ctio, other_cmd(c) PROVE RInv'
  BY <1>2, UnchangedKeepsRInv DEF other_cmd, Unchanged
<1>3. ASSUME NEW c \in Ctio, tdisk_cmd_request_sense(c) PROVE RInv'
  BY <1>3, UnchangedKeepsRInv DEF tdisk_cmd_request_sense
<1>4. ASSUME NEW c \in Ctio, tdisk_cmd_reserve(c) PROVE RInv'
  <2> DEFINE i == ctio[c].iid
  <2>i. i \in Initiator BY <1>4 DEF CInv, Idle, tdisk_cmd_reserve
  <2>1. CASE tdisk_cmd_access_ok(i, "RESERVE")
    <3>1. /\ reservation' = [is_reserved |-> TRUE, type |-> "RESERVE",
                             persistent_type |-> reservation.persistent_type,
                             iid |-> i, persistent_key |-> reservation.persistent_key]
          /\ UNCHANGED <<registration_list, generation>>
      BY <1>4, <2>1 DEF tdisk_cmd_reserve
    <3>2. reservation' \in Reservations BY <3>1, <2>i DEF RInv, Reservations
    <3>3. ~ InPersistent' BY <3>1 DEF InPersistent
    <3> QED BY <3>1, <3>2, <3>3 DEF RInv, OneRegistration, HolderIsRegistered
  <2>2. CASE ~ tdisk_cmd_access_ok(i, "RESERVE")
    BY <1>4, <2>2, UnchangedKeepsRInv DEF tdisk_cmd_reserve
  <2> QED BY <2>1, <2>2
<1>5. ASSUME NEW c \in Ctio, tdisk_cmd_release(c) PROVE RInv'
  <2>1. CASE reservation.iid = ctio[c].iid
    <3>1. /\ reservation' = [is_reserved |-> FALSE, type |-> reservation.type,
                             persistent_type |-> reservation.persistent_type,
                             iid |-> reservation.iid,
                             persistent_key |-> reservation.persistent_key]
          /\ UNCHANGED <<registration_list, generation>>
      BY <1>5, <2>1 DEF tdisk_cmd_release
    <3>2. reservation' \in Reservations BY <3>1 DEF RInv, Reservations
    <3>3. ~ InPersistent' BY <3>1 DEF InPersistent
    <3> QED BY <3>1, <3>2, <3>3 DEF RInv, OneRegistration, HolderIsRegistered
  <2>2. CASE reservation.iid # ctio[c].iid
    BY <1>5, <2>2, UnchangedKeepsRInv DEF tdisk_cmd_release
  <2> QED BY <2>1, <2>2
<1>6. ASSUME NEW c \in Ctio, tdisk_cmd_persistent_reserve_out(c) PROVE RInv'
  BY <1>6, OutKeepsRInv
<1>7. CASE tdisk_reset
  <2>1. CASE reservation.is_reserved /\ reservation.type = "RESERVE"
    <3>1. /\ reservation' = [is_reserved |-> FALSE, type |-> "NONE",
                             persistent_type |-> reservation.persistent_type,
                             iid |-> reservation.iid,
                             persistent_key |-> reservation.persistent_key]
          /\ UNCHANGED <<registration_list, generation>>
      BY <1>7, <2>1 DEF tdisk_reset
    <3>2. reservation' \in Reservations BY <3>1 DEF RInv, Reservations
    <3>3. ~ InPersistent' BY <3>1 DEF InPersistent
    <3> QED BY <3>1, <3>2, <3>3 DEF RInv, OneRegistration, HolderIsRegistered
  <2>2. CASE ~ (reservation.is_reserved /\ reservation.type = "RESERVE")
    BY <1>7, <2>2, UnchangedKeepsRInv DEF tdisk_reset
  <2> QED BY <2>1, <2>2
<1>8. ASSUME NEW i \in Initiator, device_free_initiator(i) PROVE RInv'
  BY <1>8, UnchangedKeepsRInv DEF device_free_initiator
<1>9. CASE UNCHANGED vars BY <1>9, UnchangedKeepsRInv DEF vars
<1> QED BY <1>1, <1>2, <1>3, <1>4, <1>5, <1>6, <1>7, <1>8, <1>9 DEF Next

-----------------------------------------------------------------------------
(* Unit attentions.                                                         *)

LEMMA TellingKeepsSInv ==
    ASSUME SInv, NEW S, NEW ua \in UnitAttention,
           sense' = registrants_unit_attention(S, ua),
           owed' \subseteq owed \cup (S \cap istate), istate' = istate
    PROVE  SInv'
<1>1. /\ SenseOK(sense')
      /\ \A i \in Initiator : i \in S \cap istate \/ sense[i] # <<>> => sense'[i] # <<>>
  BY UnitAttentions DEF SInv
<1>2. LossIsReported'
  <2> SUFFICES ASSUME NEW i \in owed' PROVE sense'[i] # <<>> BY DEF LossIsReported
  <2>1. CASE i \in owed BY <2>1, <1>1 DEF SInv, LossIsReported
  <2>2. CASE i \in S \cap istate BY <2>2, <1>1 DEF SInv
  <2> QED BY <2>1, <2>2
<1> QED BY <1>1, <1>2 DEF SInv, SenseOK

LEMMA UnchangedKeepsSInv ==
    ASSUME SInv, UNCHANGED <<istate, sense, owed>>
    PROVE  SInv'
  BY DEF SInv, SenseOK, LossIsReported

\* Taking the first sense off the list of i pays what i is owed.
LEMMA TakingKeepsSInv ==
    ASSUME SInv, NEW i \in Initiator, sense[i] # <<>>,
           sense' = [sense EXCEPT ![i] = Tail(sense[i])], owed' = owed \ {i},
           istate' \in {istate, istate \cup {i}}
    PROVE  SInv'
<1>1. sense[i] \in Seq(UnitAttention) /\ Len(sense[i]) <= MaxUnitAttentions
  BY DEF SInv, SenseOK
<1>2. Tail(sense[i]) \in Seq(UnitAttention) /\ Len(Tail(sense[i])) <= MaxUnitAttentions
  BY <1>1
<1>3. SenseOK(sense')
  BY <1>2 DEF SInv, SenseOK
<1>4. LossIsReported' BY DEF SInv, SenseOK, LossIsReported
<1> QED BY <1>3, <1>4 DEF SInv, SenseOK

LEMMA OutKeepsSInv ==
    ASSUME SInv, NEW c \in Ctio, tdisk_cmd_persistent_reserve_out(c)
    PROVE  SInv'
<1> DEFINE i == ctio[c].iid
<1>ua. /\ "RESERVATIONS_RELEASED" \in UnitAttention
       /\ "RESERVATIONS_PREEMPTED" \in UnitAttention
       /\ "REGISTRATIONS_PREEMPTED" \in UnitAttention
  BY DEF UnitAttention
<1>r. ASSUME NEW S, sense' = registrants_unit_attention(S, "RESERVATIONS_RELEASED"),
             UNCHANGED <<istate, owed>>
      PROVE  SInv'
  BY <1>r, <1>ua, TellingKeepsSInv
<1>u. ASSUME Unchanged(c) PROVE SInv'
  BY <1>u, UnchangedKeepsSInv DEF Unchanged
<1>c. ASSUME NEW sa, change_registration(c, i, sa) PROVE SInv'
  <2> DEFINE rest == {r \in registration_list : r.iid # i}
  <2>1. CASE /\ sa = ZeroKey
             /\ Released(i, rest)
             /\ in_persistent_ro_type
    <3>1. sense' = registrants_unit_attention(Others(i), "RESERVATIONS_RELEASED")
      BY <2>1, <1>c DEF change_registration, persistent_reservation_remove_registration
    <3> QED BY <3>1, <1>c, <1>r DEF change_registration
  <2>2. CASE ~ (/\ sa = ZeroKey
                /\ Released(i, rest)
                /\ in_persistent_ro_type)
    BY <2>2, <1>c, UnchangedKeepsSInv
       DEF change_registration, persistent_reservation_remove_registration
  <2> QED BY <2>1, <2>2
<1>a. ASSUME NEW sa, add_registration(c, i, sa) PROVE SInv'
  BY <1>a, UnchangedKeepsSInv DEF add_registration
<1> HIDE DEF i
<1>1. CASE Mirrored /\ Unchanged(c) BY <1>1, <1>u
<1>2. ASSUME NEW k, NEW sa, persistent_reservation_handle_register(c, i, k, sa)
      PROVE  SInv'
  BY <1>2, <1>u, <1>c, <1>a DEF persistent_reservation_handle_register
<1>3. ASSUME NEW sa, persistent_reservation_handle_register_and_ignore(c, i, sa)
      PROVE  SInv'
  BY <1>3, <1>c, <1>a DEF persistent_reservation_handle_register_and_ignore
<1>4. ASSUME NEW k, NEW t, persistent_reservation_handle_reserve(c, i, k, t)
      PROVE  SInv'
  BY <1>4, <1>u, UnchangedKeepsSInv DEF persistent_reservation_handle_reserve
<1>5. ASSUME NEW k, NEW t, persistent_reservation_handle_release(c, i, k, t)
      PROVE  SInv'
  <2>1. CASE ReleaseAccepted(i, k, t) /\ multiple_registrants_reservation_type
    <3>1. /\ sense' = registrants_unit_attention(Others(i), "RESERVATIONS_RELEASED")
          /\ UNCHANGED <<istate, owed>>
      BY <1>5, <2>1 DEF persistent_reservation_handle_release
    <3> QED BY <3>1, <1>r
  <2>2. CASE ReleaseAccepted(i, k, t) /\ ~ multiple_registrants_reservation_type
    BY <1>5, <2>2, UnchangedKeepsSInv DEF persistent_reservation_handle_release
  <2>3. CASE ~ ReleaseAccepted(i, k, t)
    BY <1>5, <2>3, <1>u DEF persistent_reservation_handle_release
  <2> QED BY <2>1, <2>2, <2>3
<1>6. ASSUME NEW k, persistent_reservation_handle_clear(c, i, k)
      PROVE  SInv'
  <2>1. CASE initiator_has_registered(k, i)
    <3>1. /\ sense' = registrants_unit_attention(Others(i), "RESERVATIONS_PREEMPTED")
          /\ owed' = owed \cup (Others(i) \cap istate)
          /\ istate' = istate
      BY <1>6, <2>1 DEF persistent_reservation_handle_clear
    <3> QED BY <3>1, <1>ua, TellingKeepsSInv
  <2>2. CASE ~ initiator_has_registered(k, i)
    BY <1>6, <2>2, <1>u DEF persistent_reservation_handle_clear
  <2> QED BY <2>1, <2>2
<1>7. ASSUME NEW k, NEW sa, NEW t, persistent_reservation_handle_preempt(c, i, k, sa, t)
      PROVE  SInv'
  <2> DEFINE gone == {r.iid : r \in Preempted(i, sa)}
  <2>1. CASE PreemptAccepted(i, k, sa)
    <3>1. /\ sense' = registrants_unit_attention(gone, "REGISTRATIONS_PREEMPTED")
          /\ owed' = owed \cup (gone \cap istate)
          /\ istate' = istate
      BY <1>7, <2>1 DEF persistent_reservation_handle_preempt
    <3> HIDE DEF gone
    <3> QED BY <3>1, <1>ua, TellingKeepsSInv
  <2>2. CASE ~ PreemptAccepted(i, k, sa)
    BY <1>7, <2>2, <1>u DEF persistent_reservation_handle_preempt
  <2> QED BY <2>1, <2>2
<1> QED
  BY <1>1, <1>2, <1>3, <1>4, <1>5, <1>6, <1>7 DEF tdisk_cmd_persistent_reserve_out, i

\* A reset adds to lists and takes nothing off that was owed.
LEMMA ResetKeepsSInv ==
    ASSUME SInv, tdisk_reset
    PROVE  SInv'
<1> DEFINE tell == {i \in istate : \A n \in 1 .. Len(sense[i]) : sense[i][n] # "BUS_RESET"}
<1>1. sense' = registrants_unit_attention(tell, "BUS_RESET")
  BY DEF tdisk_reset, registrants_unit_attention
<1>2. owed' = owed /\ istate' = istate
  BY DEF tdisk_reset
<1>3. "BUS_RESET" \in UnitAttention BY DEF UnitAttention
<1> HIDE DEF tell
<1> QED BY <1>1, <1>2, <1>3, TellingKeepsSInv

LEMMA StepKeepsSInv ==
    ASSUME SInv, CInv, [Next]_vars
    PROVE  SInv'
<1>1. ASSUME NEW c \in Ctio, NEW i \in Initiator, NEW op \in Op, tdisk_proc_cmd(c, i, op)
      PROVE  SInv'
  <2>1. CASE report_sense(i, op)
    BY <2>1, <1>1, TakingKeepsSInv DEF report_sense, tdisk_proc_cmd
  <2>2. CASE access_check(c, i, op)
    BY <2>2, <1>1 DEF access_check, tdisk_proc_cmd, SInv, SenseOK, LossIsReported
  <2> QED BY <1>1, <2>1, <2>2 DEF tdisk_proc_cmd
<1>2. ASSUME NEW c \in Ctio, other_cmd(c) PROVE SInv'
  BY <1>2, UnchangedKeepsSInv DEF other_cmd, Unchanged
<1>3. ASSUME NEW c \in Ctio, tdisk_cmd_request_sense(c) PROVE SInv'
  <2> DEFINE i == ctio[c].iid
  <2>i. i \in Initiator BY <1>3 DEF CInv, Idle, tdisk_cmd_request_sense
  <2>1. CASE sense[i] = <<>>
    <3>1. sense' = [sense EXCEPT ![i] = <<>>] /\ UNCHANGED <<owed, istate>>
      BY <1>3, <2>1 DEF tdisk_cmd_request_sense
    <3>2. sense' = sense BY <3>1, <2>1, <2>i DEF SInv, SenseOK
    <3> QED BY <3>1, <3>2, UnchangedKeepsSInv
  <2>2. CASE sense[i] # <<>>
    <3>1. /\ sense' = [sense EXCEPT ![i] = Tail(sense[i])]
          /\ owed' = owed \ {i}
          /\ istate' = istate
      BY <1>3, <2>2 DEF tdisk_cmd_request_sense
    <3> HIDE DEF i
    <3> QED BY <3>1, <2>2, <2>i, TakingKeepsSInv
  <2> QED BY <2>1, <2>2
<1>4. ASSUME NEW c \in Ctio, tdisk_cmd_reserve(c) PROVE SInv'
  BY <1>4, UnchangedKeepsSInv DEF tdisk_cmd_reserve
<1>5. ASSUME NEW c \in Ctio, tdisk_cmd_release(c) PROVE SInv'
  BY <1>5, UnchangedKeepsSInv DEF tdisk_cmd_release
<1>6. ASSUME NEW c \in Ctio, tdisk_cmd_persistent_reserve_out(c) PROVE SInv'
  BY <1>6, OutKeepsSInv
<1>7. CASE tdisk_reset BY <1>7, ResetKeepsSInv
<1>8. ASSUME NEW i \in Initiator, device_free_initiator(i) PROVE SInv'
  <2>1. <<>> \in Seq(UnitAttention) /\ Len(<<>>) = 0 OBVIOUS
  <2> QED BY <1>8, <2>1 DEF device_free_initiator, SInv, SenseOK, LossIsReported
<1>9. CASE UNCHANGED vars BY <1>9, UnchangedKeepsSInv DEF vars
<1> QED BY <1>1, <1>2, <1>3, <1>4, <1>5, <1>6, <1>7, <1>8, <1>9 DEF Next

-----------------------------------------------------------------------------
(* Commands in flight.                                                      *)

LEMMA OutEnds ==
    ASSUME NEW c \in Ctio, tdisk_cmd_persistent_reserve_out(c)
    PROVE  device_send_ccb(c)
<1> DEFINE i == ctio[c].iid
<1> HIDE DEF i
<1>c. ASSUME NEW sa, change_registration(c, i, sa) PROVE device_send_ccb(c)
  BY <1>c DEF change_registration
<1>a. ASSUME NEW sa, add_registration(c, i, sa) PROVE device_send_ccb(c)
  BY <1>a DEF add_registration
<1>u. ASSUME Unchanged(c) PROVE device_send_ccb(c) BY <1>u DEF Unchanged
<1>2. ASSUME NEW k, NEW sa, persistent_reservation_handle_register(c, i, k, sa)
      PROVE  device_send_ccb(c)
  BY <1>2, <1>u, <1>c, <1>a DEF persistent_reservation_handle_register
<1>3. ASSUME NEW sa, persistent_reservation_handle_register_and_ignore(c, i, sa)
      PROVE  device_send_ccb(c)
  BY <1>3, <1>c, <1>a DEF persistent_reservation_handle_register_and_ignore
<1>4. ASSUME NEW k, NEW t, persistent_reservation_handle_reserve(c, i, k, t)
      PROVE  device_send_ccb(c)
  BY <1>4, <1>u DEF persistent_reservation_handle_reserve
<1>5. ASSUME NEW k, NEW t, persistent_reservation_handle_release(c, i, k, t)
      PROVE  device_send_ccb(c)
  BY <1>5, <1>u DEF persistent_reservation_handle_release
<1>6. ASSUME NEW k, persistent_reservation_handle_clear(c, i, k)
      PROVE  device_send_ccb(c)
  BY <1>6, <1>u DEF persistent_reservation_handle_clear
<1>7. ASSUME NEW k, NEW sa, NEW t, persistent_reservation_handle_preempt(c, i, k, sa, t)
      PROVE  device_send_ccb(c)
  BY <1>7, <1>u DEF persistent_reservation_handle_preempt
<1> QED
  BY <1>u, <1>2, <1>3, <1>4, <1>5, <1>6, <1>7 DEF tdisk_cmd_persistent_reserve_out, i

LEMMA StepKeepsCInv ==
    ASSUME CInv, [Next]_vars
    PROVE  CInv'
<1>1. ASSUME NEW c \in Ctio, NEW i \in Initiator, NEW op \in Op, tdisk_proc_cmd(c, i, op)
      PROVE  CInv'
  <2>1. CASE report_sense(i, op) BY <2>1 DEF report_sense, CInv
  <2>2. CASE access_check(c, i, op)
    <3>1. ctio' \in {ctio, [ctio EXCEPT ![c] = [iid |-> i, op |-> op]]}
      BY <2>2 DEF access_check
    <3> QED BY <3>1 DEF CInv
  <2> QED BY <1>1, <2>1, <2>2 DEF tdisk_proc_cmd
<1>2. ASSUME NEW c \in Ctio, device_send_ccb(c) PROVE CInv'
  BY <1>2 DEF device_send_ccb, CInv
<1>3. ASSUME UNCHANGED ctio PROVE CInv' BY <1>3 DEF CInv
<1>4. CASE \E c \in Ctio : \/ other_cmd(c) \/ tdisk_cmd_request_sense(c)
                           \/ tdisk_cmd_reserve(c) \/ tdisk_cmd_release(c)
                           \/ tdisk_cmd_persistent_reserve_out(c)
  BY <1>4, <1>2, OutEnds DEF other_cmd, Unchanged, tdisk_cmd_request_sense,
                             tdisk_cmd_reserve, tdisk_cmd_release
<1>5. CASE tdisk_reset \/ \E i \in Initiator : device_free_initiator(i)
  BY <1>5, <1>3 DEF tdisk_reset, device_free_initiator
<1>6. CASE UNCHANGED vars BY <1>6, <1>3 DEF vars
<1> QED BY <1>1, <1>4, <1>5, <1>6 DEF Next

-----------------------------------------------------------------------------
(* The theorems.                                                            *)

LEMMA Invariance == Spec => []IInv
<1>1. IInv /\ [Next]_vars => IInv'
  BY StepKeepsRInv, StepKeepsSInv, StepKeepsCInv DEF IInv
<1> QED BY Initially, <1>1, PTL DEF Spec

\* Type correctness.
THEOREM TypesCorrect == Spec => []TypeOK
  BY Invariance, IInvImplies, PTL

\* A nexus has at most one registration.
THEOREM RegisteredOnce == Spec => []OneRegistration
  BY Invariance, IInvImplies, PTL

\* A persistent reservation of one of the six types never outlives the registration it
\* rests on, whatever values the type fields of the commands have.
THEOREM HolderRegistered == Spec => []HolderIsRegistered
  BY Invariance, IInvImplies, PTL

\* A nexus that lost its registration to another one has a unit attention pending.
THEOREM LossReported == Spec => []LossIsReported
  BY Invariance, IInvImplies, PTL

\* No unregistered nexus passes the check for writing under a reservation of one of the
\* six types, unless it is the one recorded in an all registrants reservation.
THEOREM UnregisteredFenced == Spec => []UnregisteredMayNotWrite
<1>1. IInv => UnregisteredMayNotWrite
  <2> SUFFICES ASSUME IInv, InPersistent, reservation.persistent_type \in PersistentType,
                      NEW i \in Initiator, ~ Registered(i), tdisk_cmd_access_ok(i, "WRITE")
               PROVE  reservation.persistent_type \in AR /\ reservation.iid = i
    BY DEF UnregisteredMayNotWrite
  <2>1. ~ device_reserved(i)
    BY DEF tdisk_cmd_access_ok, InPersistent, PersistentType
  <2>2. reservation.iid = i BY <2>1 DEF device_reserved, InPersistent
  <2>3. ASSUME reservation.persistent_type \notin AR PROVE FALSE
    <3>1. [iid |-> i, key |-> reservation.persistent_key] \in registration_list
      BY <2>2, <2>3 DEF IInv, RInv, HolderIsRegistered, initiator_has_registered
    <3> QED BY <3>1 DEF Registered
  <2> QED BY <2>2, <2>3
<1> QED BY Invariance, <1>1, PTL

\* What a change by PERSISTENT RESERVE OUT presupposes and entails.
LEMMA OutChanges ==
    ASSUME NEW c \in Ctio, tdisk_cmd_persistent_reserve_out(c)
    PROVE  /\ reservation' # reservation => Registered(ctio[c].iid)
           /\ registration_list' # registration_list => Generation
<1> DEFINE i == ctio[c].iid
           Goal == /\ reservation' # reservation => Registered(i)
                   /\ registration_list' # registration_list => Generation
<1>k. ASSUME NEW k, initiator_has_registered(k, i) PROVE Registered(i)
  BY <1>k DEF initiator_has_registered, Registered
<1> HIDE DEF i
<1>u. ASSUME Unchanged(c) PROVE Goal BY <1>u DEF Unchanged
<1>c. ASSUME NEW sa, Registered(i), change_registration(c, i, sa) PROVE Goal
  BY <1>c DEF change_registration
<1>a. ASSUME NEW sa, add_registration(c, i, sa) PROVE Goal
  BY <1>a DEF add_registration
<1>2. ASSUME NEW k, NEW sa, persistent_reservation_handle_register(c, i, k, sa)
      PROVE  Goal
  <2> HIDE DEF Goal
  <2> QED BY <1>2, <1>u, <1>c, <1>a DEF persistent_reservation_handle_register
<1>3. ASSUME NEW sa, persistent_reservation_handle_register_and_ignore(c, i, sa)
      PROVE  Goal
  <2> HIDE DEF Goal
  <2> QED BY <1>3, <1>c, <1>a DEF persistent_reservation_handle_register_and_ignore
<1>4. ASSUME NEW k, NEW t, persistent_reservation_handle_reserve(c, i, k, t)
      PROVE  Goal
  BY <1>4, <1>u, <1>k DEF persistent_reservation_handle_reserve
<1>5. ASSUME NEW k, NEW t, persistent_reservation_handle_release(c, i, k, t)
      PROVE  Goal
  BY <1>5, <1>u, <1>k DEF persistent_reservation_handle_release, ReleaseAccepted
<1>6. ASSUME NEW k, persistent_reservation_handle_clear(c, i, k)
      PROVE  Goal
  BY <1>6, <1>u, <1>k DEF persistent_reservation_handle_clear
<1>7. ASSUME NEW k, NEW sa, NEW t, persistent_reservation_handle_preempt(c, i, k, sa, t)
      PROVE  Goal
  BY <1>7, <1>u, <1>k DEF persistent_reservation_handle_preempt, PreemptAccepted
<1> HIDE DEF Goal
<1>8. Goal
  BY <1>u, <1>2, <1>3, <1>4, <1>5, <1>6, <1>7 DEF tdisk_cmd_persistent_reserve_out, i
<1> QED BY <1>8 DEF Goal, i

\* A persistent reservation is taken away only by a command of its holder's nexus or of
\* a registered one.
THEOREM PersistentKept == Spec => PersistentIsKept
<1> DEFINE Allowed == \E c \in Ctio : /\ Ends(c)
                                      /\ \/ ctio[c].iid = reservation.iid
                                         \/ Registered(ctio[c].iid)
<1>1. ASSUME IInv, Next, InPersistent, reservation' # reservation
      PROVE  Allowed
  <2>e. ASSUME NEW c \in Ctio, ctio[c].op # "NONE", device_send_ccb(c) PROVE Ends(c)
    BY <2>e, <1>1 DEF Ends, device_send_ccb, IInv, CInv, Idle
  <2>1. ASSUME NEW c \in Ctio, tdisk_cmd_reserve(c) PROVE Allowed
    <3>1. tdisk_cmd_access_ok(ctio[c].iid, "RESERVE") BY <2>1, <1>1 DEF tdisk_cmd_reserve
    <3>2. ctio[c].iid = reservation.iid
      BY <3>1, <1>1 DEF tdisk_cmd_access_ok, device_reserved, InPersistent
    <3> QED BY <3>2, <2>1, <2>e DEF tdisk_cmd_reserve
  <2>2. ASSUME NEW c \in Ctio, tdisk_cmd_release(c) PROVE Allowed
    BY <2>2, <2>e, <1>1 DEF tdisk_cmd_release
  <2>3. ASSUME NEW c \in Ctio, tdisk_cmd_persistent_reserve_out(c) PROVE Allowed
    BY <2>3, <2>e, <1>1, OutChanges, OutEnds DEF tdisk_cmd_persistent_reserve_out
  <2>4. ~ tdisk_reset BY <1>1 DEF tdisk_reset, InPersistent
  <2>5. ~ \E i \in Initiator : device_free_initiator(i) BY <1>1 DEF device_free_initiator
  <2>6. ~ \E c \in Ctio, i \in Initiator, op \in Op : tdisk_proc_cmd(c, i, op)
    BY <1>1 DEF tdisk_proc_cmd
  <2>7. ~ \E c \in Ctio : other_cmd(c) \/ tdisk_cmd_request_sense(c)
    BY <1>1 DEF other_cmd, Unchanged, tdisk_cmd_request_sense
  <2> HIDE DEF Allowed
  <2> QED BY <1>1, <2>1, <2>2, <2>3, <2>4, <2>5, <2>6, <2>7 DEF Next
<1>2. IInv /\ [Next]_vars => [InPersistent /\ reservation' # reservation => Allowed]_vars
  BY <1>1
<1> QED BY Invariance, <1>2, PTL DEF Spec, PersistentIsKept

\* Every change of the registrations changes the generation.
THEOREM GenerationTells == Spec => GenerationTellsChanges
<1>1. ASSUME IInv, Next, registration_list' # registration_list
      PROVE  generation' # generation
  <2>1. ASSUME NEW c \in Ctio, tdisk_cmd_persistent_reserve_out(c)
        PROVE  generation' # generation
    BY <2>1, <1>1, OutChanges, NextGeneration DEF IInv, RInv
  <2> QED
    BY <1>1, <2>1 DEF Next, tdisk_proc_cmd, other_cmd, Unchanged, tdisk_cmd_request_sense,
                      tdisk_cmd_reserve, tdisk_cmd_release, tdisk_reset,
                      device_free_initiator
<1>2. IInv /\ [Next]_vars
         => [registration_list' # registration_list => generation' # generation]_vars
  BY <1>1
<1> QED BY Invariance, <1>2, PTL DEF Spec, GenerationTellsChanges
=============================================================================
