---------------------------- MODULE Reservation ----------------------------
(***************************************************************************)
(* The reservations of one virtual disk: SCSI-2 RESERVE / RELEASE, SPC-3   *)
(* persistent reservations, the unit attentions they raise and the check   *)
(* tdisk_proc_cmd makes before it runs a command (core/reservation.c, the  *)
(* reservation commands and the command check of core/tdisk.c).            *)
(*                                                                         *)
(* A command takes two steps: tdisk_proc_cmd decides under the reservation *)
(* lock whether the nexus may issue it and drops the lock; the handler     *)
(* takes the lock again.  Steps of other commands come in between.  The    *)
(* check reads nothing but the opcode, so the parameters of PERSISTENT     *)
(* RESERVE OUT (service action, keys, type) are chosen at the second step. *)
(*                                                                         *)
(* Here node_sync is off (its senders return at once): the copy a standby  *)
(* node keeps is in ReservationSync.                                       *)
(***************************************************************************)
EXTENDS Integers, Sequences, FiniteSets

CONSTANTS Initiator,   \* the I_T nexuses: i_prt, t_prt and init_int together
          Ctio,        \* commands in flight at the same time (a bound)
          Key,         \* the reservation keys in use, other than zero
          Types,       \* the values of the type field of the commands, which
                       \* the handlers store and compare as they come
          MaxUnitAttentions, \* MAX_UNIT_ATTENTIONS of rawdefs.h
          GenMod,      \* generation counts modulo GenMod (2^32 in the code)
          Mirrored     \* the disk is the master of a mirrored pair

RO == {"WRITE_EXCLUSIVE_RO", "EXCLUSIVE_ACCESS_RO"}
AR == {"WRITE_EXCLUSIVE_AR", "EXCLUSIVE_ACCESS_AR"}
Single == {"WRITE_EXCLUSIVE", "EXCLUSIVE_ACCESS"}

\* The types persistent_reservation_read_capabilities reports.
PersistentType == Single \cup RO \cup AR

\* The zero key, the zeroed port of a nexus and the zeroed persistent_type.
ZeroKey == 0
NoInitiator == 0
NoType == "0"

ASSUME ReservationAssumption ==
    /\ ZeroKey \notin Key
    /\ NoInitiator \notin Initiator
    /\ MaxUnitAttentions \in Nat \ {0}
    /\ GenMod \in Nat \ {0, 1}
    /\ Mirrored \in BOOLEAN

VARIABLES registration_list, \* set of [iid, key]
          reservation,       \* the other fields of struct reservation
          generation,
          istate,            \* the nexuses that have an initiator_state
          sense,             \* sense_list of each
          ctio,              \* commands past the check, with nexus and opcode
          owed               \* history: nexuses whose registration another one
                             \* removed and that have not seen a sense since

vars == <<registration_list, reservation, generation, istate, sense, ctio, owed>>

Idle == [iid |-> NoInitiator, op |-> "NONE"]
Op == {"READ", "WRITE", "INQUIRY", "REQUEST_SENSE", "RESERVE", "RELEASE",
       "PERSISTENT_RESERVE_IN", "PERSISTENT_RESERVE_OUT"}
UnitAttention == {"RESERVATIONS_RELEASED", "RESERVATIONS_PREEMPTED",
                  "REGISTRATIONS_PREEMPTED", "BUS_RESET"}

-----------------------------------------------------------------------------
(* Reading the reservation.                                                *)

Registered(i) == \E r \in registration_list : r.iid = i

initiator_has_registered(k, i) == [iid |-> i, key |-> k] \in registration_list

InPersistent == reservation.is_reserved /\ reservation.type = "PERSISTENT"

in_persistent_ro_type == InPersistent /\ reservation.persistent_type \in RO

in_persistent_ar_type == InPersistent /\ reservation.persistent_type \in AR

\* Under a type that is not one of the six nobody is the holder.
is_persistent_reservation_holder(i) ==
    /\ reservation.type = "PERSISTENT"
    /\ \/ reservation.persistent_type \in Single \cup RO /\ reservation.iid = i
       \/ reservation.persistent_type \in AR /\ Registered(i)

multiple_registrants_reservation_type == reservation.persistent_type \in RO \cup AR

device_reserved(i) == reservation.is_reserved /\ reservation.iid # i

\* Under a SCSI-2 reservation everything that is not harmless conflicts, under a
\* persistent one it depends on the type and on being registered.
tdisk_cmd_access_ok(i, op) ==
    \/ ~ device_reserved(i)
    \/ reservation.type = "RESERVE" /\ op \in {"INQUIRY", "REQUEST_SENSE", "RELEASE"}
    \/ /\ reservation.type # "RESERVE"
       /\ \/ op \in {"INQUIRY", "REQUEST_SENSE",
                     "PERSISTENT_RESERVE_IN", "PERSISTENT_RESERVE_OUT"}
          \/ /\ op = "WRITE"
             /\ reservation.persistent_type \in RO \cup AR => Registered(i)
             /\ reservation.persistent_type \notin Single
          \/ /\ op = "READ"
             /\ reservation.persistent_type \in {"EXCLUSIVE_ACCESS_RO", "EXCLUSIVE_ACCESS_AR"}
                   => Registered(i)
             /\ reservation.persistent_type # "EXCLUSIVE_ACCESS"

-----------------------------------------------------------------------------
(* Unit attentions.                                                        *)

\* Mutation: the oldest entry goes and the new one is not added.
BugAddSense(s, ua) ==
    IF Len(s) = MaxUnitAttentions THEN Tail(s) ELSE Append(s, ua)

\* Appended at the tail; the oldest one goes when there are too many.
device_add_sense(s, ua) ==
    IF Len(s) = MaxUnitAttentions THEN Append(Tail(s), ua) ELSE Append(s, ua)

\* registrant_unit_attention for every nexus of S: one without an
\* initiator_state is told nothing.
registrants_unit_attention(S, ua) ==
    [i \in Initiator |-> IF i \in S \cap istate THEN device_add_sense(sense[i], ua)
                                                ELSE sense[i]]

\* The nexuses of the registrations other than the one of i.
Others(i) == {j \in Initiator : j # i /\ Registered(j)}

-----------------------------------------------------------------------------
(* Writing the reservation.                                                *)

persistent_reservation_reset(r) ==
    [is_reserved |-> FALSE, type |-> "NONE", persistent_type |-> NoType,
     iid |-> r.iid, persistent_key |-> ZeroKey]

Persistent(i, k, t) ==
    [is_reserved |-> TRUE, type |-> "PERSISTENT", persistent_type |-> t,
     iid |-> i, persistent_key |-> k]

\* Mutation: the copy of the key is not updated.
BugUpdateKey(i, k) == reservation

\* The holder's copy of its key follows a change of the registered key.
persistent_reservation_update_key(i, k) ==
    IF /\ reservation.type = "PERSISTENT"
       /\ reservation.persistent_type \notin AR
       /\ reservation.iid = i
    THEN [is_reserved |-> reservation.is_reserved, type |-> reservation.type,
          persistent_type |-> reservation.persistent_type,
          iid |-> reservation.iid, persistent_key |-> k]
    ELSE reservation

\* What becomes of the reservation when the registration of i, already taken
\* off the list rest, goes.
Released(i, rest) ==
    /\ reservation.is_reserved
    /\ IF in_persistent_ar_type THEN rest = {}
                                ELSE is_persistent_reservation_holder(i)

persistent_reservation_remove_registration(i, rest) ==
    /\ reservation' = IF Released(i, rest) THEN persistent_reservation_reset(reservation)
                                           ELSE reservation
    /\ sense' = IF Released(i, rest) /\ in_persistent_ro_type
                THEN registrants_unit_attention(Others(i), "RESERVATIONS_RELEASED")
                ELSE sense

Generation == generation' = (generation + 1) % GenMod

-----------------------------------------------------------------------------
(* The two steps of a command.                                             *)

\* The answer is sent; ctio c can carry the next command.
device_send_ccb(c) == ctio' = [ctio EXCEPT ![c] = Idle]

\* Conflict, illegal request, failed mirror or nothing to do.
Unchanged(c) ==
    /\ device_send_ccb(c)
    /\ UNCHANGED <<registration_list, reservation, generation, istate, sense, owed>>

\* A pending sense is reported in place of running the command.
report_sense(i, op) ==
    /\ op \notin {"INQUIRY", "REQUEST_SENSE"}
    /\ sense[i] # <<>>
    /\ sense' = [sense EXCEPT ![i] = Tail(sense[i])]
    /\ owed' = owed \ {i}
    /\ UNCHANGED ctio

access_check(c, i, op) ==
    /\ op \in {"INQUIRY", "REQUEST_SENSE"} \/ sense[i] = <<>>
    /\ ctio' = IF tdisk_cmd_access_ok(i, op)
               THEN [ctio EXCEPT ![c] = [iid |-> i, op |-> op]]
               ELSE ctio
    /\ UNCHANGED <<sense, owed>>

\* The initiator_state is made when a command of a new nexus arrives.
tdisk_proc_cmd(c, i, op) ==
    /\ ctio[c] = Idle
    /\ istate' = istate \cup {i}
    /\ report_sense(i, op) \/ access_check(c, i, op)
    /\ UNCHANGED <<registration_list, reservation, generation>>

\* Commands that touch neither reservation nor sense.
other_cmd(c) ==
    /\ ctio[c].op \in {"READ", "WRITE", "INQUIRY", "PERSISTENT_RESERVE_IN"}
    /\ Unchanged(c)

tdisk_cmd_request_sense(c) ==
    /\ ctio[c].op = "REQUEST_SENSE"
    /\ LET i == ctio[c].iid IN
       /\ sense' = [sense EXCEPT ![i] = IF sense[i] = <<>> THEN <<>> ELSE Tail(sense[i])]
       /\ owed' = IF sense[i] = <<>> THEN owed ELSE owed \ {i}
    /\ device_send_ccb(c)
    /\ UNCHANGED <<registration_list, reservation, generation, istate>>

\* The check is made again under the lock.
tdisk_cmd_reserve(c) ==
    /\ ctio[c].op = "RESERVE"
    /\ LET i == ctio[c].iid IN
       reservation' = IF tdisk_cmd_access_ok(i, "RESERVE")
                      THEN [is_reserved |-> TRUE, type |-> "RESERVE",
                            persistent_type |-> reservation.persistent_type,
                            iid |-> i, persistent_key |-> reservation.persistent_key]
                      ELSE reservation
    /\ device_send_ccb(c)
    /\ UNCHANGED <<registration_list, generation, istate, sense, owed>>

\* Only is_reserved is cleared, whatever the type of the reservation.
tdisk_cmd_release(c) ==
    /\ ctio[c].op = "RELEASE"
    /\ reservation' = IF reservation.iid = ctio[c].iid
                      THEN [is_reserved |-> FALSE, type |-> reservation.type,
                            persistent_type |-> reservation.persistent_type,
                            iid |-> reservation.iid,
                            persistent_key |-> reservation.persistent_key]
                      ELSE reservation
    /\ device_send_ccb(c)
    /\ UNCHANGED <<registration_list, generation, istate, sense, owed>>

-----------------------------------------------------------------------------
(* PERSISTENT RESERVE OUT.  i is the nexus of the command, k and sa the    *)
(* reservation key and the service action key of its parameter list, t the *)
(* type in its CDB.                                                        *)

\* The registration of i goes (sa = 0) or gets the key sa.
change_registration(c, i, sa) ==
    LET rest == {r \in registration_list : r.iid # i} IN
    /\ IF sa = ZeroKey
       THEN /\ registration_list' = rest
            /\ persistent_reservation_remove_registration(i, rest)
       ELSE /\ registration_list' = rest \cup {[iid |-> i, key |-> sa]}
            /\ reservation' = persistent_reservation_update_key(i, sa)
            /\ UNCHANGED sense
    /\ Generation
    /\ device_send_ccb(c)
    /\ UNCHANGED <<istate, owed>>

\* Mutation: generation is not incremented.
BugAddRegistration(c, i, sa) ==
    /\ registration_list' = IF sa = ZeroKey THEN registration_list
                            ELSE registration_list \cup {[iid |-> i, key |-> sa]}
    /\ device_send_ccb(c)
    /\ UNCHANGED <<reservation, generation, istate, sense, owed>>

add_registration(c, i, sa) ==
    /\ registration_list' = IF sa = ZeroKey THEN registration_list
                            ELSE registration_list \cup {[iid |-> i, key |-> sa]}
    /\ Generation
    /\ device_send_ccb(c)
    /\ UNCHANGED <<reservation, istate, sense, owed>>

persistent_reservation_handle_register(c, i, k, sa) ==
    \/ /\ Registered(i)
       /\ IF initiator_has_registered(k, i) THEN change_registration(c, i, sa)
                                            ELSE Unchanged(c)
    \/ /\ ~ Registered(i)
       /\ IF k = ZeroKey THEN add_registration(c, i, sa) ELSE Unchanged(c)

persistent_reservation_handle_register_and_ignore(c, i, sa) ==
    IF Registered(i) THEN change_registration(c, i, sa) ELSE add_registration(c, i, sa)

\* Mutation: the registration is not looked up.
BugReserveUnregistered(c, i, k, t) ==
    IF ~ reservation.is_reserved
    THEN /\ reservation' = Persistent(i, k, t)
         /\ device_send_ccb(c)
         /\ UNCHANGED <<registration_list, generation, istate, sense, owed>>
    ELSE Unchanged(c)

\* A second RESERVE of the holder is accepted and changes nothing, as does one
\* that conflicts.
persistent_reservation_handle_reserve(c, i, k, t) ==
    IF initiator_has_registered(k, i) /\ ~ reservation.is_reserved
    THEN /\ reservation' = Persistent(i, k, t)
         /\ device_send_ccb(c)
         /\ UNCHANGED <<registration_list, generation, istate, sense, owed>>
    ELSE Unchanged(c)

ReleaseAccepted(i, k, t) ==
    /\ reservation.is_reserved
    /\ initiator_has_registered(k, i)
    /\ \/ in_persistent_ar_type
       \/ reservation.iid = i /\ reservation.persistent_key = k
    /\ reservation.persistent_type = t

persistent_reservation_handle_release(c, i, k, t) ==
    IF ReleaseAccepted(i, k, t)
    THEN /\ sense' = IF multiple_registrants_reservation_type
                     THEN registrants_unit_attention(Others(i), "RESERVATIONS_RELEASED")
                     ELSE sense
         /\ reservation' = persistent_reservation_reset(reservation)
         /\ device_send_ccb(c)
         /\ UNCHANGED <<registration_list, generation, istate, owed>>
    ELSE Unchanged(c)

persistent_reservation_handle_clear(c, i, k) ==
    IF initiator_has_registered(k, i)
    THEN /\ sense' = registrants_unit_attention(Others(i), "RESERVATIONS_PREEMPTED")
         /\ owed' = owed \cup (Others(i) \cap istate)
         /\ registration_list' = {}
         /\ reservation' = persistent_reservation_reset(reservation)
         /\ Generation
         /\ device_send_ccb(c)
         /\ UNCHANGED istate
    ELSE Unchanged(c)

\* The registrations a PREEMPT of i removes: those with the key sa, or all others
\* when the reservation is an all registrants one and sa is zero.
Preempted(i, sa) ==
    {r \in registration_list :
        r.iid # i /\ (r.key = sa \/ (in_persistent_ar_type /\ sa = ZeroKey))}

\* PREEMPT takes the reservation over when it removes the holder.
TakesOver(sa) ==
    \/ reservation.is_reserved /\ ~ in_persistent_ar_type
                               /\ reservation.persistent_key = sa
    \/ in_persistent_ar_type /\ sa = ZeroKey

PreemptAccepted(i, k, sa) ==
    /\ initiator_has_registered(k, i)
    /\ ~ (reservation.is_reserved /\ ~ in_persistent_ar_type /\ sa = ZeroKey)

\* PREEMPT AND ABORT differs only in flagging the removed nexuses' tasks, which is
\* the task set's business (TaskSet).
persistent_reservation_handle_preempt(c, i, k, sa, t) ==
    LET gone == {r.iid : r \in Preempted(i, sa)} IN
    IF PreemptAccepted(i, k, sa)
    THEN /\ registration_list' = registration_list \ Preempted(i, sa)
         /\ sense' = registrants_unit_attention(gone, "REGISTRATIONS_PREEMPTED")
         /\ owed' = owed \cup (gone \cap istate)
         /\ reservation' = IF TakesOver(sa)
                           THEN [is_reserved |-> reservation.is_reserved,
                                 type |-> "PERSISTENT", persistent_type |-> t,
                                 iid |-> i, persistent_key |-> k]
                           ELSE reservation
         /\ Generation
         /\ device_send_ccb(c)
         /\ UNCHANGED istate
    ELSE Unchanged(c)

\* The mirror peer runs the command first; when it cannot, a command that got
\* this far ends without changing anything.
tdisk_cmd_persistent_reserve_out(c) ==
    /\ ctio[c].op = "PERSISTENT_RESERVE_OUT"
    /\ \/ Mirrored /\ Unchanged(c)
       \/ \E k, sa \in Key \cup {ZeroKey} :
             persistent_reservation_handle_register(c, ctio[c].iid, k, sa)
       \/ \E sa \in Key \cup {ZeroKey} :
             persistent_reservation_handle_register_and_ignore(c, ctio[c].iid, sa)
       \/ \E k \in Key \cup {ZeroKey}, t \in Types :
             persistent_reservation_handle_reserve(c, ctio[c].iid, k, t)
       \/ \E k \in Key \cup {ZeroKey}, t \in Types :
             persistent_reservation_handle_release(c, ctio[c].iid, k, t)
       \/ \E k \in Key \cup {ZeroKey} :
             persistent_reservation_handle_clear(c, ctio[c].iid, k)
       \/ \E k, sa \in Key \cup {ZeroKey}, t \in Types :
             persistent_reservation_handle_preempt(c, ctio[c].iid, k, sa, t)

-----------------------------------------------------------------------------
(* Resets and the end of a session.                                        *)

\* Mutation: a reset drops a reservation of any type.
BugReset ==
    /\ reservation' = IF reservation.is_reserved
                      THEN [is_reserved |-> FALSE, type |-> "NONE",
                            persistent_type |-> reservation.persistent_type,
                            iid |-> reservation.iid,
                            persistent_key |-> reservation.persistent_key]
                      ELSE reservation
    /\ UNCHANGED <<registration_list, generation, istate, sense, ctio, owed>>

\* A LUN or target reset drops a SCSI-2 reservation and tells every initiator once.
tdisk_reset ==
    /\ reservation' = IF reservation.is_reserved /\ reservation.type = "RESERVE"
                      THEN [is_reserved |-> FALSE, type |-> "NONE",
                            persistent_type |-> reservation.persistent_type,
                            iid |-> reservation.iid,
                            persistent_key |-> reservation.persistent_key]
                      ELSE reservation
    /\ sense' = [i \in Initiator |->
                    IF i \in istate /\ \A n \in 1 .. Len(sense[i]) : sense[i][n] # "BUS_RESET"
                    THEN device_add_sense(sense[i], "BUS_RESET")
                    ELSE sense[i]]
    /\ UNCHANGED <<registration_list, generation, istate, ctio, owed>>

\* The session of i ends, or its initiator_state is found stale: the pending sense
\* goes with it, the registration and the reservation stay.
device_free_initiator(i) ==
    /\ i \in istate
    /\ istate' = istate \ {i}
    /\ sense' = [sense EXCEPT ![i] = <<>>]
    /\ owed' = owed \ {i}
    /\ UNCHANGED <<registration_list, reservation, generation, ctio>>

-----------------------------------------------------------------------------
Init ==
    /\ registration_list = {}
    /\ reservation = [is_reserved |-> FALSE, type |-> "NONE", persistent_type |-> NoType,
                      iid |-> NoInitiator, persistent_key |-> ZeroKey]
    /\ generation = 0
    /\ istate = {}
    /\ sense = [i \in Initiator |-> <<>>]
    /\ ctio = [c \in Ctio |-> Idle]
    /\ owed = {}

Next ==
    \/ \E c \in Ctio, i \in Initiator, op \in Op : tdisk_proc_cmd(c, i, op)
    \/ \E c \in Ctio :
          \/ other_cmd(c)
          \/ tdisk_cmd_request_sense(c)
          \/ tdisk_cmd_reserve(c)
          \/ tdisk_cmd_release(c)
          \/ tdisk_cmd_persistent_reserve_out(c)
    \/ tdisk_reset
    \/ \E i \in Initiator : device_free_initiator(i)

Spec == Init /\ [][Next]_vars

-----------------------------------------------------------------------------
(* Properties.                                                             *)

Registration == [iid : Initiator, key : Key]

\* The type invariant: registrations carry a key other than zero, a sense_list is
\* never longer than MAX_UNIT_ATTENTIONS.
TypeOK ==
    /\ registration_list \subseteq Registration
    /\ reservation \in [is_reserved : BOOLEAN, type : {"NONE", "RESERVE", "PERSISTENT"},
                        persistent_type : Types \cup {NoType},
                        iid : Initiator \cup {NoInitiator},
                        persistent_key : Key \cup {ZeroKey}]
    /\ generation \in 0 .. GenMod - 1
    /\ istate \subseteq Initiator
    /\ sense \in [Initiator -> Seq(UnitAttention)]
    /\ \A i \in Initiator : Len(sense[i]) <= MaxUnitAttentions
    /\ ctio \in [Ctio -> {Idle} \cup [iid : Initiator, op : Op]]
    /\ owed \subseteq istate

\* A nexus has at most one registration (the scans of the register handlers).
OneRegistration ==
    \A r, s \in registration_list : r.iid = s.iid => r = s

\* A persistent reservation of one of the six types never outlives the registration
\* it rests on: the nexus recorded as holder is registered, with the key recorded as
\* persistent_key; under an all registrants type there is at least one registration.
\* Registering again with another key, unregistering, PREEMPT, CLEAR and resets all
\* have to keep the two structures in step, and so has a PREEMPT that takes a
\* reservation over from one of a type that is not among the six.  Of those it is not
\* claimed: nobody is their holder for persistent_reservation_remove_registration.
HolderIsRegistered ==
    InPersistent /\ reservation.persistent_type \in PersistentType =>
        IF reservation.persistent_type \in AR
        THEN registration_list # {}
        ELSE initiator_has_registered(reservation.persistent_key, reservation.iid)

\* Under a persistent reservation of one of the six types a nexus that is not
\* registered passes no check for writing, with one exception: the nexus recorded in
\* a reservation of an all registrants type (tdisk_cmd_access_ok lets the recorded
\* nexus through before it looks at the registrations).
UnregisteredMayNotWrite ==
    InPersistent /\ reservation.persistent_type \in PersistentType =>
        \A i \in Initiator :
            ~ Registered(i) /\ tdisk_cmd_access_ok(i, "WRITE") =>
                reservation.persistent_type \in AR /\ reservation.iid = i

\* Without the exception: under the all registrants types ("Write Exclusive All
\* Registrants", "Exclusive Access All Registrants") only registrants have access.
OnlyRegistrantsWrite ==
    in_persistent_ar_type =>
        \A i \in Initiator : ~ Registered(i) => ~ tdisk_cmd_access_ok(i, "WRITE")

\* A nexus whose registration was removed by another one (PREEMPT, CLEAR) finds a
\* unit attention waiting, also when the sense_list overflowed in between: no
\* command of it is run before it is told.
LossIsReported == \A i \in owed : sense[i] # <<>>

\* Who is behind a step: the nexus of a command that ends.
Ends(c) == ctio[c] # Idle /\ ctio'[c] = Idle

\* A persistent reservation is taken from its holder by a command of the holder's
\* own nexus or of a registered one; no reset, session end or command of an
\* unregistered nexus changes it.
PersistentIsKept ==
    [][InPersistent /\ reservation' # reservation =>
          \E c \in Ctio : /\ Ends(c)
                          /\ \/ ctio[c].iid = reservation.iid
                             \/ Registered(ctio[c].iid)]_vars

\* Every change of the registrations changes the generation an initiator reads with
\* PERSISTENT RESERVE IN: two equal readings mean equal registrations, unless a whole
\* round of the counter lies between them.
GenerationTellsChanges ==
    [][registration_list' # registration_list => generation' # generation]_vars

\* A SCSI-2 reservation ends through its holder or through a reset; everything else
\* from other nexuses conflicts ("return -1; /* conflict */" for PERSISTENT RESERVE
\* OUT in tdisk_cmd_access_ok).
ReserveIsKept ==
    [][reservation.is_reserved /\ reservation.type = "RESERVE"
          /\ reservation' # reservation
          /\ (\E c \in Ctio : Ends(c)) =>
       \E c \in Ctio : Ends(c) /\ ctio[c].iid = reservation.iid]_vars
=============================================================================
