-------------------------- MODULE ReservationSync --------------------------
(***************************************************************************)
(* Reservation on a MASTER that keeps a STANDBY informed.                   *)
(*                                                                          *)
(* A handler sends its messages one after another, each answered before the *)
(* next, and holds the reservation lock until the last: out is what it has  *)
(* still to send, and while there is some no other step that needs the lock *)
(* is taken.  The standby applies each message to sync_reservation and      *)
(* sync_istate_list (copy), which a takeover makes the disk's own.          *)
(* A message that fails ends the replication (node_sync_disable), and with  *)
(* it the standby's right to take over (NodeHA).                            *)
(***************************************************************************)
EXTENDS Reservation

VARIABLES
    out,   \* messages the handler that holds the lock has still to send
    copy,  \* the standby: registrations, reservation, generation, and the
           \* nexuses with a sense pending
    sync   \* node_sync_enabled

syncVars == <<registration_list, reservation, generation, istate, sense, ctio,
              owed, out, copy, sync>>

(***************************************************************************)
(* Messages.  Each but the ones about sense carries a reservation_spec.  A  *)
(* message for several registrations or nexuses stands for one for each, in *)
(* the order of the list, which is any order.                               *)
(***************************************************************************)
Registrations(op, regs, r, g) == <<[op |-> op, who |-> regs, res |-> r, gen |-> g]>>

ReservationMsg(op, r, g) == <<[op |-> op, who |-> {}, res |-> r, gen |-> g]>>

\* BUG: the copies are sent before the old ones are dropped.
BugSenseState(told) ==
    IF told = {} THEN <<>>
    ELSE ReservationMsg("SENSE_STATE", reservation, generation)
         \o ReservationMsg("ISTATE_CLEAR", reservation, generation)

\* node_istate_sense_state_send, when there was somebody to tell.
node_istate_sense_state_send(told) ==
    IF told = {} THEN <<>>
    ELSE ReservationMsg("ISTATE_CLEAR", reservation, generation)
         \o ReservationMsg("SENSE_STATE", reservation, generation)

\* A message is sent only while the replication is on.
Send(msgs) ==
    /\ out' = IF sync THEN msgs ELSE <<>>
    /\ UNCHANGED <<copy, sync>>

(***************************************************************************)
(* What the handlers send, in their order.                                  *)
(***************************************************************************)
\* Unregistering tells of the registration before generation is incremented.
Unregister(i) ==
    (IF Released(i, {r \in registration_list : r.iid # i}) /\ in_persistent_ro_type
     THEN node_istate_sense_state_send(Others(i)) ELSE <<>>)
    \o Registrations("DELETE", {r \in registration_list : r.iid = i}, reservation', generation)
    \o ReservationMsg("RESERVATION", reservation', generation')

Register(i, sa) ==
    IF Registered(i)
    THEN IF sa = ZeroKey
         THEN Unregister(i)
         ELSE Registrations("MODIFY", {[iid |-> i, key |-> sa]}, reservation', generation)
              \o ReservationMsg("RESERVATION", reservation', generation')
    ELSE IF sa = ZeroKey
         THEN ReservationMsg("RESERVATION", reservation', generation')
         ELSE Registrations("ADD", {[iid |-> i, key |-> sa]}, reservation', generation')

\* BUG: the new reservation is sent first.
BugPreempt(i, sa) ==
    LET gone == Preempted(i, sa) IN
    ReservationMsg("RESERVATION", reservation', generation')
    \o (IF gone = {} THEN <<>> ELSE Registrations("DELETE", gone, reservation, generation))
    \o node_istate_sense_state_send(gone)

\* The removed registrations go with the old reservation, the new one comes last.
Preempt(i, sa) ==
    LET gone == Preempted(i, sa) IN
    (IF gone = {} THEN <<>> ELSE Registrations("DELETE", gone, reservation, generation))
    \o node_istate_sense_state_send(gone)
    \o ReservationMsg("RESERVATION", reservation', generation')

\* The commands that were accepted; the others send nothing.
persistent_reserve_out_sync(c) ==
    LET i == ctio[c].iid IN
    /\ ctio[c].op = "PERSISTENT_RESERVE_OUT"
    /\ \/ Mirrored /\ Unchanged(c) /\ Send(<<>>)
       \/ \E k, sa \in Key \cup {ZeroKey} :
             /\ persistent_reservation_handle_register(c, i, k, sa)
             /\ Send(IF generation' # generation THEN Register(i, sa) ELSE <<>>)
       \/ \E sa \in Key \cup {ZeroKey} :
             /\ persistent_reservation_handle_register_and_ignore(c, i, sa)
             /\ Send(Register(i, sa))
       \/ \E k \in Key \cup {ZeroKey}, t \in Types :
             /\ persistent_reservation_handle_reserve(c, i, k, t)
             /\ Send(IF reservation' # reservation
                     THEN ReservationMsg("RESERVATION", reservation', generation) ELSE <<>>)
       \/ \E k \in Key \cup {ZeroKey}, t \in Types :
             /\ persistent_reservation_handle_release(c, i, k, t)
             /\ Send(IF ReleaseAccepted(i, k, t)
                     THEN (IF multiple_registrants_reservation_type
                           THEN node_istate_sense_state_send(Others(i)) ELSE <<>>)
                          \o ReservationMsg("RESERVATION", reservation', generation)
                     ELSE <<>>)
       \/ \E k \in Key \cup {ZeroKey} :
             /\ persistent_reservation_handle_clear(c, i, k)
             /\ Send(IF initiator_has_registered(k, i)
                     THEN node_istate_sense_state_send(Others(i))
                          \o ReservationMsg("CLEAR", reservation', generation')
                     ELSE <<>>)
       \/ \E k, sa \in Key \cup {ZeroKey}, t \in Types :
             /\ persistent_reservation_handle_preempt(c, i, k, sa, t)
             /\ Send(IF PreemptAccepted(i, k, sa) THEN Preempt(i, sa) ELSE <<>>)

reserve_sync(c) ==
    /\ tdisk_cmd_reserve(c)
    /\ Send(IF tdisk_cmd_access_ok(ctio[c].iid, "RESERVE")
            THEN ReservationMsg("RESERVATION", reservation', generation) ELSE <<>>)

release_sync(c) ==
    /\ tdisk_cmd_release(c)
    /\ Send(IF reservation.iid = ctio[c].iid
            THEN ReservationMsg("RESERVATION", reservation', generation) ELSE <<>>)

\* A reset tells of the unit attentions, not of the reservation it drops.
reset_sync == tdisk_reset /\ Send(node_istate_sense_state_send(Initiator))

(***************************************************************************)
(* The standby.                                                             *)
(***************************************************************************)
reservation_spec_copy(s, m) == [s EXCEPT !.res = m.res, !.gen = m.gen]

registration_spec_add(s, m, r) ==
    reservation_spec_copy([s EXCEPT !.regs = @ \cup {r}], m)

\* BUG: a registration is looked for by nexus and key.
BugRemove(s, m, r) == reservation_spec_copy([s EXCEPT !.regs = @ \ {r}], m)

registration_spec_remove(s, m, r) ==
    reservation_spec_copy([s EXCEPT !.regs = {q \in @ : q.iid # r.iid}], m)

registration_spec_clear(s, m) == reservation_spec_copy([s EXCEPT !.regs = {}], m)

\* Every operation but ADD, MODIFY too, removes the registration.
node_registration_sync_recv(s, m, r) ==
    IF m.op = "ADD" THEN registration_spec_add(s, m, r) ELSE registration_spec_remove(s, m, r)

\* The first message of out is sent, applied and answered.  The list of a nexus is
\* read when its message is made, under the lock that every change of it takes.
node_sync_send_page ==
    LET m == out[1] IN
    /\ out # <<>>
    /\ \/ /\ m.op \in {"ADD", "DELETE", "MODIFY"}
          /\ \E r \in m.who :
                /\ copy' = node_registration_sync_recv(copy, m, r)
                /\ out' = IF m.who = {r} THEN Tail(out)
                          ELSE [out EXCEPT ![1] = [op |-> m.op, who |-> m.who \ {r},
                                                   res |-> m.res, gen |-> m.gen]]
       \/ /\ m.op = "RESERVATION"
          /\ copy' = reservation_spec_copy(copy, m) /\ out' = Tail(out)
       \/ /\ m.op = "CLEAR"
          /\ copy' = registration_spec_clear(copy, m) /\ out' = Tail(out)
       \/ /\ m.op = "ISTATE_CLEAR"
          /\ copy' = [copy EXCEPT !.told = {}] /\ out' = Tail(out)
       \/ /\ m.op = "SENSE_STATE"
          /\ copy' = [copy EXCEPT !.told = @ \cup {i \in istate : sense[i] # <<>>}]
          /\ out' = Tail(out)
    /\ UNCHANGED <<registration_list, reservation, generation, istate, sense, ctio, owed, sync>>

Empty == [regs |-> {}, gen |-> 0, told |-> {},
          res |-> [is_reserved |-> FALSE, type |-> "NONE", persistent_type |-> NoType,
                   iid |-> NoInitiator, persistent_key |-> ZeroKey]]

\* A message that fails, of this disk or of another: the handler goes on without.
\* What the standby has is of no use any more.
node_sync_disable ==
    /\ sync
    /\ sync' = FALSE /\ out' = <<>> /\ copy' = Empty
    /\ UNCHANGED <<registration_list, reservation, generation, istate, sense, ctio, owed>>

-----------------------------------------------------------------------------
SyncInit == Init /\ out = <<>> /\ copy = Empty /\ sync = TRUE

\* The steps of Reservation that take the lock, in the order of its Next.
Locked ==
    \/ \E c \in Ctio, i \in Initiator, op \in Op : tdisk_proc_cmd(c, i, op) /\ Send(<<>>)
    \/ \E c \in Ctio :
          \/ tdisk_cmd_request_sense(c) /\ Send(<<>>)
          \/ reserve_sync(c)
          \/ release_sync(c)
          \/ persistent_reserve_out_sync(c)
    \/ reset_sync
    \/ \E i \in Initiator : device_free_initiator(i) /\ Send(<<>>)

SyncNext ==
    \/ out = <<>> /\ Locked
    \/ \E c \in Ctio : other_cmd(c) /\ UNCHANGED <<out, copy, sync>>
    \/ node_sync_send_page
    \/ node_sync_disable

SyncSpec == SyncInit /\ [][SyncNext]_syncVars

-----------------------------------------------------------------------------
(* Properties.  The lock is free and the standby may take over.             *)

Replicated == sync /\ out = <<>>

\* The standby knows no registration the master no longer has: whatever was
\* unregistered, preempted, cleared or given another key does not come back with a
\* takeover, so that an initiator that was fenced off stays fenced off.
NoStaleRegistration == Replicated => copy.regs \subseteq registration_list

\* A takeover changes no persistent reservation, makes none up, and does not set
\* the generation back.
PersistentAtStandby ==
    Replicated =>
        /\ copy.gen = generation
        /\ InPersistent \/ copy.res.type = "PERSISTENT" => copy.res = reservation

\* A nexus whose registration another one removed is told so by the standby too.
OwedAtStandby == Replicated => owed \subseteq copy.told
=============================================================================
