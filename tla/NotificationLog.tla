---------------------------- MODULE NotificationLog ----------------------------
(***************************************************************************)
(* What queue/webhook_dispatcher.go promises of its records: the attempts  *)
(* to deliver a notification are numbered without a gap and recorded once  *)
(* each, nothing follows an acknowledgement or the last attempt, and a     *)
(* failed attempt stays scheduled until the next one is on record.  No     *)
(* replicas, leases, crashes or clocks: those are how WebhookDispatcher    *)
(* keeps the promise.                                                      *)
(*                                                                         *)
(* One thing weakens it: a second or later attempt on record that a        *)
(* failed lookup does not show.  From then on attempts of that             *)
(* notification may be recorded again, and also after an acknowledgement.  *)
(***************************************************************************)
EXTENDS Naturals

CONSTANTS Notices,  \* notifications
          Limit     \* attempts that each may take

VARIABLES made,   \* of each notification: the attempts on record
          acked,  \* it has been acknowledged
          owed,   \* its last attempt is scheduled to be followed by another
          missed  \* notifications of which an attempt on record was missed

vars == <<made, acked, owed, missed>>

Init == /\ made = [n \in Notices |-> {}]
        /\ acked = [n \in Notices |-> FALSE]
        /\ owed = [n \in Notices |-> FALSE]
        /\ missed = {}

Record(n, a, ok) ==
  /\ IF a = 1 THEN made[n] = {} ELSE a - 1 \in made[n]
  /\ n \notin missed => ~acked[n] /\ made[n] = 1 .. a - 1 /\ (a > 1 => owed[n])
  /\ made' = [made EXCEPT ![n] = @ \cup {a}]
  /\ acked' = [acked EXCEPT ![n] = @ \/ ok]
  /\ owed' = [owed EXCEPT ![n] = /\ ~acked'[n]
                                 /\ \E b \in made'[n] : b < Limit /\ b + 1 \notin made'[n]]
  /\ UNCHANGED missed

Miss(n) ==
  /\ 2 \in made[n]
  /\ missed' = missed \cup {n}
  /\ UNCHANGED <<made, acked, owed>>

Next == \E n \in Notices : \/ \E a \in 1 .. Limit, ok \in BOOLEAN : Record(n, a, ok)
                           \/ Miss(n)

Spec == Init /\ [][Next]_vars
===============================================================================
