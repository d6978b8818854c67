------------------------------- MODULE OrderLife -------------------------------
(***************************************************************************)
(* The statuses of the orders and the transfer each is credited with, as   *)
(* engine/matcher.go, queue/confirmation_worker.go, queue/cleaner.go and   *)
(* service/intent.go move them, without the copies, statements and         *)
(* restarts in between.  A request or a cancellation that was begun in     *)
(* time may take any order back, a credited one too.  Crediting is         *)
(* stricter: an order is credited only while it is not, with one transfer, *)
(* keeps it until somebody takes it back, and does not return from PAID to *)
(* CONFIRMING.                                                             *)
(***************************************************************************)
CONSTANTS Orders, Transfers,
          NoTransfer   \* credited with nothing

VARIABLES status, credit

vars == <<status, credit>>

Credited(o) == status[o] \in {"CONFIRMING", "PAID"}

Init == /\ status = [o \in Orders |-> "NONE"]
        /\ credit = [o \in Orders |-> NoTransfer]

To(o, s, x) == /\ status' = [status EXCEPT ![o] = s]
               /\ credit' = [credit EXCEPT ![o] = x]

Watch(o) == To(o, "WATCHING", NoTransfer)

Cancel(o) == status[o] # "NONE" /\ To(o, "CANCELLED", NoTransfer)

Expire(S) == /\ \A o \in S : status[o] = "WATCHING"
             /\ status' = [o \in Orders |-> IF o \in S THEN "EXPIRED" ELSE status[o]]
             /\ UNCHANGED credit

Credit(o, x, s) == /\ status[o] # "NONE" /\ ~Credited(o)
                   /\ To(o, s, x)

Pay(o) == status[o] = "CONFIRMING" /\ To(o, "PAID", credit[o])

Next == \/ \E o \in Orders : Watch(o) \/ Cancel(o) \/ Pay(o)
        \/ \E o \in Orders, x \in Transfers, s \in {"CONFIRMING", "PAID"} : Credit(o, x, s)
        \/ \E S \in SUBSET Orders : Expire(S)

Spec == Init /\ [][Next]_vars
================================================================================
