--------------------------- MODULE WebhookDispatcher ---------------------------
(***************************************************************************)
(* queue/webhook_dispatcher.go: the notifications of payment events, the   *)
(* table webhook_logs, which is the retry queue, and the retry worker of   *)
(* every replica.                                                          *)
(*                                                                         *)
(* A first attempt runs in a goroutine of its own and leaves a row when    *)
(* the answer is in.  A failed row is due again after a backoff; a worker  *)
(* claims it with a lease, delivers the next attempt, which leaves a row   *)
(* of its own, and clears the claimed one.  Any replica can die between    *)
(* two steps, and any access to the table can fail: a failed insert loses  *)
(* the row, a failed update changes nothing, and a failed lookup reads as  *)
(* "none found", because the worker ignores its error.                     *)
(*                                                                         *)
(* Times are kept as ages in ticks.  A tick is longer than a backoff, and  *)
(* a batch of deliveries (BatchLimit rows of one HTTP timeout each) is     *)
(* over before a lease (five minutes) is.  One notification is dispatched once, and    *)
(* only orders whose webhook URL passes ValidateWebhookURL are modelled:   *)
(* for any other order nothing is sent and nothing is recorded.            *)
(***************************************************************************)
EXTENDS Integers, Sequences, FiniteSets

CONSTANTS Orders,
          Events,        \* "get" and "confirm", or one of them
          Processes,     \* replicas, each with one retry worker
          NoClaim,       \* retry_claimed_at IS NULL
          MaxRetries,    \* cfg.Webhook.MaxRetries; 0 takes the default
          BackoffSteps,  \* entries of backoffDurations (4)
          Lease,         \* five minutes
          Window,        \* two hours: older rows are left alone
          BatchLimit,    \* rows a worker reads at a time (20)
          MaxFaults      \* bound: crashes and failed accesses to the table

ASSUME EventsAssumption == Events \subseteq {"get", "confirm"}
ASSUME NoClaimAssumption == NoClaim \notin Nat
ASSUME TimesAssumption == /\ {MaxRetries, MaxFaults} \subseteq Nat
                          /\ {BackoffSteps, Lease, Window, BatchLimit} \subseteq Nat \ {0}

VARIABLES logs,      \* table webhook_logs, in order of id
          first,     \* the goroutine of each notification's first attempt
          wk,        \* the retry worker of each process
          faults,
          unseen     \* history: notifications of which an attempt on record was
                     \* missed, since the lookup of it failed

vars == <<logs, first, wk, faults, unseen>>

Notices == Orders \X Events
MaxAttempts == IF MaxRetries = 0 THEN 4 ELSE 1 + MaxRetries

LogRow == [notice : Notices, attempt : 1 .. MaxAttempts, success : BOOLEAN,
           retry : BOOLEAN,                      \* next_retry_at is set
           wait : 0 .. 1,                        \* ticks until it is due
           claim : 0 .. 2 * Lease \cup {NoClaim}, \* age of retry_claimed_at
           age : 0 .. Window + 1]                \* age of created_at

Idle == [phase |-> "idle", batch |-> {}, id |-> 0, acked |-> FALSE, age |-> 0]
Ids == 1 .. Len(logs)

TypeOK ==
  /\ logs \in Seq(LogRow)
  /\ first \in [Notices -> [phase : {"new", "post", "log", "over"},
                            proc : Processes, acked : BOOLEAN]]
  /\ wk \in [Processes -> [phase : {"idle", "next", "claim", "child", "post", "log", "finish"},
                           batch : SUBSET Ids, id : Ids \cup {0}, acked : BOOLEAN,
                           age : 0 .. Lease - 1]]
  /\ faults \in 0 .. MaxFaults /\ unseen \subseteq Notices

Init == /\ logs = << >>
        /\ \E p \in Processes : first = [n \in Notices |-> [phase |-> "new", proc |-> p, acked |-> FALSE]]
        /\ wk = [p \in Processes |-> Idle]
        /\ faults = 0 /\ unseen = {}

-------------------------------------------------------------------------------
(* DeliverWithRetry, the row it leaves.  The backoff table is indexed by   *)
(* the attempt, and an attempt beyond its end panics.                      *)
Panics(a, acked) == ~acked /\ a < MaxAttempts /\ a > BackoffSteps

\* The mutant counts attempts from zero.
NewRowFromZero(n, a, acked, delay) ==
  [notice |-> n, attempt |-> a - 1, success |-> acked, retry |-> ~acked /\ a < MaxAttempts,
   wait |-> delay, claim |-> NoClaim, age |-> 0]

NewRow(n, a, acked, delay) ==
  [notice |-> n, attempt |-> a, success |-> acked, retry |-> ~acked /\ a < MaxAttempts,
   wait |-> delay, claim |-> NoClaim, age |-> 0]

Fault == faults < MaxFaults /\ faults' = faults + 1

Create(n, a, acked) ==
  \E delay \in 0 .. 1 : logs' = Append(logs, NewRow(n, a, acked, delay))

(* DispatchEventAsync, called for get when the payment is seen and for     *)
(* confirm when it is settled.                                             *)
Dispatch(n, p) ==
  /\ first[n].phase = "new"
  /\ \A e \in Events : n[2] = "confirm" /\ e = "get" => first[<<n[1], e>>].phase # "new"
  /\ first' = [first EXCEPT ![n] = [@ EXCEPT !.phase = "post", !.proc = p]]
  /\ UNCHANGED <<logs, wk, faults, unseen>>

(* DeliverWithRetry, the request: the answer is 2xx or anything else, the  *)
(* time-out included.                                                      *)
PostFirst(n) ==
  /\ first[n].phase = "post"
  /\ \E acked \in BOOLEAN :
       first' = [first EXCEPT ![n] = [@ EXCEPT !.phase = "log", !.acked = acked]]
  /\ UNCHANGED <<logs, wk, faults, unseen>>

LogFirst(n) ==
  /\ first[n].phase = "log"
  /\ first' = [first EXCEPT ![n].phase = "over"]
  /\ Create(n, 1, first[n].acked)
  /\ UNCHANGED <<wk, faults, unseen>>

(* The insert fails: the attempt has been made and nothing tells of it. *)
LogFirstFails(n) ==
  /\ first[n].phase = "log"
  /\ Fault
  /\ first' = [first EXCEPT ![n].phase = "over"]
  /\ UNCHANGED <<logs, wk, unseen>>

-------------------------------------------------------------------------------
(* retryPendingLogs. *)

\* The mutant takes a claim for expired one tick early.
ClaimExpiredEarly(row, since) == row.claim # NoClaim => row.claim - since >= Lease - 1

(* retry_claimed_at IS NULL OR <= the time the batch was read minus a lease *)
ClaimExpired(row, since) == row.claim # NoClaim => row.claim - since >= Lease

Pending(row) == /\ ~row.success /\ row.attempt < MaxAttempts
                /\ row.retry /\ row.wait = 0 /\ row.age <= Window
                /\ ClaimExpired(row, 0)

Due == {i \in Ids : Pending(logs[i])}

FirstDue == {i \in Due : Cardinality({j \in Due : j < i}) < BatchLimit}

ReadPending(p) ==
  /\ wk[p].phase = "idle"
  /\ Due # {}
  /\ wk' = [wk EXCEPT ![p] = [Idle EXCEPT !.phase = "next", !.batch = FirstDue]]
  /\ UNCHANGED <<logs, first, faults, unseen>>

(* Done with a row: the loop goes on, or the tick of the worker is over. *)
Leave(w) == IF w.batch = {} THEN Idle ELSE [w EXCEPT !.phase = "next", !.id = 0, !.acked = FALSE]

Delivered(n) == \E i \in Ids : logs[i].notice = n /\ logs[i].success

HasAttempt(n, a) == \E i \in Ids : logs[i].notice = n /\ logs[i].attempt = a

(* The update that takes a row off the queue; it may fail. *)
Clear(i) == \/ /\ logs' = [logs EXCEPT ![i] = [@ EXCEPT !.retry = FALSE, !.claim = NoClaim]]
               /\ UNCHANGED faults
            \/ Fault /\ UNCHANGED logs

(* Rows in order of id.  An event that has been acknowledged is settled;   *)
(* the lookup and the update of it may fail.                               *)
TakeRow(p, i) ==
  /\ wk[p].phase = "next"
  /\ i \in wk[p].batch /\ \A j \in wk[p].batch : i <= j
  /\ LET w == [wk[p] EXCEPT !.batch = @ \ {i}, !.id = i, !.phase = "claim"] IN
       \/ /\ Delivered(logs[i].notice)
          /\ logs' = [logs EXCEPT ![i] = [@ EXCEPT !.retry = FALSE]]
          /\ wk' = [wk EXCEPT ![p] = Leave(w)]
          /\ UNCHANGED faults
       \/ /\ Delivered(logs[i].notice) /\ Fault
          /\ \E v \in {w, Leave(w)} : wk' = [wk EXCEPT ![p] = v]
          /\ UNCHANGED logs
       \/ /\ ~Delivered(logs[i].notice)
          /\ wk' = [wk EXCEPT ![p] = w]
          /\ UNCHANGED <<logs, faults>>
  /\ UNCHANGED <<first, unseen>>

\* The mutant updates the row without a WHERE on the claim.
ClaimRowBlindly(p) ==
  /\ wk[p].phase = "claim"
  /\ logs' = [logs EXCEPT ![wk[p].id].claim = 0]
  /\ wk' = [wk EXCEPT ![p].phase = "child"]
  /\ UNCHANGED <<first, faults, unseen>>

\* The mutant claims by clearing next_retry_at, as a queue without leases.
ClaimRowForGood(p) ==
  LET i == wk[p].id IN
  /\ wk[p].phase = "claim"
  /\ IF logs[i].retry
       THEN /\ logs' = [logs EXCEPT ![i].claim = 0, ![i].retry = FALSE]
            /\ wk' = [wk EXCEPT ![p].phase = "child"]
       ELSE /\ wk' = [wk EXCEPT ![p] = Leave(wk[p])]
            /\ UNCHANGED logs
  /\ UNCHANGED <<first, faults, unseen>>

(* UPDATE ... WHERE next_retry_at IS NOT NULL AND the claim is free.  The  *)
(* row is left alone when nothing was updated, whatever the reason.        *)
ClaimRow(p) ==
  LET i == wk[p].id IN
  /\ wk[p].phase = "claim"
  /\ \/ /\ logs[i].retry /\ ClaimExpired(logs[i], wk[p].age)
        /\ logs' = [logs EXCEPT ![i] = [@ EXCEPT !.claim = 0]]
        /\ wk' = [wk EXCEPT ![p].phase = "child"]
        /\ UNCHANGED faults
     \/ /\ \/ ~(logs[i].retry /\ ClaimExpired(logs[i], wk[p].age)) /\ UNCHANGED faults
           \/ Fault
        /\ wk' = [wk EXCEPT ![p] = Leave(wk[p])]
        /\ UNCHANGED logs
  /\ UNCHANGED <<first, unseen>>

\* The mutant does not look for the next attempt.
CheckNoChild(p) ==
  /\ wk[p].phase = "child"
  /\ wk' = [wk EXCEPT ![p].phase = "post"]
  /\ UNCHANGED <<logs, first, faults, unseen>>

(* The next attempt has left its row already: only this one is cleared.    *)
(* When the update fails the claim is left to expire; when the lookup      *)
(* fails the next attempt is made once more.                               *)
CheckChild(p) ==
  LET i == wk[p].id IN
  /\ wk[p].phase = "child"
  /\ \/ /\ HasAttempt(logs[i].notice, logs[i].attempt + 1)
        /\ Clear(i)
        /\ wk' = [wk EXCEPT ![p] = Leave(wk[p])]
        /\ UNCHANGED unseen
     \/ /\ HasAttempt(logs[i].notice, logs[i].attempt + 1) /\ Fault
        /\ wk' = [wk EXCEPT ![p].phase = "post"]
        /\ unseen' = unseen \cup {logs[i].notice}
        /\ UNCHANGED logs
     \/ /\ ~HasAttempt(logs[i].notice, logs[i].attempt + 1)
        /\ wk' = [wk EXCEPT ![p].phase = "post"]
        /\ UNCHANGED <<logs, faults, unseen>>
  /\ UNCHANGED first

PostRetry(p) ==
  /\ wk[p].phase = "post"
  /\ \E acked \in BOOLEAN : wk' = [wk EXCEPT ![p] = [@ EXCEPT !.phase = "log", !.acked = acked]]
  /\ UNCHANGED <<logs, first, faults, unseen>>

LogRetry(p) ==
  LET row == logs[wk[p].id] IN
  /\ wk[p].phase = "log"
  /\ ~Panics(row.attempt + 1, wk[p].acked)
  /\ Create(row.notice, row.attempt + 1, wk[p].acked)
  /\ wk' = [wk EXCEPT ![p].phase = "finish"]
  /\ UNCHANGED <<first, faults, unseen>>

(* The insert fails: the claim is left to expire. *)
LogRetryFails(p) ==
  /\ wk[p].phase = "log"
  /\ ~Panics(logs[wk[p].id].attempt + 1, wk[p].acked)
  /\ Fault
  /\ wk' = [wk EXCEPT ![p] = Leave(wk[p])]
  /\ UNCHANGED <<logs, first, unseen>>

(* The panic is recovered outside the loop: the batch is lost with it. *)
LogRetryPanics(p) ==
  /\ wk[p].phase = "log"
  /\ Panics(logs[wk[p].id].attempt + 1, wk[p].acked)
  /\ wk' = [wk EXCEPT ![p] = Idle]
  /\ UNCHANGED <<logs, first, faults, unseen>>

(* The update may fail: the claim is left to expire. *)
FinishRow(p) ==
  /\ wk[p].phase = "finish"
  /\ Clear(wk[p].id)
  /\ wk' = [wk EXCEPT ![p] = Leave(wk[p])]
  /\ UNCHANGED <<first, unseen>>

-------------------------------------------------------------------------------
(* A process dies with its worker and its goroutines and is started again. *)
Crash(p) ==
  /\ Fault
  /\ wk' = [wk EXCEPT ![p] = Idle]
  /\ first' = [n \in Notices |-> IF first[n].proc = p /\ first[n].phase \in {"post", "log"}
                                   THEN [first[n] EXCEPT !.phase = "over"] ELSE first[n]]
  /\ UNCHANGED <<logs, unseen>>

Up(a, cap) == IF a < cap THEN a + 1 ELSE a

(* Workers look every three seconds, so no tick passes over a row that is  *)
(* due while a worker is idle; and no batch lasts as long as a lease.      *)
Tick ==
  /\ \A p \in Processes : IF wk[p].phase = "idle" THEN Due = {} ELSE wk[p].age + 1 < Lease
  /\ \A n \in Notices : first[n].phase \notin {"post", "log"}
  /\ logs' = [i \in Ids |-> [logs[i] EXCEPT !.wait = 0, !.age = Up(@, Window + 1),
                                            !.claim = IF @ = NoClaim THEN @ ELSE Up(@, 2 * Lease)]]
  /\ wk' = [p \in Processes |-> IF wk[p].phase = "idle" THEN wk[p] ELSE [wk[p] EXCEPT !.age = @ + 1]]
  /\ UNCHANGED <<first, faults, unseen>>

Worker(p) == \/ ReadPending(p)
             \/ \E i \in Ids : TakeRow(p, i)
             \/ ClaimRow(p) \/ CheckChild(p) \/ PostRetry(p)
             \/ LogRetry(p) \/ LogRetryFails(p) \/ LogRetryPanics(p)
             \/ FinishRow(p)

Sender(n) == PostFirst(n) \/ LogFirst(n) \/ LogFirstFails(n)

Next == \/ \E n \in Notices, p \in Processes : Dispatch(n, p)
        \/ \E n \in Notices : Sender(n)
        \/ \E p \in Processes : Worker(p) \/ Crash(p)
        \/ Tick

Spec == Init /\ [][Next]_vars

(* Goroutines are scheduled, requests time out, the clock goes on. *)
FairSpec == /\ Spec
            /\ \A n \in Notices : WF_vars(Sender(n))
            /\ \A p \in Processes : WF_vars(Worker(p))
            /\ WF_vars(Tick)

-------------------------------------------------------------------------------
(* One row per attempt (lines 189-200): whatever dies where, whatever is   *)
(* lost and however many replicas look at a row, an attempt is not logged  *)
(* twice, and so not retried twice from there on.  The one exception are   *)
(* notifications of which an attempt on record was missed because the      *)
(* error of its lookup (lines 191-194) is ignored.                         *)
OneRowPerAttempt ==
  \A i, j \in Ids :
    /\ logs[i].notice = logs[j].notice /\ logs[i].attempt = logs[j].attempt
    /\ logs[i].notice \notin unseen
    => i = j

(* The lease (lines 179-187): from the claim to the clearing of a row no   *)
(* other replica works on it.                                              *)
LeaseIsExclusive ==
  \A p, q \in Processes :
    /\ wk[p].phase \in {"child", "post", "log", "finish"}
    /\ wk[q].phase \in {"child", "post", "log", "finish"}
    /\ wk[p].id = wk[q].id
    => p = q

(* Lines 172-177 and 189-200: an event whose acknowledgement is on record  *)
(* is not delivered again, also when the lookup of the acknowledgement     *)
(* fails (lines 172-174): the lookup of the next attempt catches it.  Only *)
(* where that one missed an attempt on record is there another delivery.   *)
AcknowledgedIsSettled ==
  [][\A p \in Processes : wk[p].phase = "post" /\ wk'[p].phase = "log"
       => ~Delivered(logs[wk[p].id].notice) \/ logs[wk[p].id].notice \in unseen]_vars

(* Lines 124 and 179-181: no retry is lost with the process that was to    *)
(* make it, nor with a failed access to the table.  A failed attempt below *)
(* the last stays scheduled, claimed or not, until the next one or an      *)
(* acknowledgement is on record.                                           *)
FailuresStayScheduled ==
  \A i \in Ids : ~logs[i].success /\ logs[i].attempt < MaxAttempts
    => \/ logs[i].retry
       \/ HasAttempt(logs[i].notice, logs[i].attempt + 1)
       \/ Delivered(logs[i].notice)

(* Lines 124 and 179-181: a failed attempt that has been scheduled is      *)
(* followed by the next one, also when the worker that claimed it dies.    *)
(* An attempt beyond the backoff table cannot leave a row.                 *)
FailuresAreFollowedUp ==
  \A n \in Notices, a \in 1 .. MaxAttempts - 1 :
    a + 1 <= BackoffSteps =>
      (HasAttempt(n, a) ~> (Delivered(n) \/ HasAttempt(n, a + 1)))

(* README.md:47: up to five retries, and every delivery is on record.      *)
(* Violated with MaxRetries = 5: the fifth attempt fails, the backoff      *)
(* table has four entries, and the row is never written.                   *)
EveryAttemptIsLogged ==
  \A p \in Processes : wk[p].phase = "log" => ~Panics(logs[wk[p].id].attempt + 1, wk[p].acked)

(* The comments at lines 179-181 and 195-196 together: what all replicas   *)
(* write is one log of attempts per notification, without gap or repeat,   *)
(* which ends with an acknowledgement or the last attempt, and whose last  *)
(* row is scheduled otherwise.  Where an attempt on record was missed the  *)
(* log may repeat itself, but it still has no gap and still owes the next  *)
(* attempt.                                                                *)
attemptsMade == [n \in Notices |-> {logs[i].attempt : i \in {j \in Ids : logs[j].notice = n}}]
acknowledged == [n \in Notices |-> Delivered(n)]
nextIsOwed == [n \in Notices |-> ~Delivered(n) /\ \E i \in Ids :
                 /\ logs[i].notice = n /\ logs[i].retry /\ ~HasAttempt(n, logs[i].attempt + 1)]

Log == INSTANCE NotificationLog WITH made <- attemptsMade, acked <- acknowledged,
                                     owed <- nextIsOwed, missed <- unseen, Limit <- MaxAttempts
ImplementsNotificationLog == Log!Spec
===============================================================================
