----------------------- MODULE WebhookDispatcher_proofs -----------------------
(***************************************************************************)
(* What holds of WebhookDispatcher for every number of replicas, orders    *)
(* and retries, and for every length of the lease and of the backoff.      *)
(*                                                                         *)
(* The argument: a claim is never older than the batch of the worker that  *)
(* set it (ClaimInv), and a batch is over before a lease is; so a row in   *)
(* work is not free for anybody else.  The child lookup then stays true    *)
(* until the next row is written (ChildInv), the rows of a notification    *)
(* are a chain of attempts, and only its last one can be a success.  All   *)
(* of this is lost for a notification whose child lookup failed when there *)
(* was a child (unseen); what remains for it is that attempts have no gap  *)
(* (GapInv) and that the next one is owed.                                 *)
(***************************************************************************)
EXTENDS WebhookDispatcher, SequenceTheorems, TLAPS

Holding == {"child", "post", "log", "finish"}
Unsettled(i) == ~logs[i].success /\ logs[i].attempt < MaxAttempts

(* A notification has rows only after its first attempt. *)
RowsInv == \A i \in Ids : first[logs[i].notice].phase = "over"

BatchInv == /\ \A p \in Processes : \A i \in wk[p].batch : Unsettled(i)
            /\ \A p \in Processes : wk[p].phase \notin {"idle", "next"}
                                      => wk[p].id \in Ids /\ Unsettled(wk[p].id)

ClaimInv == \A p \in Processes : wk[p].phase \in Holding => logs[wk[p].id].claim \in 0 .. wk[p].age

ChildInv == \A p \in Processes :
              wk[p].phase \in {"post", "log"} /\ logs[wk[p].id].notice \notin unseen
              => ~HasAttempt(logs[wk[p].id].notice, logs[wk[p].id].attempt + 1)

(* An attempt is preceded by the one before it, a success followed by none. *)
ChainInv == \A i, j \in Ids :
              /\ logs[i].notice = logs[j].notice /\ logs[i].attempt < logs[j].attempt
              /\ logs[i].notice \notin unseen
              => /\ ~logs[i].success
                 /\ HasAttempt(logs[i].notice, logs[i].attempt + 1)

IInv == /\ TypeOK /\ RowsInv /\ BatchInv /\ ClaimInv /\ LeaseIsExclusive
        /\ OneRowPerAttempt /\ ChildInv /\ ChainInv

-------------------------------------------------------------------------------
LEMMA Times == {Lease, Window, 2 * Lease} \subseteq Nat /\ Lease > 0
BY TimesAssumption

LEMMA Attempts == MaxAttempts \in Nat /\ MaxAttempts >= 2
BY TimesAssumption DEF MaxAttempts

(* What a step does to the table: the attempts that are on record stay,    *)
(* and at most one row is added.                                           *)
SameAttempts == \A i \in Ids : /\ logs'[i].notice = logs[i].notice
                               /\ logs'[i].attempt = logs[i].attempt
                               /\ logs'[i].success = logs[i].success
Kept == logs' \in Seq(LogRow) /\ Len(logs') = Len(logs) /\ SameAttempts

Added(n, a, acked) ==
  /\ logs' \in Seq(LogRow) /\ Len(logs') = Len(logs) + 1
  /\ \A i \in Ids : logs'[i] = logs[i]
  /\ LET new == logs'[Len(logs) + 1] IN /\ new.notice = n /\ new.attempt = a /\ new.success = acked
                                      /\ new.retry = (~acked /\ a < MaxAttempts)

LEMMA ReplaceRow ==
  ASSUME logs \in Seq(LogRow), NEW i \in Ids, NEW row \in LogRow,
         row.notice = logs[i].notice, row.attempt = logs[i].attempt, row.success = logs[i].success,
         logs' = [logs EXCEPT ![i] = row]
  PROVE  Kept /\ logs'[i] = row /\ \A j \in Ids \ {i} : logs'[j] = logs[j]
<1>1. i \in 1 .. Len(logs)
  BY DEF Ids
<1> QED BY <1>1, ExceptSeq DEF Kept, SameAttempts, Ids

LEMMA RowTypes ==
  ASSUME TypeOK
  PROVE  /\ logs \in Seq(LogRow) /\ Len(logs) \in Nat
         /\ \A i \in Ids : /\ logs[i] \in LogRow /\ logs[i].notice \in Notices
                         /\ logs[i].attempt \in Nat /\ logs[i].attempt >= 1
<1>1. logs \in Seq(LogRow) /\ Len(logs) \in Nat
  BY LenProperties DEF TypeOK
<1>2. \A i \in Ids : logs[i] \in LogRow
  BY <1>1, ElementOfSeq DEF Ids
<1>3. \A row \in LogRow : row.notice \in Notices /\ row.attempt \in 1 .. MaxAttempts
  BY DEF LogRow
<1> QED BY <1>1, <1>2, <1>3, Attempts

LEMMA CreateAdds ==
  ASSUME logs \in Seq(LogRow), NEW n \in Notices, NEW a \in 1 .. MaxAttempts, NEW acked \in BOOLEAN,
         Create(n, a, acked)
  PROVE  Added(n, a, acked)
<1>1. PICK delay \in 0 .. 1 : logs' = Append(logs, NewRow(n, a, acked, delay))
  BY DEF Create
<1>2. NewRow(n, a, acked, delay) \in LogRow
  BY Attempts, TimesAssumption DEF NewRow, LogRow
<1> QED BY <1>1, <1>2, AppendProperties DEF Added, NewRow, Ids

LEMMA TickKeeps == ASSUME TypeOK, Tick PROVE Kept
<1> DEFINE Older(row) == [row EXCEPT !.wait = 0, !.age = Up(@, Window + 1),
                                     !.claim = IF @ = NoClaim THEN @ ELSE Up(@, 2 * Lease)]
<1>1. logs' = [i \in Ids |-> Older(logs[i])]
  BY DEF Tick
<1>2. ASSUME NEW row \in LogRow
      PROVE  /\ Older(row) \in LogRow
             /\ Older(row).notice = row.notice /\ Older(row).attempt = row.attempt
             /\ Older(row).success = row.success
  <2>1. Up(row.age, Window + 1) \in 0 .. Window + 1
    BY Times DEF LogRow, Up
  <2>2. row.claim # NoClaim => Up(row.claim, 2 * Lease) \in 0 .. 2 * Lease
    BY Times DEF LogRow, Up
  <2>3. /\ 0 \in 0 .. 1
        /\ (IF row.claim = NoClaim THEN row.claim ELSE Up(row.claim, 2 * Lease))
             \in 0 .. 2 * Lease \cup {NoClaim}
    BY <2>2
  <2> QED BY <2>1, <2>3 DEF LogRow
<1>3. logs \in Seq(LogRow) /\ \A i \in Ids : logs[i] \in LogRow
  BY ElementOfSeq DEF TypeOK, Ids
<1>4. logs' \in [1 .. Len(logs) -> LogRow]
  <2> HIDE DEF Older
  <2> QED BY <1>1, <1>2, <1>3 DEF Ids
<1>5. Len(logs) \in Nat
  BY <1>3, LenProperties
<1>6. logs' \in Seq(LogRow) /\ Len(logs') = Len(logs)
  BY <1>4, <1>5, SMTT(60)
<1> HIDE DEF Older
<1> QED BY <1>1, <1>2, <1>3, <1>6 DEF Kept, SameAttempts

(* A step keeps the attempts on record; only these two add one. *)
LEMMA LogsStep ==
  ASSUME TypeOK, BatchInv, [Next]_vars
  PROVE  \/ Kept
         \/ \E n \in Notices : LogFirst(n) /\ Added(n, 1, first[n].acked)
         \/ \E p \in Processes : /\ LogRetry(p) /\ wk[p].id \in Ids
                                 /\ Added(logs[wk[p].id].notice, logs[wk[p].id].attempt + 1, wk[p].acked)
<1>1. logs \in Seq(LogRow) /\ \A i \in Ids : logs[i] \in LogRow
  BY ElementOfSeq DEF TypeOK, Ids
<1>2. CASE UNCHANGED logs
  BY <1>1, <1>2 DEF Kept, SameAttempts
<1>3. ASSUME NEW n \in Notices, LogFirst(n) PROVE Added(n, 1, first[n].acked)
  <2>1. first[n].acked \in BOOLEAN /\ 1 \in 1 .. MaxAttempts
    BY Attempts DEF TypeOK
  <2>2. Create(n, 1, first[n].acked)
    BY <1>3 DEF LogFirst
  <2> QED BY <1>1, <2>1, <2>2, CreateAdds
<1>4. ASSUME NEW p \in Processes, NEW i \in Ids, TakeRow(p, i), logs' # logs PROVE Kept
  <2> DEFINE row == [logs[i] EXCEPT !.retry = FALSE]
  <2>1. logs' = [logs EXCEPT ![i] = row]
    BY <1>4 DEF TakeRow
  <2>2. /\ row \in LogRow /\ row.notice = logs[i].notice
        /\ row.attempt = logs[i].attempt /\ row.success = logs[i].success
    BY <1>1 DEF LogRow
  <2> QED BY <1>1, <2>1, <2>2, ReplaceRow
<1>5. ASSUME NEW p \in Processes, ClaimRow(p), logs' # logs PROVE Kept
  <2> DEFINE i == wk[p].id  row == [logs[i] EXCEPT !.claim = 0]
  <2>1. logs' = [logs EXCEPT ![i] = row] /\ i \in Ids
    BY <1>5 DEF ClaimRow, BatchInv
  <2>3. 0 \in 0 .. 2 * Lease /\ logs[i] \in LogRow
    BY <1>1, <2>1, Times
  <2>2. /\ row \in LogRow /\ row.notice = logs[i].notice
        /\ row.attempt = logs[i].attempt /\ row.success = logs[i].success
    BY <2>3 DEF LogRow
  <2> QED BY <1>1, <2>1, <2>2, ReplaceRow
<1>6. ASSUME NEW p \in Processes, CheckChild(p) \/ FinishRow(p), logs' # logs PROVE Kept
  <2> DEFINE i == wk[p].id  row == [logs[i] EXCEPT !.retry = FALSE, !.claim = NoClaim]
  <2>1. logs' = [logs EXCEPT ![i] = row] /\ i \in Ids
    BY <1>6 DEF CheckChild, FinishRow, Clear, BatchInv
  <2>2. /\ row \in LogRow /\ row.notice = logs[i].notice
        /\ row.attempt = logs[i].attempt /\ row.success = logs[i].success
    BY <1>1, <2>1 DEF LogRow
  <2> QED BY <1>1, <2>1, <2>2, ReplaceRow
<1>7. ASSUME NEW p \in Processes, LogRetry(p)
      PROVE  /\ wk[p].id \in Ids
             /\ Added(logs[wk[p].id].notice, logs[wk[p].id].attempt + 1, wk[p].acked)
  <2>1. wk[p].id \in Ids /\ logs[wk[p].id].attempt < MaxAttempts
    BY <1>7 DEF LogRetry, BatchInv, Unsettled
  <2>2. /\ logs[wk[p].id].notice \in Notices
        /\ logs[wk[p].id].attempt + 1 \in 1 .. MaxAttempts
    BY <2>1, RowTypes, Attempts
  <2> QED BY <1>1, <1>7, <2>1, <2>2, CreateAdds DEF LogRetry, TypeOK
<1>8. CASE Tick
  BY <1>8, TickKeeps
<1> QED
  BY <1>2, <1>3, <1>4, <1>5, <1>6, <1>7, <1>8
  DEF Next, Worker, Sender, vars, Dispatch, PostFirst, LogFirstFails, ReadPending, PostRetry,
      LogRetryFails, LogRetryPanics, Crash

LEMMA UnseenGrows ==
  ASSUME TypeOK, BatchInv, [Next]_vars
  PROVE  unseen \subseteq unseen' /\ unseen' \subseteq Notices
<1>1. unseen \subseteq Notices
  BY DEF TypeOK
<1>2. ASSUME NEW p \in Processes, CheckChild(p)
      PROVE  unseen' = unseen \/ (unseen' = unseen \cup {logs[wk[p].id].notice}
                                  /\ logs[wk[p].id].notice \in Notices)
  <2>1. wk[p].id \in Ids
    BY <1>2 DEF CheckChild, BatchInv
  <2>2. logs[wk[p].id].notice \in Notices
    BY <2>1, RowTypes
  <2> QED BY <1>2, <2>2 DEF CheckChild
<1>3. unseen' = unseen \/ \E p \in Processes : CheckChild(p)
  BY DEF Next, Worker, Sender, vars, Dispatch, PostFirst, LogFirst, LogFirstFails, ReadPending, TakeRow,
         ClaimRow, PostRetry, LogRetry, LogRetryFails, LogRetryPanics, FinishRow, Crash, Tick
<1> QED BY <1>1, <1>2, <1>3

LEMMA AttemptsStay ==
  ASSUME TypeOK, BatchInv, [Next]_vars
  PROVE  logs' \in Seq(LogRow) /\ Len(logs) \in Nat /\ Len(logs') \in Nat
         /\ Ids \subseteq Ids' /\ SameAttempts
<1>1. Len(logs) \in Nat
  BY LenProperties DEF TypeOK
<1>2. logs' \in Seq(LogRow) /\ SameAttempts /\ Len(logs') \in {Len(logs), Len(logs) + 1}
  BY LogsStep DEF Kept, Added, SameAttempts
<1> QED BY <1>1, <1>2 DEF Ids

(* How a worker comes to have a row in work, and to post its next attempt. *)
LEMMA WorkerMoves ==
  ASSUME TypeOK, [Next]_vars, NEW p \in Processes, wk'[p].phase \in Holding
  PROVE  /\ wk'[p].id = wk[p].id
         /\ wk'[p].age \in {wk[p].age, wk[p].age + 1} /\ (Tick => wk'[p].age = wk[p].age + 1)
         /\ \/ /\ ClaimRow(p) /\ ClaimExpired(logs[wk[p].id], wk[p].age)
               /\ wk'[p].phase = "child" /\ wk'[p].age = wk[p].age
               /\ logs' = [logs EXCEPT ![wk[p].id] = [@ EXCEPT !.claim = 0]]
            \/ wk[p].phase \in Holding
         /\ wk'[p].phase \in {"post", "log"} =>
              \/ wk[p].phase \in {"post", "log"}
              \/ /\ logs' = logs
                 /\ \/ ~HasAttempt(logs[wk[p].id].notice, logs[wk[p].id].attempt + 1)
                    \/ logs[wk[p].id].notice \in unseen'
<1>0. wk[p].age \in Nat
  BY Times DEF TypeOK
<1>1. ASSUME wk' = wk PROVE wk'[p] = wk[p]
  BY <1>1
<1>2. ASSUME NEW q \in Processes, wk' = [wk EXCEPT ![q] = Idle] PROVE q # p /\ wk'[p] = wk[p]
  BY <1>2 DEF TypeOK, Idle, Holding
<1>3. ASSUME NEW q \in Processes, wk' = [wk EXCEPT ![q] = Leave(wk[q])]
      PROVE  q # p /\ wk'[p] = wk[p]
  BY <1>3 DEF TypeOK, Idle, Leave, Holding
<1>4. ASSUME \E n \in Notices, q \in Processes : Dispatch(n, q) PROVE wk'[p] = wk[p]
  BY <1>4 DEF Dispatch
<1>5. ASSUME \E n \in Notices : Sender(n) PROVE wk'[p] = wk[p]
  BY <1>5 DEF Sender, PostFirst, LogFirst, LogFirstFails
<1>6. ASSUME NEW q \in Processes, ReadPending(q) PROVE q # p /\ wk'[p] = wk[p]
  BY <1>6 DEF TypeOK, ReadPending, Idle, Holding
<1>7. ASSUME NEW q \in Processes, NEW i \in Ids, TakeRow(q, i) PROVE q # p /\ wk'[p] = wk[p]
  <2> DEFINE w == [wk[q] EXCEPT !.batch = @ \ {i}, !.id = i, !.phase = "claim"]
  <2>1. wk' = [wk EXCEPT ![q] = Leave(w)] \/ wk' = [wk EXCEPT ![q] = w]
    BY <1>7 DEF TakeRow
  <2>2. w.phase = "claim" /\ Leave(w).phase \in {"idle", "next"}
    BY DEF TypeOK, Leave, Idle
  <2> HIDE DEF w
  <2> QED BY <2>1, <2>2 DEF TypeOK, Holding
<1>8. ASSUME NEW q \in Processes, ClaimRow(q), q # p PROVE wk'[p] = wk[p]
  BY <1>8 DEF TypeOK, ClaimRow
<1>9. ASSUME ClaimRow(p)
      PROVE  /\ ClaimExpired(logs[wk[p].id], wk[p].age)
             /\ wk'[p].phase = "child" /\ wk'[p].age = wk[p].age /\ wk'[p].id = wk[p].id
             /\ logs' = [logs EXCEPT ![wk[p].id] = [@ EXCEPT !.claim = 0]]
  BY <1>3, <1>9 DEF TypeOK, ClaimRow
<1>10. ASSUME NEW q \in Processes, CheckChild(q), q # p PROVE wk'[p] = wk[p]
  BY <1>10 DEF TypeOK, CheckChild
<1>11. ASSUME CheckChild(p)
       PROVE  /\ wk[p].phase \in Holding /\ wk'[p].id = wk[p].id
              /\ wk'[p].age = wk[p].age /\ logs' = logs
              /\ \/ ~HasAttempt(logs[wk[p].id].notice, logs[wk[p].id].attempt + 1)
                 \/ logs[wk[p].id].notice \in unseen'
  BY <1>3, <1>11 DEF TypeOK, CheckChild, Holding
<1>12. ASSUME NEW q \in Processes, PostRetry(q)
       PROVE  \/ wk'[p] = wk[p]
              \/ wk[p].phase = "post" /\ wk'[p].id = wk[p].id /\ wk'[p].age = wk[p].age
  BY <1>12 DEF TypeOK, PostRetry
<1>13. ASSUME NEW q \in Processes, LogRetry(q)
       PROVE  \/ wk'[p] = wk[p]
              \/ wk[p].phase = "log" /\ wk'[p].id = wk[p].id /\ wk'[p].age = wk[p].age
  BY <1>13 DEF TypeOK, LogRetry
<1>14. ASSUME NEW q \in Processes, LogRetryFails(q) \/ LogRetryPanics(q) \/ FinishRow(q) \/ Crash(q)
       PROVE  wk'[p] = wk[p]
  BY <1>2, <1>3, <1>14 DEF LogRetryFails, LogRetryPanics, FinishRow, Crash
<1>15. ASSUME Tick
       PROVE  /\ wk'[p].phase = wk[p].phase /\ wk'[p].id = wk[p].id
              /\ wk'[p].phase # "idle" => wk'[p].age = wk[p].age + 1
  BY <1>15 DEF TypeOK, Tick
<1> QED
  <2>1. \/ wk'[p] = wk[p]
        \/ wk[p].phase \in Holding /\ CheckChild(p)
        \/ wk[p].phase \in {"post", "log"} /\ wk'[p].id = wk[p].id /\ wk'[p].age = wk[p].age
        \/ ClaimRow(p)
        \/ Tick
    BY <1>1, <1>4, <1>5, <1>6, <1>7, <1>8, <1>10, <1>11, <1>12, <1>13, <1>14
    DEF Next, Worker, vars
  <2>2. Tick => wk'[p].age = wk[p].age + 1
    BY <1>15 DEF Holding
  <2> QED BY <1>0, <1>9, <1>11, <1>15, <2>1, <2>2 DEF Holding

-------------------------------------------------------------------------------
(* Claims.  What can happen to the claim of a row in one step. *)
LEMMA ClaimsMove ==
  ASSUME TypeOK, BatchInv, [Next]_vars, NEW i \in Ids
  PROVE  \/ logs'[i].claim = logs[i].claim
         \/ \E p \in Processes : /\ wk[p].id = i /\ wk[p].phase = "claim"
                                 /\ ClaimExpired(logs[i], wk[p].age)
         \/ \E p \in Processes : wk[p].id = i /\ wk[p].phase \in Holding /\ wk'[p].phase \notin Holding
         \/ Tick /\ logs'[i].claim = Up(logs[i].claim, 2 * Lease)
<1>1. CASE UNCHANGED logs
  BY <1>1
<1>2. CASE Tick
  <2>1. logs'[i].claim = IF logs[i].claim = NoClaim THEN logs[i].claim ELSE Up(logs[i].claim, 2 * Lease)
    <3>1. logs[i] \in LogRow
      BY ElementOfSeq DEF TypeOK, Ids
    <3> QED BY <1>2, <3>1 DEF Tick, LogRow
  <2> QED BY <1>2, <2>1
<1>3. ASSUME NEW n \in Notices, LogFirst(n) PROVE logs'[i] = logs[i]
  <2>1. PICK row : logs' = Append(logs, row)
    BY <1>3 DEF LogFirst, Create
  <2> QED BY <2>1 DEF TypeOK, Ids
<1>4. ASSUME NEW p \in Processes, LogRetry(p) PROVE logs'[i] = logs[i]
  <2>1. PICK row : logs' = Append(logs, row)
    BY <1>4 DEF LogRetry, Create
  <2> QED BY <2>1 DEF TypeOK, Ids
<1>5. logs \in Seq(LogRow) /\ logs[i] \in LogRow
  BY ElementOfSeq DEF TypeOK, Ids
<1>6. ASSUME NEW j, NEW e, logs' = [logs EXCEPT ![j] = e] PROVE i # j => logs'[i] = logs[i]
  BY <1>5, <1>6 DEF Ids
<1>7. ASSUME NEW e, logs' = [logs EXCEPT ![i] = e] PROVE logs'[i] = e
  BY <1>5, <1>7 DEF Ids
<1>8. ASSUME NEW p \in Processes, NEW j \in Ids, TakeRow(p, j) PROVE logs'[i].claim = logs[i].claim
  <2>1. [logs[i] EXCEPT !.retry = FALSE].claim = logs[i].claim
    BY <1>5 DEF LogRow
  <2>2. logs' = logs \/ logs' = [logs EXCEPT ![j] = [logs[j] EXCEPT !.retry = FALSE]]
    BY <1>8 DEF TakeRow
  <2> QED BY <1>6, <1>7, <2>1, <2>2
<1>9. ASSUME NEW p \in Processes, ClaimRow(p)
      PROVE  \/ logs'[i] = logs[i]
             \/ /\ wk[p].id = i /\ wk[p].phase = "claim"
                /\ ClaimExpired(logs[i], wk[p].age)
  BY <1>6, <1>9 DEF ClaimRow
<1>10. ASSUME NEW p \in Processes, CheckChild(p) \/ FinishRow(p)
       PROVE  \/ logs'[i] = logs[i]
              \/ wk[p].id = i /\ wk[p].phase \in Holding /\ wk'[p].phase \notin Holding
  <2>1. Leave(wk[p]).phase \in {"idle", "next"}
    BY DEF TypeOK, Leave, Idle
  <2>2. CASE logs' = logs
    BY <2>2
  <2>3. CASE logs' # logs
    <3>1. Clear(wk[p].id) /\ wk' = [wk EXCEPT ![p] = Leave(wk[p])] /\ wk[p].phase \in Holding
      BY <1>10, <2>3 DEF CheckChild, FinishRow, Holding
    <3>2. logs' = [logs EXCEPT ![wk[p].id] = [@ EXCEPT !.retry = FALSE, !.claim = NoClaim]]
      BY <2>3, <3>1 DEF Clear
    <3>3. wk'[p].phase \notin Holding
      BY <2>1, <3>1 DEF TypeOK, Holding
    <3> QED BY <1>6, <3>1, <3>2, <3>3
  <2> QED BY <2>2, <2>3
<1> QED
  BY <1>1, <1>2, <1>3, <1>4, <1>8, <1>9, <1>10
  DEF Next, Worker, Sender, vars, Dispatch, PostFirst, LogFirstFails, ReadPending, PostRetry,
      LogRetryFails, LogRetryPanics, Crash

(* LeaseIsExclusive: the claim of a row in work is younger than a lease. *)
LEMMA ClaimStep ==
  ASSUME TypeOK, BatchInv, ClaimInv, LeaseIsExclusive, [Next]_vars
  PROVE  ClaimInv' /\ LeaseIsExclusive'
<1>1. ASSUME NEW p \in Processes, NEW i \in Ids, wk[p].phase \in Holding, wk[p].id = i
      PROVE  \A q \in Processes : wk[q].phase # "idle" => ~ClaimExpired(logs[i], wk[q].age)
  <2>1. logs[i].claim \in 0 .. wk[p].age /\ wk[p].age \in 0 .. Lease - 1 /\ Lease \in Nat
    BY <1>1, Times DEF ClaimInv, TypeOK
  <2>2. \A q \in Processes : wk[q].age \in Nat
    BY Times DEF TypeOK
  <2> QED BY <2>1, <2>2, NoClaimAssumption DEF ClaimExpired
<1>2. ASSUME NEW p \in Processes, wk[p].phase \in Holding PROVE wk[p].id \in Ids
  BY <1>2 DEF BatchInv, Holding
<1>3. ASSUME NEW p \in Processes, wk'[p].phase \in Holding
      PROVE  logs'[wk'[p].id].claim \in 0 .. wk'[p].age
  <2>1. CASE wk[p].phase \notin Holding
    <3>1. /\ ClaimRow(p) /\ wk'[p].id = wk[p].id /\ wk'[p].age = wk[p].age
          /\ logs' = [logs EXCEPT ![wk[p].id] = [@ EXCEPT !.claim = 0]]
      BY <1>3, <2>1, WorkerMoves
    <3>2. wk[p].id \in Ids /\ wk[p].age \in Nat
      <4>1. wk[p].age \in Nat
        BY Times DEF TypeOK
      <4> QED BY <3>1, <4>1 DEF BatchInv, ClaimRow
    <3>3. logs \in Seq(LogRow) /\ logs[wk[p].id] \in LogRow
      BY <3>2, ElementOfSeq DEF TypeOK, Ids
    <3>4. logs'[wk[p].id].claim = 0
      BY <3>1, <3>2, <3>3 DEF Ids, LogRow
    <3> QED BY <3>1, <3>2, <3>4
  <2>2. CASE wk[p].phase \in Holding
    <3>1. /\ wk'[p].id = wk[p].id /\ wk'[p].age \in {wk[p].age, wk[p].age + 1}
          /\ Tick => wk'[p].age = wk[p].age + 1
      BY <1>3, WorkerMoves
    <3>2. wk[p].id \in Ids /\ logs[wk[p].id].claim \in 0 .. wk[p].age
      BY <1>2, <2>2 DEF ClaimInv
    <3>3. ~\E q \in Processes : /\ wk[q].id = wk[p].id /\ wk[q].phase \in Holding
                                /\ wk'[q].phase \notin Holding
      BY <1>3, <2>2 DEF LeaseIsExclusive, Holding
    <3>4. ~\E q \in Processes : /\ wk[q].id = wk[p].id /\ wk[q].phase = "claim"
                                /\ ClaimExpired(logs[wk[p].id], wk[q].age)
      BY <1>1, <2>2, <3>2
    <3>5. \/ logs'[wk[p].id].claim = logs[wk[p].id].claim
          \/ Tick /\ logs'[wk[p].id].claim = Up(logs[wk[p].id].claim, 2 * Lease)
      BY <3>2, <3>3, <3>4, ClaimsMove
    <3>6. wk[p].age \in Nat /\ wk'[p].age \in Int
      <4>1. wk[p].age \in Nat
        BY Times DEF TypeOK
      <4> QED BY <3>1, <4>1
    <3> QED BY <3>1, <3>2, <3>5, <3>6, Times DEF Up
  <2> QED BY <2>1, <2>2
<1>4. ASSUME NEW p \in Processes, NEW q \in Processes, p # q,
             wk'[p].phase \in Holding, wk'[q].phase \in Holding, wk'[p].id = wk'[q].id
      PROVE  FALSE
  <2>1. wk'[p].id = wk[p].id /\ wk'[q].id = wk[q].id
    BY <1>4, WorkerMoves
  <2>2. CASE wk[p].phase \in Holding /\ wk[q].phase \in Holding
    BY <1>4, <2>1, <2>2 DEF LeaseIsExclusive, Holding
  <2>3. ASSUME NEW r \in Processes, NEW s \in Processes, r # s,
               wk'[r].phase \in Holding, wk'[s].phase \in Holding, wk[r].id = wk[s].id,
               wk[r].phase \notin Holding
        PROVE  FALSE
    <3>1. ClaimRow(r) /\ ClaimExpired(logs[wk[r].id], wk[r].age)
      BY <2>3, WorkerMoves
    <3>2. wk'[s] = wk[s]
      BY <2>3, <3>1 DEF ClaimRow, TypeOK
    <3>3. wk[r].phase = "claim"
      BY <3>1 DEF ClaimRow
    <3> QED BY <1>1, <1>2, <2>3, <3>1, <3>2, <3>3
  <2> QED BY <1>4, <2>1, <2>2, <2>3
<1>5. LeaseIsExclusive'
  <2> SUFFICES ASSUME NEW p \in Processes, NEW q \in Processes, wk'[p].phase \in Holding,
                      wk'[q].phase \in Holding, wk'[p].id = wk'[q].id
               PROVE  p = q
    BY DEF LeaseIsExclusive, Holding
  <2> QED BY <1>4
<1> QED BY <1>3, <1>5 DEF ClaimInv

-------------------------------------------------------------------------------
(* The chain of attempts. *)
LEMMA RowsStep == ASSUME TypeOK, RowsInv, BatchInv, [Next]_vars PROVE RowsInv'
<1>1. \A n \in Notices : first[n].phase = "over" => first'[n].phase = "over"
  BY DEF TypeOK, Next, Sender, Worker, vars, Dispatch, PostFirst, LogFirst, LogFirstFails, ReadPending,
         TakeRow, ClaimRow, CheckChild, PostRetry, LogRetry, LogRetryFails, LogRetryPanics, FinishRow,
         Crash, Tick
<1>2. Len(logs) \in Nat /\ \A i \in Ids : logs[i].notice \in Notices
  BY RowTypes
<1>3. CASE Kept
  BY <1>1, <1>2, <1>3 DEF Kept, SameAttempts, RowsInv, Ids
<1>4. ASSUME NEW n \in Notices, NEW a, NEW acked, Added(n, a, acked), first'[n].phase = "over"
      PROVE  RowsInv'
  <2>1. Ids' = Ids \cup {Len(logs) + 1}
    BY <1>2, <1>4 DEF Added, Ids
  <2> QED BY <1>1, <1>2, <1>4, <2>1 DEF Added, RowsInv
<1>5. ASSUME NEW n \in Notices, LogFirst(n) PROVE first'[n].phase = "over"
  BY <1>5 DEF LogFirst, TypeOK
<1>6. ASSUME NEW p \in Processes, LogRetry(p), wk[p].id \in Ids
      PROVE  logs[wk[p].id].notice \in Notices /\ first'[logs[wk[p].id].notice].phase = "over"
  BY <1>1, <1>2, <1>6 DEF RowsInv
<1> QED BY <1>3, <1>4, <1>5, <1>6, LogsStep

LEMMA ChainKept ==
  ASSUME TypeOK, OneRowPerAttempt, ChainInv, Kept, unseen \subseteq unseen'
  PROVE  OneRowPerAttempt' /\ ChainInv'
<1>1. Ids' = Ids
  BY DEF Kept, Ids
<1>2. OneRowPerAttempt'
  BY <1>1 DEF OneRowPerAttempt, Kept, SameAttempts
<1>3. ASSUME NEW i \in Ids, NEW j \in Ids, logs'[i].notice = logs'[j].notice,
             logs'[i].attempt < logs'[j].attempt, logs'[i].notice \notin unseen'
      PROVE  /\ ~logs'[i].success
             /\ \E k \in Ids : logs'[k].notice = logs'[i].notice /\ logs'[k].attempt = logs'[i].attempt + 1
  BY <1>3 DEF Kept, SameAttempts, ChainInv, HasAttempt
<1> QED BY <1>1, <1>2, <1>3 DEF ChainInv, HasAttempt

(* The new row of a worker follows the last row of its notification. *)
LEMMA ChainAdded ==
  ASSUME IInv, NEW n, NEW a, NEW acked, Added(n, a, acked), unseen \subseteq unseen',
         \/ n \in unseen
         \/ a = 1 /\ ~\E i \in Ids : logs[i].notice = n
         \/ \E r \in Ids : /\ logs[r].notice = n /\ a = logs[r].attempt + 1
                           /\ ~logs[r].success /\ ~HasAttempt(n, a)
  PROVE  OneRowPerAttempt' /\ ChainInv'
<1> DEFINE new == Len(logs) + 1
<1>1. Len(logs) \in Nat /\ \A i \in Ids : logs[i].attempt \in Nat
  BY RowTypes DEF IInv
<1>2. Ids' = Ids \cup {new} /\ new \notin Ids
  BY <1>1 DEF Added, Ids
<1>3. /\ \A i \in Ids : logs'[i] = logs[i]
      /\ logs'[new].notice = n /\ logs'[new].attempt = a
  BY DEF Added
<1> HIDE DEF new
<1>4. ASSUME NEW i \in Ids, logs[i].notice = n, n \notin unseen PROVE logs[i].attempt < a
  <2>1. PICK r \in Ids : logs[r].notice = n /\ a = logs[r].attempt + 1 /\ ~HasAttempt(n, a)
    BY <1>4
  <2>2. ~(logs[r].attempt < logs[i].attempt)
    BY <1>4, <2>1 DEF IInv, ChainInv
  <2> QED BY <1>1, <2>1, <2>2
<1>5. OneRowPerAttempt'
  <2>1. ASSUME NEW i \in Ids, NEW j \in Ids, logs'[i].notice = logs'[j].notice,
               logs'[i].attempt = logs'[j].attempt, logs'[i].notice \notin unseen
        PROVE  i = j
    BY <1>3, <2>1 DEF IInv, OneRowPerAttempt
  <2>2. ASSUME NEW i \in Ids, logs'[i].notice = n, logs'[i].attempt = a, n \notin unseen PROVE FALSE
    BY <1>1, <1>3, <1>4, <2>2
  <2> QED BY <1>2, <1>3, <2>1, <2>2 DEF OneRowPerAttempt
<1>6. ASSUME NEW i \in Ids', NEW j \in Ids', logs'[i].notice = logs'[j].notice,
             logs'[i].attempt < logs'[j].attempt, logs'[i].notice \notin unseen
      PROVE  /\ ~logs'[i].success
             /\ \E k \in Ids' : logs'[k].notice = logs'[i].notice /\ logs'[k].attempt = logs'[i].attempt + 1
  <2>1. CASE i \in Ids /\ j \in Ids
    <3>1. ~logs[i].success /\ HasAttempt(logs[i].notice, logs[i].attempt + 1)
      BY <1>3, <1>6, <2>1 DEF IInv, ChainInv
    <3>2. PICK k \in Ids : logs[k].notice = logs[i].notice /\ logs[k].attempt = logs[i].attempt + 1
      BY <3>1 DEF HasAttempt
    <3> QED BY <1>2, <1>3, <2>1, <3>1, <3>2
  <2>2. CASE i \in Ids /\ j = new
    <3>1. PICK r \in Ids : /\ logs[r].notice = n /\ a = logs[r].attempt + 1
                         /\ ~logs[r].success
      BY <1>3, <1>6, <2>2
    <3>2. CASE logs[i].attempt = logs[r].attempt
      <4>1. i = r
        BY <1>3, <1>6, <2>2, <3>1, <3>2 DEF IInv, OneRowPerAttempt
      <4> QED BY <1>2, <1>3, <2>2, <3>1, <4>1
    <3>3. CASE logs[i].attempt < logs[r].attempt
      <4>1. ~logs[i].success /\ HasAttempt(logs[i].notice, logs[i].attempt + 1)
        BY <1>3, <1>6, <2>2, <3>1, <3>3 DEF IInv, ChainInv
      <4>2. PICK k \in Ids : logs[k].notice = logs[i].notice /\ logs[k].attempt = logs[i].attempt + 1
        BY <4>1 DEF HasAttempt
      <4> QED BY <1>2, <1>3, <2>2, <4>1, <4>2
    <3> QED BY <1>1, <1>3, <1>6, <2>2, <3>1, <3>2, <3>3
  <2>3. CASE i = new /\ j \in Ids
    <3>1. logs[j].attempt < a
      BY <1>3, <1>4, <1>6, <2>3
    <3>2. a \in Nat
      BY <1>1, <1>3, <1>6, <2>3
    <3> QED BY <1>1, <1>3, <1>6, <2>3, <3>1, <3>2
  <2>4. CASE i = new /\ j = new
    <3>1. a \in Nat
      BY <1>1, <1>3, <1>6, <2>4
    <3> QED BY <1>3, <1>6, <2>4, <3>1
  <2> QED BY <1>2, <2>1, <2>2, <2>3, <2>4
<1> QED BY <1>5, <1>6 DEF ChainInv, HasAttempt

(* OneRowPerAttempt: two workers that add the same attempt would hold the  *)
(* same row, and a row is held by one.                                     *)
LEMMA ChainStep ==
  ASSUME IInv, [Next]_vars
  PROVE  OneRowPerAttempt' /\ ChainInv'
<1>0. unseen \subseteq unseen'
  BY UnseenGrows DEF IInv
<1>1. CASE Kept
  BY <1>0, <1>1, ChainKept DEF IInv
<1>2. ASSUME NEW n \in Notices, LogFirst(n), Added(n, 1, first[n].acked)
      PROVE  OneRowPerAttempt' /\ ChainInv'
  <2>1. ~\E i \in Ids : logs[i].notice = n
    BY <1>2 DEF IInv, RowsInv, LogFirst
  <2> QED BY <1>0, <1>2, <2>1, ChainAdded
<1>3. ASSUME NEW p \in Processes, LogRetry(p), wk[p].id \in Ids,
             Added(logs[wk[p].id].notice, logs[wk[p].id].attempt + 1, wk[p].acked)
      PROVE  OneRowPerAttempt' /\ ChainInv'
  <2>1. /\ ~logs[wk[p].id].success
        /\ logs[wk[p].id].notice \notin unseen
             => ~HasAttempt(logs[wk[p].id].notice, logs[wk[p].id].attempt + 1)
    BY <1>3 DEF IInv, LogRetry, BatchInv, ChildInv, Unsettled
  <2> QED BY <1>0, <1>3, <2>1, ChainAdded
<1> QED BY <1>1, <1>2, <1>3, LogsStep DEF IInv

LEMMA ChildStep == ASSUME IInv, [Next]_vars PROVE ChildInv'
<1> SUFFICES ASSUME NEW p \in Processes, wk'[p].phase \in {"post", "log"},
                    NEW k \in Ids', logs'[k].notice = logs'[wk'[p].id].notice,
                    logs'[k].attempt = logs'[wk'[p].id].attempt + 1,
                    logs'[wk'[p].id].notice \notin unseen'
             PROVE  FALSE
  BY DEF ChildInv, HasAttempt
<1> DEFINE i == wk[p].id
<1>1. /\ wk'[p].phase \in Holding /\ wk'[p].id = i
      /\ \/ wk[p].phase \in {"post", "log"}
         \/ /\ logs' = logs
            /\ ~HasAttempt(logs[i].notice, logs[i].attempt + 1) \/ logs[i].notice \in unseen'
  BY WorkerMoves DEF IInv, Holding
<1>2. Len(logs) \in Nat /\ Len(logs') \in Nat /\ Ids \subseteq Ids' /\ SameAttempts
  BY AttemptsStay DEF IInv
<1>3. wk[p].phase \in Holding \/ ClaimRow(p)
  BY <1>1, WorkerMoves DEF IInv
<1>4. i \in Ids
  BY <1>3 DEF IInv, BatchInv, Holding, ClaimRow
<1>5. logs[i].notice \notin unseen /\ ~HasAttempt(logs[i].notice, logs[i].attempt + 1)
  <2>1. logs[i].notice \notin unseen' /\ unseen \subseteq unseen'
    BY <1>1, <1>2, <1>4, UnseenGrows DEF SameAttempts, IInv
  <2> QED BY <1>1, <2>1 DEF IInv, ChildInv
<1>6. k \notin Ids
  BY <1>1, <1>2, <1>4, <1>5 DEF SameAttempts, HasAttempt
<1>7. logs' # logs /\ ~Kept
  BY <1>6 DEF Kept, Ids
<1>8. \A j \in Ids : logs[j].attempt \in Nat /\ logs[j].attempt >= 1
  BY RowTypes DEF IInv
<1>9. ASSUME NEW n, NEW a, NEW acked, Added(n, a, acked)
      PROVE  n = logs[i].notice /\ a = logs[i].attempt + 1
  <2>1. k = Len(logs) + 1
    BY <1>2, <1>6, <1>9 DEF Added, Ids
  <2> QED BY <1>1, <1>2, <1>4, <1>9, <2>1 DEF Added, SameAttempts
<1>10. CASE \E n \in Notices : LogFirst(n) /\ Added(n, 1, first[n].acked)
  BY <1>4, <1>8, <1>9, <1>10
<1>11. ASSUME NEW q \in Processes, LogRetry(q), wk[q].id \in Ids,
              Added(logs[wk[q].id].notice, logs[wk[q].id].attempt + 1, wk[q].acked)
       PROVE  FALSE
  <2>1. wk[q].id = i
    BY <1>4, <1>5, <1>8, <1>9, <1>11 DEF IInv, OneRowPerAttempt
  <2>2. wk[p].phase \in Holding /\ wk[q].phase = "log"
    BY <1>1, <1>7, <1>11 DEF LogRetry, Holding
  <2>3. p = q
    BY <2>1, <2>2 DEF IInv, LeaseIsExclusive, Holding
  <2> QED BY <1>11, <2>3 DEF LogRetry, IInv, TypeOK
<1> QED BY <1>7, <1>10, <1>11, LogsStep DEF IInv

-------------------------------------------------------------------------------
(* Types, and the rows that workers hold. *)
LEMMA BatchStep == ASSUME TypeOK, BatchInv, [Next]_vars PROVE BatchInv'
<1>1. Ids \subseteq Ids' /\ \A i \in Ids : Unsettled(i)' <=> Unsettled(i)
  BY AttemptsStay DEF SameAttempts, Unsettled
<1>2. \A i \in Due : Unsettled(i) /\ i \in Ids
  BY DEF Due, Pending, Unsettled
<1>3. \A p \in Processes : wk[p].batch \subseteq Ids
  BY DEF TypeOK
<1>4. ASSUME NEW p \in Processes
      PROVE  /\ wk'[p].batch \subseteq wk[p].batch \cup Due
             /\ wk'[p].phase \notin {"idle", "next"} =>
                  \/ wk[p].phase \notin {"idle", "next"} /\ wk'[p].id = wk[p].id
                  \/ wk'[p].id \in wk[p].batch
  <2>1. ASSUME wk' = wk PROVE wk'[p] = wk[p]
    BY <2>1
  <2>2. ASSUME NEW q \in Processes, wk' = [wk EXCEPT ![q] = Leave(wk[q])] \/ wk' = [wk EXCEPT ![q] = Idle]
        PROVE  \/ wk'[p] = wk[p]
               \/ wk'[p].batch \subseteq wk[p].batch /\ wk'[p].phase \in {"idle", "next"}
    <3>1. /\ Leave(wk[q]).phase \in {"idle", "next"} /\ Idle.phase = "idle"
          /\ Leave(wk[q]).batch \subseteq wk[q].batch /\ Idle.batch = {}
      BY DEF TypeOK, Leave, Idle
    <3> QED BY <2>2, <3>1 DEF TypeOK
  <2>3. ASSUME NEW q \in Processes, ReadPending(q)
        PROVE  wk'[p] = wk[p] \/ (wk'[p].batch \subseteq Due /\ wk'[p].phase = "next")
    <3> DEFINE w == [Idle EXCEPT !.phase = "next", !.batch = FirstDue]
    <3>1. w.batch \subseteq Due /\ w.phase = "next"
      BY DEF Idle, FirstDue
    <3>2. wk' = [wk EXCEPT ![q] = w]
      BY <2>3 DEF ReadPending
    <3>3. DOMAIN wk = Processes
      BY DEF TypeOK
    <3> HIDE DEF w
    <3> QED BY <3>1, <3>2, <3>3
  <2>4. ASSUME NEW q \in Processes, NEW i \in Ids, TakeRow(q, i)
        PROVE  \/ wk'[p] = wk[p]
               \/ /\ wk'[p].batch \subseteq wk[p].batch
                  /\ wk'[p].phase \in {"idle", "next"} \/ wk'[p].id \in wk[p].batch
    <3> DEFINE w == [wk[q] EXCEPT !.batch = @ \ {i}, !.id = i, !.phase = "claim"]
    <3>1. wk' = [wk EXCEPT ![q] = Leave(w)] \/ wk' = [wk EXCEPT ![q] = w]
      BY <2>4 DEF TakeRow
    <3>2. /\ w.phase = "claim" /\ Leave(w).phase \in {"idle", "next"}
          /\ w.batch \subseteq wk[q].batch /\ Leave(w).batch \subseteq wk[q].batch
          /\ w.id = i /\ i \in wk[q].batch
      BY <2>4 DEF TypeOK, Leave, Idle, TakeRow
    <3> HIDE DEF w
    <3> QED BY <3>1, <3>2 DEF TypeOK
  <2>5. ASSUME NEW q \in Processes, ClaimRow(q) \/ CheckChild(q) \/ PostRetry(q) \/ LogRetry(q)
        PROVE  \/ wk'[p] = wk[p]
               \/ wk'[p].batch \subseteq wk[p].batch /\ wk'[p].phase \in {"idle", "next"}
               \/ /\ wk'[p].batch = wk[p].batch /\ wk'[p].id = wk[p].id
                  /\ wk[p].phase \notin {"idle", "next"}
    <3> DEFINE At(ph) == [wk[q] EXCEPT !.phase = ph]
               With(ph, ack) == [wk[q] EXCEPT !.phase = ph, !.acked = ack]
    <3>1. \/ wk' = [wk EXCEPT ![q] = Leave(wk[q])]
          \/ /\ wk[q].phase \notin {"idle", "next"}
             /\ \E ph, ack : wk' = [wk EXCEPT ![q] = At(ph)] \/ wk' = [wk EXCEPT ![q] = With(ph, ack)]
      BY <2>5 DEF ClaimRow, CheckChild, PostRetry, LogRetry
    <3>2. ASSUME NEW ph, NEW ack
          PROVE  /\ At(ph).batch = wk[q].batch /\ At(ph).id = wk[q].id
                 /\ With(ph, ack).batch = wk[q].batch /\ With(ph, ack).id = wk[q].id
      BY DEF TypeOK
    <3>3. DOMAIN wk = Processes
      BY DEF TypeOK
    <3> HIDE DEF At, With
    <3> QED BY <2>2, <3>1, <3>2, <3>3
  <2>6. ASSUME Tick
        PROVE  wk'[p].batch = wk[p].batch /\ wk'[p].id = wk[p].id /\ wk'[p].phase = wk[p].phase
    BY <2>6 DEF TypeOK, Tick
  <2> QED
    BY <2>1, <2>2, <2>3, <2>4, <2>5, <2>6
    DEF Next, Worker, Sender, vars, Dispatch, PostFirst, LogFirst, LogFirstFails,
        LogRetryFails, LogRetryPanics, FinishRow, Crash
<1> QED BY <1>1, <1>2, <1>3, <1>4 DEF BatchInv

WorkerState(ids) == [phase : {"idle", "next", "claim", "child", "post", "log", "finish"},
                     batch : SUBSET ids, id : ids \cup {0}, acked : BOOLEAN, age : 0 .. Lease - 1]

LEMMA WorkersTyped ==
  ASSUME TypeOK, BatchInv, [Next]_vars
  PROVE  wk' \in [Processes -> WorkerState(Ids)]
<1>1. wk \in [Processes -> WorkerState(Ids)]
  BY DEF TypeOK, WorkerState
<1>3. Idle \in WorkerState(Ids)
  BY Times DEF Idle, WorkerState
<1>2. \A p \in Processes : Leave(wk[p]) \in WorkerState(Ids)
  <2>1. \A p \in Processes : [wk[p] EXCEPT !.phase = "next", !.id = 0, !.acked = FALSE] \in WorkerState(Ids)
    BY <1>1 DEF WorkerState
  <2> QED BY <1>3, <2>1 DEF Leave
<1>4. ASSUME NEW p \in Processes, ReadPending(p) PROVE wk' \in [Processes -> WorkerState(Ids)]
  <2>1. [Idle EXCEPT !.phase = "next", !.batch = FirstDue] \in WorkerState(Ids)
    BY <1>3 DEF WorkerState, Due, FirstDue
  <2> QED BY <1>1, <1>4, <2>1 DEF ReadPending
<1>5. ASSUME NEW p \in Processes, NEW i \in Ids, TakeRow(p, i) PROVE wk' \in [Processes -> WorkerState(Ids)]
  <2> DEFINE w == [wk[p] EXCEPT !.batch = @ \ {i}, !.id = i, !.phase = "claim"]
  <2>1. w \in WorkerState(Ids)
    BY <1>1 DEF WorkerState
  <2>2. Leave(w) \in WorkerState(Ids)
    BY <1>3, <2>1 DEF Leave, WorkerState
  <2>3. wk' = [wk EXCEPT ![p] = Leave(w)] \/ wk' = [wk EXCEPT ![p] = w]
    BY <1>5 DEF TakeRow
  <2> HIDE DEF w
  <2> QED BY <1>1, <2>1, <2>2, <2>3
<1>6. ASSUME NEW p \in Processes, ClaimRow(p) \/ CheckChild(p) \/ PostRetry(p) \/ LogRetry(p)
      PROVE wk' \in [Processes -> WorkerState(Ids)]
  <2> DEFINE At(ph) == [wk[p] EXCEPT !.phase = ph]
             Acked(ack) == [wk[p] EXCEPT !.phase = "log", !.acked = ack]
  <2>1. \/ wk' = [wk EXCEPT ![p] = Leave(wk[p])]
        \/ \E ph \in {"child", "post", "finish"} : wk' = [wk EXCEPT ![p] = At(ph)]
        \/ \E ack \in BOOLEAN : wk' = [wk EXCEPT ![p] = Acked(ack)]
    BY <1>6 DEF ClaimRow, CheckChild, PostRetry, LogRetry
  <2>2. /\ \A ph \in {"child", "post", "finish"} : At(ph) \in WorkerState(Ids)
        /\ \A ack \in BOOLEAN : Acked(ack) \in WorkerState(Ids)
    BY <1>1 DEF WorkerState
  <2> HIDE DEF At, Acked
  <2> QED BY <1>1, <1>2, <2>1, <2>2
<1>7. CASE Tick
  <2>1. \A p \in Processes : wk[p].phase # "idle" => [wk[p] EXCEPT !.age = @ + 1] \in WorkerState(Ids)
    <3>1. ASSUME NEW p \in Processes, wk[p].phase # "idle" PROVE wk[p].age + 1 \in 0 .. Lease - 1
      <4>1. wk[p].age \in 0 .. Lease - 1 /\ wk[p].age + 1 < Lease
        BY <1>1, <1>7, <3>1 DEF Tick, WorkerState
      <4> QED BY <4>1, Times
    <3> QED BY <1>1, <3>1 DEF WorkerState
  <2> QED BY <1>1, <1>7, <2>1 DEF Tick
<1> QED
  BY <1>1, <1>2, <1>3, <1>4, <1>5, <1>6, <1>7
  DEF Next, Worker, Sender, vars, Dispatch, PostFirst, LogFirst, LogFirstFails,
      LogRetryFails, LogRetryPanics, FinishRow, Crash

LEMMA SendersTyped ==
  ASSUME TypeOK, BatchInv, [Next]_vars
  PROVE  first' \in [Notices -> [phase : {"new", "post", "log", "over"}, proc : Processes, acked : BOOLEAN]]
<1>1. CASE UNCHANGED first
  BY <1>1 DEF TypeOK
<1> DEFINE First == [phase : {"new", "post", "log", "over"}, proc : Processes, acked : BOOLEAN]
           Moved(n, ph) == [first[n] EXCEPT !.phase = ph]
           Sent(n, p) == [first[n] EXCEPT !.phase = "post", !.proc = p]
           Answered(n, ack) == [first[n] EXCEPT !.phase = "log", !.acked = ack]
<1>2. first \in [Notices -> First]
  BY DEF TypeOK
<1>3. \A n \in Notices : /\ Moved(n, "over") \in First
                         /\ \A p \in Processes : Sent(n, p) \in First
                         /\ \A ack \in BOOLEAN : Answered(n, ack) \in First
  BY <1>2
<1>4. ASSUME NEW n \in Notices, NEW p \in Processes, Dispatch(n, p)
      PROVE  first' \in [Notices -> First]
  <2>1. first' = [first EXCEPT ![n] = Sent(n, p)]
    BY <1>4 DEF Dispatch
  <2> HIDE DEF First, Sent
  <2> QED BY <1>2, <1>3, <2>1
<1>5. ASSUME NEW n \in Notices, PostFirst(n)
      PROVE  first' \in [Notices -> First]
  <2>1. PICK ack \in BOOLEAN : first' = [first EXCEPT ![n] = Answered(n, ack)]
    BY <1>5 DEF PostFirst
  <2>2. Answered(n, ack) \in First
    BY <1>3
  <2> HIDE DEF First, Answered
  <2> QED BY <1>2, <2>1, <2>2
<1>6. ASSUME NEW n \in Notices, LogFirst(n) \/ LogFirstFails(n)
      PROVE  first' \in [Notices -> First]
  <2>1. first' = [first EXCEPT ![n] = Moved(n, "over")]
    BY <1>6 DEF LogFirst, LogFirstFails
  <2> HIDE DEF First, Moved
  <2> QED BY <1>2, <1>3, <2>1
<1>7. ASSUME NEW p \in Processes, Crash(p)
       PROVE  first' \in [Notices -> First]
  <2>1. /\ first' = [n \in Notices |-> IF first[n].proc = p /\ first[n].phase \in {"post", "log"}
                                          THEN Moved(n, "over") ELSE first[n]]
       
    BY <1>7 DEF Crash
  <2> HIDE DEF First, Moved
  <2> QED BY <1>2, <1>3, <2>1
<1> QED
  BY <1>1, <1>4, <1>5, <1>6, <1>7
  DEF Next, Worker, Sender, vars, ReadPending, TakeRow, ClaimRow, CheckChild, PostRetry, LogRetry, LogRetryFails,
      LogRetryPanics, FinishRow, Tick

LEMMA TypeStep == ASSUME TypeOK, BatchInv, [Next]_vars PROVE TypeOK'
<1>1. logs' \in Seq(LogRow) /\ Ids \subseteq Ids'
  BY AttemptsStay
<1>2. wk' \in [Processes -> WorkerState(Ids')]
  <2>1. WorkerState(Ids) \subseteq WorkerState(Ids')
    BY <1>1 DEF WorkerState
  <2> QED BY <2>1, WorkersTyped
<1>3. faults' \in 0 .. MaxFaults
  <2>1. faults' = faults \/ (faults < MaxFaults /\ faults' = faults + 1)
    BY DEF Next, Sender, Worker, vars, Dispatch, PostFirst, LogFirst, LogFirstFails, ReadPending,
           TakeRow, ClaimRow, CheckChild, PostRetry, LogRetry, LogRetryFails, LogRetryPanics,
           FinishRow, Crash, Tick, Fault, Clear
  <2> QED BY <2>1, TimesAssumption DEF TypeOK
<1> QED BY <1>1, <1>2, <1>3, SendersTyped, UnseenGrows DEF TypeOK, WorkerState

-------------------------------------------------------------------------------
LEMMA InitInv == Init => IInv
<1> SUFFICES ASSUME Init PROVE IInv
  OBVIOUS
<1>1. Ids = {} /\ logs \in Seq(LogRow)
  BY EmptySeq DEF Init, Ids
<1>2. TypeOK
  BY <1>1, Times, TimesAssumption DEF Init, TypeOK, Idle
<1>3. \A p \in Processes : wk[p] = Idle
  BY DEF Init
<1> QED
  BY <1>1, <1>2, <1>3
  DEF IInv, RowsInv, BatchInv, ClaimInv, ChildInv, ChainInv, LeaseIsExclusive, OneRowPerAttempt,
      Holding, Idle

LEMMA StepInv == IInv /\ [Next]_vars => IInv'
BY TypeStep, RowsStep, BatchStep, ClaimStep, ChainStep, ChildStep DEF IInv

THEOREM WebhookInvariant == Spec => []IInv
BY InitInv, StepInv, PTL DEF Spec

(* The table and the workers' copies are of the declared types; attempts   *)
(* stay within the configured number.                                      *)
THEOREM WebhookTypeOK == Spec => []TypeOK
BY WebhookInvariant, PTL DEF IInv

(* The lease of retryPendingLogs: a claimed row is worked on by one        *)
(* replica, however many there are.                                        *)
THEOREM WebhookLease == Spec => []LeaseIsExclusive
BY WebhookInvariant, PTL DEF IInv

(* The child lookup of retryPendingLogs: an attempt is logged once, also   *)
(* when a worker dies between writing it and clearing its predecessor, or  *)
(* that update fails; unless the lookup of an attempt on record failed,    *)
(* whose error lines 191-194 ignore.                                       *)
THEOREM WebhookOneRow == Spec => []OneRowPerAttempt
BY WebhookInvariant, PTL DEF IInv

(* The two lookups of retryPendingLogs: what has been acknowledged on      *)
(* record is not delivered again, also when the first one (lines 172-174)  *)
(* fails; unless the second one missed an attempt on record.               *)
THEOREM WebhookSettled == Spec => AcknowledgedIsSettled
<1>1. ASSUME IInv, NEW p \in Processes, wk[p].phase = "post", Delivered(logs[wk[p].id].notice),
             logs[wk[p].id].notice \notin unseen
      PROVE  FALSE
  <2> DEFINE i == wk[p].id
  <2>1. i \in Ids /\ ~logs[i].success /\ ~HasAttempt(logs[i].notice, logs[i].attempt + 1)
    BY <1>1 DEF IInv, BatchInv, ChildInv, Unsettled
  <2>2. PICK j \in Ids : logs[j].notice = logs[i].notice /\ logs[j].success
    BY <1>1 DEF Delivered
  <2>3. logs[i].attempt \in Nat /\ logs[j].attempt \in Nat
    BY <1>1, <2>1, <2>2, RowTypes DEF IInv
  <2>4. CASE logs[i].attempt = logs[j].attempt
    BY <1>1, <2>1, <2>2, <2>4 DEF IInv, OneRowPerAttempt
  <2>5. CASE logs[i].attempt < logs[j].attempt
    BY <1>1, <2>1, <2>2, <2>5 DEF IInv, ChainInv
  <2>6. CASE logs[j].attempt < logs[i].attempt
    BY <1>1, <2>1, <2>2, <2>6 DEF IInv, ChainInv
  <2> QED BY <2>3, <2>4, <2>5, <2>6
<1>2. IInv => [\A p \in Processes : wk[p].phase = "post" /\ wk'[p].phase = "log"
                  => ~Delivered(logs[wk[p].id].notice) \/ logs[wk[p].id].notice \in unseen]_vars
  BY <1>1
<1> QED BY WebhookInvariant, <1>2, PTL DEF AcknowledgedIsSettled
-------------------------------------------------------------------------------
(* What is scheduled.  A row loses its next_retry_at only when the next    *)
(* attempt is on record: the worker has written it (FinishInv) or found it *)
(* (CheckChild); or when an acknowledgement is.                            *)
FinishInv == \A p \in Processes : wk[p].phase = "finish"
               => HasAttempt(logs[wk[p].id].notice, logs[wk[p].id].attempt + 1)

OwedInv == \A i \in Ids : logs[i].retry => Unsettled(i)

(* The attempts of a notification are numbered from one. *)
GapInv == \A i \in Ids : \A a \in 1 .. logs[i].attempt : HasAttempt(logs[i].notice, a)

LogInv == IInv /\ FinishInv /\ OwedInv /\ GapInv /\ FailuresStayScheduled

(* The number of a new row, and the row it follows. *)
Follows(n, a) == \/ a = 1 /\ ~\E i \in Ids : logs[i].notice = n
                 \/ \E r \in Ids : /\ logs[r].notice = n /\ a = logs[r].attempt + 1
                                   /\ Unsettled(r)
                                   /\ n \in unseen \/ ~HasAttempt(n, a)

LEMMA LogGrows ==
  ASSUME IInv, [Next]_vars
  PROVE  \/ Kept
         \/ \E n \in Notices, a \in 1 .. MaxAttempts, acked \in BOOLEAN :
              Added(n, a, acked) /\ Follows(n, a)
<1>1. ASSUME NEW n \in Notices, LogFirst(n), Added(n, 1, first[n].acked)
      PROVE  Follows(n, 1) /\ 1 \in 1 .. MaxAttempts /\ first[n].acked \in BOOLEAN
  BY <1>1, Attempts DEF IInv, RowsInv, LogFirst, Follows, TypeOK
<1>2. ASSUME NEW p \in Processes, LogRetry(p), wk[p].id \in Ids,
             Added(logs[wk[p].id].notice, logs[wk[p].id].attempt + 1, wk[p].acked)
      PROVE  /\ Follows(logs[wk[p].id].notice, logs[wk[p].id].attempt + 1)
             /\ logs[wk[p].id].notice \in Notices
             /\ logs[wk[p].id].attempt + 1 \in 1 .. MaxAttempts /\ wk[p].acked \in BOOLEAN
  <2>1. /\ Unsettled(wk[p].id)
        /\ logs[wk[p].id].notice \notin unseen
             => ~HasAttempt(logs[wk[p].id].notice, logs[wk[p].id].attempt + 1)
    BY <1>2 DEF IInv, BatchInv, ChildInv, LogRetry
  <2>2. logs[wk[p].id].notice \in Notices /\ logs[wk[p].id].attempt + 1 \in 1 .. MaxAttempts
    BY <1>2, <2>1, RowTypes, Attempts DEF IInv, Unsettled
  <2>3. wk[p].acked \in BOOLEAN
    BY DEF IInv, TypeOK
  <2> QED BY <1>2, <2>1, <2>2, <2>3 DEF Follows
<1>3. TypeOK /\ BatchInv
  BY DEF IInv
<1> QED BY <1>1, <1>2, <1>3, LogsStep

(* HasAttempt of the next state. *)
WillHave(n, a) == \E i \in Ids' : logs'[i].notice = n /\ logs'[i].attempt = a

LEMMA HasAttemptStays ==
  ASSUME TypeOK, BatchInv, [Next]_vars, NEW n, NEW a, HasAttempt(n, a)
  PROVE  WillHave(n, a)
BY AttemptsStay DEF HasAttempt, SameAttempts, WillHave

(* An attempt before an acknowledged one is not the last. *)
LEMMA AckedIsLast ==
  ASSUME IInv, NEW i \in Ids, ~logs[i].success, Delivered(logs[i].notice), logs[i].notice \notin unseen
  PROVE  HasAttempt(logs[i].notice, logs[i].attempt + 1)
<1>1. PICK j \in Ids : logs[j].notice = logs[i].notice /\ logs[j].success
  BY DEF Delivered
<1>2. logs[i].attempt \in Nat /\ logs[j].attempt \in Nat
  BY RowTypes DEF IInv
<1>3. logs[i].attempt # logs[j].attempt
  BY <1>1 DEF IInv, OneRowPerAttempt
<1>4. ~(logs[j].attempt < logs[i].attempt)
  BY <1>1 DEF IInv, ChainInv
<1>5. logs[i].attempt < logs[j].attempt
  BY <1>2, <1>3, <1>4
<1> QED BY <1>1, <1>5 DEF IInv, ChainInv

LEMMA RetryMoves ==
  ASSUME IInv, FinishInv, [Next]_vars, NEW i \in Ids
  PROVE  \/ logs'[i].retry = logs[i].retry
         \/ /\ ~logs'[i].retry
            /\ HasAttempt(logs[i].notice, logs[i].attempt + 1) \/ Delivered(logs[i].notice)
<1> DEFINE Followed(j) == HasAttempt(logs[j].notice, logs[j].attempt + 1) \/ Delivered(logs[j].notice)
<1>1. logs \in Seq(LogRow) /\ logs[i] \in LogRow /\ TypeOK
  BY ElementOfSeq DEF IInv, TypeOK, Ids
<1>2. ASSUME NEW j, NEW e, logs' = [logs EXCEPT ![j] = e] PROVE i # j => logs'[i] = logs[i]
  BY <1>1, <1>2 DEF Ids
<1>3. ASSUME NEW e, logs' = [logs EXCEPT ![i] = e] PROVE logs'[i] = e
  BY <1>1, <1>3 DEF Ids
<1>4. CASE UNCHANGED logs
  BY <1>4
<1>5. CASE Tick
  BY <1>1, <1>5 DEF Tick, LogRow
<1>6. ASSUME NEW n \in Notices, LogFirst(n) PROVE logs'[i] = logs[i]
  <2>1. PICK row : logs' = Append(logs, row)
    BY <1>6 DEF LogFirst, Create
  <2> QED BY <1>1, <2>1 DEF Ids
<1>7. ASSUME NEW p \in Processes, LogRetry(p) PROVE logs'[i] = logs[i]
  <2>1. PICK row : logs' = Append(logs, row)
    BY <1>7 DEF LogRetry, Create
  <2> QED BY <1>1, <2>1 DEF Ids
<1>8. ASSUME NEW p \in Processes, NEW j \in Ids, TakeRow(p, j), logs' # logs, i = j
      PROVE  ~logs'[i].retry /\ Followed(i)
  <2>1. Delivered(logs[i].notice) /\ logs' = [logs EXCEPT ![i] = [logs[i] EXCEPT !.retry = FALSE]]
    BY <1>8 DEF TakeRow
  <2>2. ~[logs[i] EXCEPT !.retry = FALSE].retry
    BY <1>1 DEF LogRow
  <2> QED BY <1>3, <2>1, <2>2
<1>9. ASSUME NEW p \in Processes, NEW j \in Ids, TakeRow(p, j), i # j PROVE logs'[i] = logs[i]
  BY <1>2, <1>9 DEF TakeRow
<1>10. ASSUME NEW p \in Processes, ClaimRow(p) PROVE logs'[i].retry = logs[i].retry
  <2>1. logs' = logs \/ logs' = [logs EXCEPT ![wk[p].id] = [logs[wk[p].id] EXCEPT !.claim = 0]]
    BY <1>10 DEF ClaimRow
  <2>2. [logs[i] EXCEPT !.claim = 0].retry = logs[i].retry
    BY <1>1 DEF LogRow
  <2> QED BY <1>2, <1>3, <2>1, <2>2
<1>11. ASSUME NEW p \in Processes, CheckChild(p) \/ FinishRow(p), logs' # logs
       PROVE  logs'[i] = logs[i] \/ (~logs'[i].retry /\ Followed(i))
  <2>1. /\ logs' = [logs EXCEPT ![wk[p].id] = [@ EXCEPT !.retry = FALSE, !.claim = NoClaim]]
        /\ Followed(wk[p].id)
    BY <1>11 DEF CheckChild, FinishRow, FinishInv, Clear
  <2>2. ~[logs[i] EXCEPT !.retry = FALSE, !.claim = NoClaim].retry
    BY <1>1 DEF LogRow
  <2> QED BY <1>2, <1>3, <2>1, <2>2
<1> QED
  BY <1>4, <1>5, <1>6, <1>7, <1>8, <1>9, <1>10, <1>11
  DEF Next, Worker, Sender, vars, Dispatch, PostFirst, LogFirstFails, ReadPending, PostRetry,
      LogRetryFails, LogRetryPanics, Crash

(* What the new row changes: its notification has that attempt on record,  *)
(* and it is the last one, unless an attempt on record was missed.         *)
LEMMA NewRowAdds ==
  ASSUME LogInv, NEW n \in Notices, NEW a \in 1 .. MaxAttempts, NEW acked \in BOOLEAN,
         Added(n, a, acked), Follows(n, a)
  PROVE  /\ Ids' = Ids \cup {Len(logs) + 1} /\ Len(logs) + 1 \notin Ids
         /\ \A m \in Notices : \A b \in Nat :
              WillHave(m, b) <=> HasAttempt(m, b) \/ (m = n /\ b = a)
         /\ IF a = 1 THEN \A b \in Nat : ~HasAttempt(n, b) ELSE HasAttempt(n, a - 1)
         /\ n \notin unseen => \A b \in Nat : HasAttempt(n, b) <=> b \in 1 .. a - 1
<1>1. /\ Len(logs) \in Nat
      /\ \A i \in Ids : logs[i].attempt \in Nat /\ logs[i].attempt >= 1 /\ logs[i].notice \in Notices
  BY RowTypes DEF LogInv, IInv
<1>2. Ids' = Ids \cup {Len(logs) + 1} /\ Len(logs) + 1 \notin Ids
  BY <1>1 DEF Added, Ids
<1>3. n \notin unseen => \A b \in Nat : HasAttempt(n, b) <=> b \in 1 .. a - 1
  <2> SUFFICES ASSUME n \notin unseen PROVE \A b \in Nat : HasAttempt(n, b) <=> b \in 1 .. a - 1
    OBVIOUS
  <2>1. CASE a = 1 /\ ~\E i \in Ids : logs[i].notice = n
    BY <2>1 DEF HasAttempt
  <2>2. ASSUME NEW r \in Ids, logs[r].notice = n, a = logs[r].attempt + 1, ~HasAttempt(n, a)
        PROVE  \A b \in Nat : HasAttempt(n, b) <=> b \in 1 .. a - 1
    <3>1. \A b \in 1 .. a - 1 : HasAttempt(n, b)
      BY <1>1, <2>2 DEF LogInv, GapInv
    <3>2. ASSUME NEW i \in Ids, logs[i].notice = n, logs[i].attempt >= a PROVE FALSE
      <4>1. a \in 1 .. logs[i].attempt
        BY <1>1, <3>2
      <4> QED BY <2>2, <3>2, <4>1 DEF LogInv, GapInv
    <3> QED BY <1>1, <3>1, <3>2 DEF HasAttempt
  <2> QED BY <2>1, <2>2 DEF Follows
<1>4. /\ \A i \in Ids : logs'[i] = logs[i]
      /\ logs'[Len(logs) + 1].notice = n /\ logs'[Len(logs) + 1].attempt = a
  BY DEF Added
<1>5. ASSUME NEW m \in Notices, NEW b \in Nat
      PROVE  WillHave(m, b) <=> HasAttempt(m, b) \/ (m = n /\ b = a)
  BY <1>2, <1>4 DEF HasAttempt, WillHave
<1>6. IF a = 1 THEN \A b \in Nat : ~HasAttempt(n, b) ELSE HasAttempt(n, a - 1)
  BY <1>1 DEF Follows, HasAttempt
<1> QED BY <1>2, <1>3, <1>5, <1>6

LEMMA ScheduleStep == ASSUME LogInv, [Next]_vars PROVE OwedInv' /\ FailuresStayScheduled'
<1>1. IInv /\ FinishInv /\ TypeOK /\ BatchInv
  BY DEF LogInv, IInv
<1>2. SameAttempts /\ Ids \subseteq Ids'
  BY <1>1, AttemptsStay
<1>3. ASSUME NEW i \in Ids
      PROVE  /\ logs'[i].retry => Unsettled(i)'
             /\ Unsettled(i)' => \/ logs'[i].retry
                                 \/ WillHave(logs[i].notice, logs[i].attempt + 1)
                                 \/ \E j \in Ids' : logs'[j].notice = logs[i].notice /\ logs'[j].success
  <2>1. Unsettled(i)' <=> Unsettled(i)
    BY <1>2 DEF SameAttempts, Unsettled
  <2>2. \/ logs'[i].retry = logs[i].retry
        \/ ~logs'[i].retry /\ (\/ HasAttempt(logs[i].notice, logs[i].attempt + 1)
                               \/ Delivered(logs[i].notice))
    BY <1>1, RetryMoves
  <2>3. logs[i].retry => Unsettled(i)
    BY DEF LogInv, OwedInv
  <2>4. Unsettled(i) => \/ logs[i].retry
                        \/ HasAttempt(logs[i].notice, logs[i].attempt + 1)
                        \/ Delivered(logs[i].notice)
    BY DEF LogInv, FailuresStayScheduled, Unsettled
  <2>5. HasAttempt(logs[i].notice, logs[i].attempt + 1)
          => WillHave(logs[i].notice, logs[i].attempt + 1)
    BY <1>2 DEF SameAttempts, HasAttempt, WillHave
  <2>6. Delivered(logs[i].notice) => \E j \in Ids' : logs'[j].notice = logs[i].notice /\ logs'[j].success
    BY <1>2 DEF SameAttempts, Delivered
  <2> QED BY <2>1, <2>2, <2>3, <2>4, <2>5, <2>6
<1>4. ASSUME NEW i \in Ids', i \notin Ids PROVE logs'[i].retry <=> Unsettled(i)'
  <2>1. ~Kept
    BY <1>4 DEF Kept, Ids
  <2>2. PICK n \in Notices, a \in 1 .. MaxAttempts, acked \in BOOLEAN : Added(n, a, acked) /\ Follows(n, a)
    BY <1>1, <2>1, LogGrows
  <2>3. i = Len(logs) + 1
    BY <1>4, <2>2, NewRowAdds
  <2> QED BY <2>2, <2>3 DEF Added, Unsettled
<1>5. OwedInv'
  BY <1>3, <1>4 DEF OwedInv
<1>6. ASSUME NEW i \in Ids', Unsettled(i)'
      PROVE  \/ logs'[i].retry
             \/ WillHave(logs'[i].notice, logs'[i].attempt + 1)
             \/ \E j \in Ids' : logs'[j].notice = logs'[i].notice /\ logs'[j].success
  BY <1>2, <1>3, <1>4, <1>6 DEF SameAttempts
<1>7. FailuresStayScheduled'
  BY <1>6 DEF FailuresStayScheduled, Unsettled, HasAttempt, WillHave, Delivered
<1> QED BY <1>5, <1>7

LEMMA GapStep == ASSUME LogInv, [Next]_vars PROVE GapInv'
<1>1. IInv /\ TypeOK /\ BatchInv
  BY DEF LogInv, IInv
<1>2. CASE Kept
  <2>1. Ids' = Ids /\ SameAttempts
    BY <1>2 DEF Kept, Ids
  <2> QED BY <2>1 DEF LogInv, GapInv, SameAttempts, HasAttempt
<1>3. ASSUME NEW n \in Notices, NEW a \in 1 .. MaxAttempts, NEW acked \in BOOLEAN,
             Added(n, a, acked), Follows(n, a)
      PROVE  GapInv'
  <2>1. ASSUME NEW i \in Ids, NEW b \in 1 .. logs'[i].attempt PROVE WillHave(logs'[i].notice, b)
    <3>1. HasAttempt(logs[i].notice, b)
      BY <1>3, <2>1 DEF Added, LogInv, GapInv
    <3>2. WillHave(logs[i].notice, b)
      BY <1>1, <3>1, HasAttemptStays
    <3> QED BY <1>3, <3>2 DEF Added
  <2>2. ASSUME NEW b \in 1 .. a PROVE WillHave(n, b)
    <3>1. CASE b = a
      BY <1>3, <3>1, NewRowAdds
    <3>2. CASE b # a
      <4>1. PICK r \in Ids : logs[r].notice = n /\ a = logs[r].attempt + 1
        BY <1>3, <2>2, <3>2 DEF Follows
      <4>2. logs[r].attempt \in Nat
        BY <1>1, RowTypes
      <4>3. HasAttempt(n, b)
        BY <2>2, <3>2, <4>1, <4>2 DEF LogInv, GapInv
      <4> QED BY <1>1, <4>3, HasAttemptStays
    <3> QED BY <3>1, <3>2
  <2> QED BY <1>3, <2>1, <2>2, NewRowAdds DEF GapInv, Added, HasAttempt, WillHave
<1> QED BY <1>1, <1>2, <1>3, LogGrows

(* A worker gets to "finish" by writing the next attempt. *)
LEMMA FinishStep == ASSUME LogInv, [Next]_vars PROVE FinishInv'
<1>1. IInv /\ TypeOK /\ BatchInv
  BY DEF LogInv, IInv
<1>2. SameAttempts /\ Ids \subseteq Ids' /\ Len(logs) \in Nat
  BY <1>1, AttemptsStay
<1> SUFFICES ASSUME NEW p \in Processes, wk'[p].phase = "finish"
             PROVE  WillHave(logs'[wk'[p].id].notice, logs'[wk'[p].id].attempt + 1)
  BY DEF FinishInv, HasAttempt, WillHave
<1>3. wk'[p].id = wk[p].id /\ wk[p].phase \in Holding /\ wk[p].id \in Ids
  BY <1>1, WorkerMoves DEF Holding, BatchInv
<1>4. CASE wk[p].phase = "finish"
  <2>1. WillHave(logs[wk[p].id].notice, logs[wk[p].id].attempt + 1)
    BY <1>1, <1>4, HasAttemptStays DEF LogInv, FinishInv
  <2> QED BY <1>2, <1>3, <2>1 DEF SameAttempts
<1>5. CASE LogRetry(p)
  <2>1. PICK row : /\ logs' = Append(logs, row)
                   /\ row.notice = logs[wk[p].id].notice /\ row.attempt = logs[wk[p].id].attempt + 1
    BY <1>5 DEF LogRetry, Create, NewRow
  <2>2. Len(logs) + 1 \in Ids' /\ logs'[Len(logs) + 1] = row
    BY <1>1, <1>2, <2>1 DEF TypeOK, Ids
  <2> QED BY <1>2, <1>3, <2>1, <2>2 DEF SameAttempts, WillHave
<1>6. wk[p].phase = "finish" \/ LogRetry(p)
  <2>1. ASSUME NEW q \in Processes, wk' = [wk EXCEPT ![q] = Leave(wk[q])] \/ wk' = [wk EXCEPT ![q] = Idle]
        PROVE  wk'[p] = wk[p]
    <3>1. Leave(wk[q]).phase # "finish" /\ Idle.phase # "finish"
      BY <1>1 DEF TypeOK, Leave, Idle
    <3> QED BY <1>1, <2>1, <3>1 DEF TypeOK
  <2>2. ASSUME NEW q \in Processes, NEW i \in Ids, TakeRow(q, i) PROVE wk'[p] = wk[p]
    <3> DEFINE w == [wk[q] EXCEPT !.batch = @ \ {i}, !.id = i, !.phase = "claim"]
    <3>1. wk' = [wk EXCEPT ![q] = Leave(w)] \/ wk' = [wk EXCEPT ![q] = w]
      BY <2>2 DEF TakeRow
    <3>2. w.phase = "claim" /\ Leave(w).phase \in {"idle", "next"}
      BY <1>1 DEF TypeOK, Leave, Idle
    <3> HIDE DEF w
    <3> QED BY <1>1, <3>1, <3>2 DEF TypeOK
  <2>3. ASSUME NEW q \in Processes, ReadPending(q) \/ ClaimRow(q) \/ CheckChild(q) \/ PostRetry(q)
        PROVE  wk'[p] = wk[p]
    <3>1. ASSUME NEW w, wk' = [wk EXCEPT ![q] = w], w.phase # "finish" PROVE wk'[p] = wk[p]
      BY <1>1, <3>1 DEF TypeOK
    <3>2. ReadPending(q) => wk'[p] = wk[p]
      BY <1>1, <3>1 DEF ReadPending, Idle
    <3>3. ClaimRow(q) \/ CheckChild(q) =>
            \/ wk' = [wk EXCEPT ![q] = Leave(wk[q])]
            \/ \E x \in {"child", "post"} : wk' = [wk EXCEPT ![q] = [@ EXCEPT !.phase = x]]
      BY DEF ClaimRow, CheckChild
    <3>4. ASSUME NEW x \in {"child", "post"} PROVE [wk[q] EXCEPT !.phase = x].phase # "finish"
      BY <1>1 DEF TypeOK
    <3>5. PostRetry(q) => wk'[p] = wk[p]
      BY <1>1 DEF TypeOK, PostRetry
    <3> QED BY <2>1, <2>3, <3>1, <3>2, <3>3, <3>4, <3>5
  <2>4. ASSUME NEW q \in Processes, LogRetry(q) PROVE q = p \/ wk'[p] = wk[p]
    BY <1>1, <2>4 DEF TypeOK, LogRetry
  <2>5. ASSUME NEW q \in Processes, LogRetryFails(q) \/ LogRetryPanics(q) \/ FinishRow(q) \/ Crash(q)
        PROVE  wk'[p] = wk[p]
    BY <2>1, <2>5 DEF LogRetryFails, LogRetryPanics, FinishRow, Crash
  <2>6. CASE Tick
    BY <1>1, <2>6 DEF Tick, TypeOK
  <2>7. CASE wk' = wk
    BY <2>7
  <2> QED
    BY <2>2, <2>3, <2>4, <2>5, <2>6, <2>7
    DEF Next, Worker, vars, Sender, Dispatch, PostFirst, LogFirst, LogFirstFails
<1> QED BY <1>4, <1>5, <1>6

THEOREM WebhookLogInvariant == Spec => []LogInv
<1>1. Init => LogInv
  <2>1. Init => Ids = {} /\ \A p \in Processes : wk[p].phase = "idle"
    BY EmptySeq DEF Init, Ids, Idle
  <2> QED BY <2>1, InitInv DEF LogInv, FinishInv, OwedInv, GapInv, FailuresStayScheduled
<1>2. LogInv /\ [Next]_vars => LogInv'
  BY StepInv, ScheduleStep, GapStep, FinishStep DEF LogInv
<1> QED BY <1>1, <1>2, PTL DEF Spec

(* The retry queue in the table (the comments at lines 124 and 179-181): a *)
(* failed attempt below the last stays scheduled until the next one or an  *)
(* acknowledgement is on record, whichever replicas die while they hold    *)
(* its claim, and whichever accesses to the table fail.                    *)
THEOREM WebhookScheduled == Spec => []FailuresStayScheduled
BY WebhookLogInvariant, PTL DEF LogInv

-------------------------------------------------------------------------------
(* The log that all replicas write together.  The next attempt is owed     *)
(* where one below the last has no follower and none is acknowledged; that *)
(* depends on nothing that a worker changes in a row, so a step that adds  *)
(* none is a stutter, or a lookup that misses an attempt.                  *)
Owing(n) == ~Delivered(n) /\ \E b \in attemptsMade[n] : b < MaxAttempts /\ b + 1 \notin attemptsMade[n]

LEMMA AttemptsAsHas ==
  ASSUME TypeOK, NEW n \in Notices
  PROVE  /\ attemptsMade[n] \subseteq Nat
         /\ \A b \in Nat : b \in attemptsMade[n] <=> HasAttempt(n, b)
BY RowTypes DEF attemptsMade, HasAttempt

LEMMA AttemptsWillBe ==
  ASSUME TypeOK', NEW n \in Notices
  PROVE  /\ attemptsMade'[n] \subseteq Nat
         /\ \A b \in Nat : b \in attemptsMade'[n] <=> WillHave(n, b)
<1>1. \A i \in Ids' : logs'[i].attempt \in Nat
  <2>1. \A i \in Ids' : logs'[i] \in LogRow
    BY ElementOfSeq DEF TypeOK, Ids
  <2> QED BY <2>1, Attempts DEF LogRow
<1> QED BY <1>1 DEF attemptsMade, WillHave

LEMMA OwedIsOwing ==
  ASSUME LogInv, NEW n \in Notices
  PROVE  nextIsOwed[n] <=> Owing(n)
<1>1. /\ \A i \in Ids : logs[i].attempt \in Nat
      /\ attemptsMade[n] \subseteq Nat /\ \A b \in Nat : b \in attemptsMade[n] <=> HasAttempt(n, b)
  BY RowTypes, AttemptsAsHas DEF LogInv, IInv
<1>2. ASSUME NEW i \in Ids, logs[i].notice = n, ~Delivered(n), ~HasAttempt(n, logs[i].attempt + 1)
      PROVE  logs[i].retry <=> logs[i].attempt < MaxAttempts
  BY <1>2 DEF LogInv, OwedInv, FailuresStayScheduled, Unsettled, Delivered
<1>3. nextIsOwed[n] <=> ~Delivered(n) /\ \E i \in Ids : /\ logs[i].notice = n /\ logs[i].retry
                                                      /\ ~HasAttempt(n, logs[i].attempt + 1)
  BY DEF nextIsOwed
<1>4. \A i \in Ids : /\ logs[i].notice = n => logs[i].attempt \in attemptsMade[n]
                     /\ HasAttempt(n, logs[i].attempt + 1) <=> logs[i].attempt + 1 \in attemptsMade[n]
  BY <1>1 DEF HasAttempt
<1>5. \A b \in attemptsMade[n] : \E i \in Ids : logs[i].notice = n /\ logs[i].attempt = b
  BY <1>1 DEF HasAttempt
<1> QED BY <1>2, <1>3, <1>4, <1>5 DEF Owing

LEMMA OwedWillBeOwing ==
  ASSUME LogInv', NEW n \in Notices
  PROVE  nextIsOwed'[n] <=> Owing(n)'
<1>1. /\ \A i \in Ids' : logs'[i].attempt \in Nat
      /\ attemptsMade'[n] \subseteq Nat /\ \A b \in Nat : b \in attemptsMade'[n] <=> WillHave(n, b)
  <2>1. \A i \in Ids' : logs'[i] \in LogRow
    BY ElementOfSeq DEF LogInv, IInv, TypeOK, Ids
  <2> QED BY <2>1, Attempts, AttemptsWillBe DEF LogInv, IInv, LogRow
<1>2. ASSUME NEW i \in Ids', logs'[i].notice = n, ~Delivered(n)', ~WillHave(n, logs'[i].attempt + 1)
      PROVE  logs'[i].retry <=> logs'[i].attempt < MaxAttempts
  BY <1>2 DEF LogInv, OwedInv, FailuresStayScheduled, Unsettled, Delivered, WillHave, HasAttempt
<1>3. nextIsOwed'[n] <=> ~Delivered(n)' /\ \E i \in Ids' : /\ logs'[i].notice = n /\ logs'[i].retry
                                                        /\ ~WillHave(n, logs'[i].attempt + 1)
  BY DEF nextIsOwed, WillHave, HasAttempt, Delivered
<1>4. \A i \in Ids' : /\ logs'[i].notice = n => logs'[i].attempt \in attemptsMade'[n]
                      /\ WillHave(n, logs'[i].attempt + 1) <=> logs'[i].attempt + 1 \in attemptsMade'[n]
  BY <1>1 DEF WillHave
<1>5. \A b \in attemptsMade'[n] : \E i \in Ids' : logs'[i].notice = n /\ logs'[i].attempt = b
  BY <1>1 DEF WillHave
<1> QED BY <1>2, <1>3, <1>4, <1>5 DEF Owing

LEMMA OwedStays ==
  ASSUME LogInv, LogInv', NEW n \in Notices, attemptsMade'[n] = attemptsMade[n],
         Delivered(n)' <=> Delivered(n)
  PROVE  nextIsOwed'[n] = nextIsOwed[n]
<1>1. nextIsOwed'[n] \in BOOLEAN /\ nextIsOwed[n] \in BOOLEAN
  BY DEF nextIsOwed
<1>2. Owing(n)' <=> Owing(n)
  BY DEF Owing
<1> QED BY <1>1, <1>2, OwedIsOwing, OwedWillBeOwing

LEMMA KeptStutters ==
  ASSUME LogInv, LogInv', Kept
  PROVE  UNCHANGED <<attemptsMade, acknowledged, nextIsOwed>>
<1>1. Ids' = Ids /\ SameAttempts
  BY DEF Kept, Ids
<1>2. attemptsMade' = attemptsMade
  <2>1. \A n \in Notices : {j \in Ids' : logs'[j].notice = n} = {j \in Ids : logs[j].notice = n}
    BY <1>1 DEF SameAttempts
  <2>2. ASSUME NEW n \in Notices
        PROVE  {logs'[i].attempt : i \in {j \in Ids' : logs'[j].notice = n}}
                 = {logs[i].attempt : i \in {j \in Ids : logs[j].notice = n}}
    BY <1>1, <2>1 DEF SameAttempts
  <2> QED BY <2>2 DEF attemptsMade
<1>3. \A n \in Notices : Delivered(n)' <=> Delivered(n)
  BY <1>1 DEF Delivered, SameAttempts
<1>4. acknowledged' = acknowledged
  BY <1>1 DEF acknowledged, Delivered, SameAttempts
<1>5. nextIsOwed' = nextIsOwed
  <2>1. \A n \in Notices : nextIsOwed'[n] = nextIsOwed[n]
    BY <1>2, <1>3, OwedStays
  <2>2. /\ nextIsOwed' = [n \in Notices |-> nextIsOwed'[n]]
        /\ nextIsOwed = [n \in Notices |-> nextIsOwed[n]]
    BY DEF nextIsOwed
  <2> QED BY <2>1, <2>2
<1> QED BY <1>2, <1>4, <1>5

(* What is missed is a second or later attempt. *)
LEMMA UnseenMoves ==
  ASSUME LogInv, [Next]_vars, unseen' # unseen
  PROVE  logs' = logs /\ \E n \in Notices : 2 \in attemptsMade[n] /\ unseen' = unseen \cup {n}
<1>1. TypeOK /\ BatchInv
  BY DEF LogInv, IInv
<1>2. PICK p \in Processes : CheckChild(p)
  BY DEF Next, Worker, Sender, vars, Dispatch, PostFirst, LogFirst, LogFirstFails, ReadPending, TakeRow,
         ClaimRow, PostRetry, LogRetry, LogRetryFails, LogRetryPanics, FinishRow, Crash, Tick
<1> DEFINE i == wk[p].id
<1>3. /\ i \in Ids /\ HasAttempt(logs[i].notice, logs[i].attempt + 1)
      /\ logs' = logs /\ unseen' = unseen \cup {logs[i].notice}
  BY <1>1, <1>2 DEF CheckChild, BatchInv
<1>4. logs[i].notice \in Notices /\ logs[i].attempt \in Nat /\ logs[i].attempt >= 1
  BY <1>1, <1>3, RowTypes
<1>5. PICK k \in Ids : logs[k].notice = logs[i].notice /\ logs[k].attempt = logs[i].attempt + 1
  BY <1>3 DEF HasAttempt
<1>6. 2 \in 1 .. logs[k].attempt
  BY <1>4, <1>5
<1>7. HasAttempt(logs[i].notice, 2)
  BY <1>5, <1>6 DEF LogInv, GapInv
<1> QED BY <1>1, <1>3, <1>4, <1>7, AttemptsAsHas

LEMMA AddedRecords ==
  ASSUME LogInv, LogInv', NEW n \in Notices, NEW a \in 1 .. MaxAttempts, NEW acked \in BOOLEAN,
         Added(n, a, acked), Follows(n, a), UNCHANGED unseen
  PROVE  Log!Record(n, a, acked)
<1>0. PICK new : new = Len(logs) + 1
  OBVIOUS
<1>1. /\ Ids' = Ids \cup {new} /\ new \notin Ids
      /\ \A m \in Notices : \A b \in Nat : WillHave(m, b) <=> HasAttempt(m, b) \/ (m = n /\ b = a)
      /\ IF a = 1 THEN \A b \in Nat : ~HasAttempt(n, b) ELSE HasAttempt(n, a - 1)
      /\ n \notin unseen => \A b \in Nat : HasAttempt(n, b) <=> b \in 1 .. a - 1
  BY <1>0, NewRowAdds
<1>2. /\ \A i \in Ids : logs'[i] = logs[i]
      /\ logs'[new].notice = n /\ logs'[new].success = acked
  BY <1>0 DEF Added
<1>3. TypeOK /\ TypeOK' /\ IInv
  BY DEF LogInv, IInv
<1>4. a \in Nat /\ a <= MaxAttempts /\ 1 .. a - 1 \subseteq Nat /\ (a # 1 => a - 1 \in Nat)
  BY Attempts
<1>5. \A m \in Notices : /\ attemptsMade[m] \subseteq Nat /\ attemptsMade'[m] \subseteq Nat
                         /\ \A b \in Nat : b \in attemptsMade[m] <=> HasAttempt(m, b)
                         /\ \A b \in Nat : b \in attemptsMade'[m] <=> WillHave(m, b)
  BY <1>3, AttemptsAsHas, AttemptsWillBe
<1>6. IF a = 1 THEN attemptsMade[n] = {} ELSE a - 1 \in attemptsMade[n]
  BY <1>1, <1>4, <1>5
<1>7. n \notin unseen => ~acknowledged[n] /\ attemptsMade[n] = 1 .. a - 1 /\ (a > 1 => nextIsOwed[n])
  <2> SUFFICES ASSUME n \notin unseen
               PROVE  ~acknowledged[n] /\ attemptsMade[n] = 1 .. a - 1 /\ (a > 1 => nextIsOwed[n])
    OBVIOUS
  <2>1. attemptsMade[n] = 1 .. a - 1
    BY <1>1, <1>4, <1>5
  <2>2. ~Delivered(n)
    <3>1. CASE a = 1 /\ ~\E i \in Ids : logs[i].notice = n
      BY <3>1 DEF Delivered
    <3>2. ASSUME NEW r \in Ids, logs[r].notice = n, a = logs[r].attempt + 1,
                 Unsettled(r), ~HasAttempt(n, a)
          PROVE  ~Delivered(n)
      BY <1>3, <3>2, AckedIsLast DEF Unsettled
    <3> QED BY <3>1, <3>2 DEF Follows
  <2>3. a > 1 => Owing(n)
    <3>1. a > 1 => a - 1 \in 1 .. a - 1 /\ a - 1 < MaxAttempts /\ (a - 1) + 1 \notin 1 .. a - 1
      BY <1>4, Attempts
    <3> QED BY <2>1, <2>2, <3>1 DEF Owing
  <2> QED BY <2>1, <2>2, <2>3, OwedIsOwing DEF acknowledged
<1>8. attemptsMade' = [attemptsMade EXCEPT ![n] = @ \cup {a}]
  <2>1. attemptsMade'[n] = attemptsMade[n] \cup {a}
    BY <1>1, <1>4, <1>5
  <2>2. \A m \in Notices \ {n} : attemptsMade'[m] = attemptsMade[m]
    BY <1>1, <1>5
  <2>3. /\ attemptsMade = [m \in Notices |-> attemptsMade[m]]
        /\ attemptsMade' = [m \in Notices |-> attemptsMade'[m]]
    BY DEF attemptsMade
  <2> QED BY <2>1, <2>2, <2>3
<1>9. ASSUME NEW m \in Notices PROVE Delivered(m)' <=> Delivered(m) \/ (m = n /\ acked)
  BY <1>1, <1>2 DEF Delivered
<1>10. acknowledged' = [acknowledged EXCEPT ![n] = @ \/ acked]
  <2>1. ASSUME NEW m \in Notices
        PROVE  acknowledged'[m] = IF m = n THEN acknowledged[m] \/ acked ELSE acknowledged[m]
    <3>1. /\ acknowledged'[m] = Delivered(m)' /\ acknowledged[m] = Delivered(m)
          /\ Delivered(m)' \in BOOLEAN /\ Delivered(m) \in BOOLEAN
      BY DEF acknowledged, Delivered
    <3> QED BY <1>9, <3>1
  <2> QED BY <2>1 DEF acknowledged
<1>11. nextIsOwed' = [nextIsOwed EXCEPT ![n] = /\ ~acknowledged'[n]
                                               /\ \E b \in attemptsMade'[n] :
                                                    b < MaxAttempts /\ b + 1 \notin attemptsMade'[n]]
  <2>1. nextIsOwed'[n] = (/\ ~acknowledged'[n]
                          /\ \E b \in attemptsMade'[n] : b < MaxAttempts /\ b + 1 \notin attemptsMade'[n])
    <3>1. nextIsOwed'[n] <=> Owing(n)'
      BY OwedWillBeOwing
    <3>2. nextIsOwed'[n] \in BOOLEAN /\ acknowledged'[n] = Delivered(n)'
      BY DEF nextIsOwed, acknowledged
    <3> QED BY <3>1, <3>2 DEF Owing
  <2>2. \A m \in Notices \ {n} : nextIsOwed'[m] = nextIsOwed[m]
    <3>1. ASSUME NEW m \in Notices, m # n PROVE attemptsMade'[m] = attemptsMade[m]
      BY <1>1, <1>5, <3>1
    <3> QED BY <1>9, <3>1, OwedStays
  <2>3. /\ nextIsOwed' = [m \in Notices |-> nextIsOwed'[m]]
        /\ nextIsOwed = [m \in Notices |-> nextIsOwed[m]]
    BY DEF nextIsOwed
  <2> QED BY <2>1, <2>2, <2>3
<1> QED BY <1>6, <1>7, <1>8, <1>10, <1>11 DEF Log!Record

(* The comments at lines 179-181 and 195-196 together: whatever replicas   *)
(* retry, crash or lose, they write one log per notification, numbered     *)
(* without gap or repeat, which ends with an acknowledgement or with the   *)
(* last attempt, and whose last row is scheduled otherwise.  A lookup that *)
(* misses an attempt on record (lines 191-194) costs the "no repeat" of    *)
(* its notification, and nothing else.                                     *)
THEOREM WebhookImplementsLog == Spec => ImplementsNotificationLog
<1>1. Init => Log!Init
  <2>1. Init => Ids = {}
    BY EmptySeq DEF Init, Ids
  <2> QED BY <2>1 DEF Init, Log!Init, attemptsMade, acknowledged, nextIsOwed, Delivered
<1>2. LogInv /\ LogInv' /\ [Next]_vars => [Log!Next]_(Log!vars)
  <2> SUFFICES ASSUME LogInv, LogInv', [Next]_vars PROVE [Log!Next]_(Log!vars)
    OBVIOUS
  <2>1. CASE unseen' # unseen
    <3>1. PICK n \in Notices : /\ logs' = logs /\ 2 \in attemptsMade[n]
                               /\ unseen' = unseen \cup {n}
      BY <2>1, UnseenMoves
    <3>2. Kept
      BY <3>1 DEF Kept, SameAttempts, LogInv, IInv, TypeOK
    <3>3. Log!Miss(n)
      BY <3>1, <3>2, KeptStutters DEF Log!Miss
    <3> QED BY <3>3 DEF Log!Next
  <2>2. CASE Kept /\ UNCHANGED unseen
    BY <2>2, KeptStutters DEF Log!vars
  <2>3. CASE ~Kept /\ UNCHANGED unseen
    <3>1. PICK n \in Notices, a \in 1 .. MaxAttempts, acked \in BOOLEAN : Added(n, a, acked) /\ Follows(n, a)
      BY <2>3, LogGrows DEF LogInv
    <3>2. Log!Record(n, a, acked)
      BY <2>3, <3>1, AddedRecords
    <3> QED BY <3>2 DEF Log!Next
  <2> QED BY <2>1, <2>2, <2>3
<1> QED BY <1>1, <1>2, WebhookLogInvariant, PTL DEF Spec, ImplementsNotificationLog, Log!Spec
===============================================================================
