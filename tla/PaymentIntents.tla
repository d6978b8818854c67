---------------------------- MODULE PaymentIntents ----------------------------
(***************************************************************************)
(* The life of payment intents on one receiving address of one chain and   *)
(* token, which clients may spell in several ways: the payment_intents and *)
(* chain_transfers tables and everyone who writes them.                    *)
(*                                                                         *)
(*   - service.IntentService: register, allocate, re-activate and cancel   *)
(*   - engine.MatcherEngine:  match a transfer to an order and settle it   *)
(*   - queue.ConfirmationWorker: CONFIRMING -> PAID once deep enough       *)
(*   - queue.IntentCleaner:   WATCHING -> EXPIRED after the deadline       *)
(*   - app, db at startup:    key backfill, replay of unmatched transfers  *)
(*                                                                         *)
(* Every database statement is a step of its own.  What a handler read     *)
(* stays in its local copy, and gorm's Save writes that whole copy back,   *)
(* so a row may have changed in between.                                   *)
(*                                                                         *)
(* Amounts are integers in units of the matcher's epsilon (0.000001), only *)
(* the base amount of an allocation has a decimal more.  A tick of the     *)
(* clock is longer than any handler runs and no longer than the quarantine *)
(* of a released amount.                                                   *)
(***************************************************************************)
EXTENDS Integers, FiniteSets

CONSTANTS Orders, Transfers,
          Registrars,   \* concurrent register / allocate requests
          SharedLock,   \* TRUE: one process serves them; FALSE: replicas, each with its own locks
          Spellings,    \* how clients write the token
          Upper,        \* the spelling in capitals, which the scanners use
          Amounts,      \* expected amounts and transferred amounts
          Bases,        \* base amounts of allocations, in tenths of a unit
          MinTail, MaxTail, TailStep,  \* the tails an allocation may add (pool_manager.go:37-39)
          NoTransfer,   \* tx_hash = ""
          NoKey,        \* allocation_key IS NULL
          NoOrder,      \* matched_order_id = ""
          NotRecorded,  \* no row in chain_transfers
          NotMined,     \* not on chain yet
          Timeout,      \* ticks until a fresh order expires
          Cooldown,     \* quarantine of a released amount (15 minutes)
          LateWindow,   \* how long an expired order can be recovered (24 hours)
          Tolerance,    \* clock tolerance of created_at (180 seconds)
          MaxNow,       \* bound: last tick of the clock
          MaxRestarts   \* bound: process restarts

ASSUME AmountsAssumption == Amounts \subseteq Nat
ASSUME SpellingsAssumption == Upper \in Spellings
ASSUME TailAssumption == {MinTail, MaxTail, TailStep} \subseteq Nat \ {0} /\ Bases \subseteq Nat \ {0}
ASSUME SharedLockAssumption == SharedLock \in BOOLEAN
ASSUME ClockAssumption == /\ {Timeout, Cooldown, LateWindow, Tolerance, MaxNow, MaxRestarts} \subseteq Nat
                          /\ Timeout > 0  \* an order outlives the handler that writes it
ASSUME NilAssumption == /\ NoTransfer \notin Transfers /\ NoKey \notin Amounts
                        /\ {NoOrder, NotRecorded} \cap Orders = {} /\ NoOrder # NotRecorded

VARIABLES now,        \* the clock
          rows,       \* table payment_intents, by order_id
          chain,      \* the transfers on chain
          matched,    \* table chain_transfers: matched_order_id of each recorded transfer
          mt,         \* the matcher: its current transfer and the order it chose
          recovery,   \* transfers the startup replay still has to feed the matcher
          wk,         \* the confirmation worker: its list and its current element
          reg,        \* the registrars, one of which holds the allocation lock
          cn,         \* a cancel request
          up,         \* FALSE once startup has given up with logger.Fatal
          restarts

vars == <<now, rows, chain, matched, mt, recovery, wk, reg, cn, up, restarts>>

Statuses == {"NONE", "WATCHING", "CONFIRMING", "PAID", "EXPIRED", "CANCELLED"}
Clock == 0 .. MaxNow

Row == [status : Statuses,
        token : Spellings,                  \* as the client wrote it
        amount : Amounts \cup {0},          \* expected_amount
        key : Amounts \cup {NoKey},         \* allocation_key: the token in capitals, and the amount
        tx : Transfers \cup {NoTransfer},   \* tx_hash and log_index
        created : Clock, expires : Nat, updated : Clock]

NoRow == [status |-> "NONE", token |-> Upper, amount |-> 0, key |-> NoKey, tx |-> NoTransfer,
          created |-> 0, expires |-> 0, updated |-> 0]

OnChain == [amount : Amounts, mined : Clock,
            deep : BOOLEAN,     \* has the required confirmations
            valid : BOOLEAN]    \* the receipt is there and says success

ASSUME NotMinedAssumption == NotMined \notin OnChain

IdleMatcher == [phase |-> "idle", tr |-> NoTransfer, order |-> NoOrder, row |-> NoRow]
IdleWorker == [phase |-> "idle", order |-> NoOrder, tr |-> NoTransfer, todo |-> {}]
IdleRequest == [phase |-> "idle", order |-> NoOrder, token |-> Upper, base |-> 0, amount |-> 0,
                row |-> NoRow]
IdleCancel == [phase |-> "idle", order |-> NoOrder, row |-> NoRow]

Request == [phase : {"idle", "check", "pick", "save"}, order : Orders \cup {NoOrder},
            token : Spellings,
            base : Bases \cup {0},      \* 0: the client names the amount itself
            amount : Amounts \cup {0}, row : Row]

TypeOK ==
  /\ now \in Clock
  /\ rows \in [Orders -> Row]
  /\ chain \in [Transfers -> OnChain \cup {NotMined}]
  /\ matched \in [Transfers -> Orders \cup {NoOrder, NotRecorded}]
  /\ mt \in [phase : {"idle", "query", "late", "settle"}, tr : Transfers \cup {NoTransfer},
             order : Orders \cup {NoOrder}, row : Row]
  /\ recovery \in SUBSET Transfers
  /\ wk \in [phase : {"idle", "pay", "mark"}, order : Orders \cup {NoOrder},
             tr : Transfers \cup {NoTransfer}, todo : SUBSET (Orders \X Transfers)]
  /\ reg \in [Registrars -> Request]
  /\ cn \in [phase : {"idle", "save"}, order : Orders \cup {NoOrder}, row : Row]
  /\ up \in BOOLEAN
  /\ restarts \in 0 .. MaxRestarts

Init == /\ now = 0
        /\ rows = [o \in Orders |-> NoRow]
        /\ chain = [x \in Transfers |-> NotMined]
        /\ matched = [x \in Transfers |-> NotRecorded]
        /\ mt = IdleMatcher
        /\ recovery = {}
        /\ wk = IdleWorker
        /\ reg = [r \in Registrars |-> IdleRequest]
        /\ cn = IdleCancel
        /\ up = TRUE
        /\ restarts = 0

-------------------------------------------------------------------------------
(* The database: rows and the unique index on allocation_key.              *)
Active(row) == row.status \in {"WATCHING", "CONFIRMING"}

KeyFree(o, k) == k = NoKey \/ \A p \in Orders \ {o} : rows[p].key # k

(* gorm Save: the whole row, unless the unique index refuses it. *)
\* The mutant has no unique index on allocation_key.
WritableAlways(o, row) == TRUE

Writable(o, row) == KeyFree(o, row.key)
Write(o, row) == rows' = [rows EXCEPT ![o] = row]

(* A released amount stays occupied during the quarantine. *)
InCooldown(row) == row.status \in {"EXPIRED", "CANCELLED"} /\ row.updated >= now - Cooldown
Occupies(row, a) == row.amount = a /\ (Active(row) \/ InCooldown(row))

-------------------------------------------------------------------------------
(* service/intent.go.  The allocation lock spans a whole request; Acquire  *)
(* waits or times out without touching the tables.  Its key is made of the *)
(* token as the client wrote it, and it lives in one process: the unique   *)
(* index is all that two spellings or two replicas share.                  *)
\* The mutant registers without the allocation lock.
NoLock(token) == TRUE

LockFree(token) ==
  SharedLock => \A r \in Registrars : reg[r].phase = "idle" \/ reg[r].token # token

Reusable(row) == row.status \in {"NONE", "EXPIRED", "CANCELLED"}

(* First(&existing): PAID is refused, an active order is returned as it is. *)
BeginRequest(r, q) ==
  /\ up
  /\ reg[r].phase = "idle"
  /\ LockFree(q.token)
  /\ Reusable(q.row)
  /\ reg' = [reg EXCEPT ![r] = q]
  /\ UNCHANGED <<now, rows, chain, matched, mt, recovery, wk, cn, up, restarts>>

Register(r, o, t, a) ==
  BeginRequest(r, [phase |-> "check", order |-> o, token |-> t, base |-> 0, amount |-> a,
                   row |-> rows[o]])

Allocate(r, o, t, b) ==
  BeginRequest(r, [phase |-> "pick", order |-> o, token |-> t, base |-> b, amount |-> 0,
                   row |-> rows[o]])

(* CheckCollision leaves the order's own row out; a collision ends the request. *)
CheckCollision(r) ==
  LET q == reg[r] IN
  /\ q.phase = "check"
  /\ reg' = [reg EXCEPT ![r] = IF \E p \in Orders \ {q.order} : Occupies(rows[p], q.amount)
                                 THEN IdleRequest
                                 ELSE [q EXCEPT !.phase = "save"]]
  /\ UNCHANGED <<now, rows, chain, matched, mt, recovery, wk, cn, up, restarts>>

Tails == {t \in MinTail .. MaxTail : t % TailStep = 0}

(* An amount takes the tail nearest to its distance from the base amount,  *)
(* if that is a distance an allocation can make.                           *)
Takes(amount, b, t) == LET diff == 10 * amount - b IN
                       /\ diff \in 10 * MinTail .. 10 * MaxTail
                       /\ 2 * (diff - 10 * t) \in -10 * TailStep .. 10 * TailStep - 1

(* The tail is added first and Round(6) comes last. *)
Rounded(b, t) == (b + 10 * t + 5) \div 10

ASSUME AllocationAssumption == \A b \in Bases, t \in Tails : Rounded(b, t) \in Amounts

\* The mutant counts active orders only.
CountedActive(token) == {p \in Orders : token = Upper /\ Active(rows[p])}

(* UPPER(token) = ? is asked with the client's spelling: the rows at the   *)
(* address that an allocation counts are all of them or none.              *)
Counted(token) == {p \in Orders : token = Upper /\ (Active(rows[p]) \/ InCooldown(rows[p]))}

(* AllocateUniqueAmount takes the first free tail; the order's own row counts. *)
PickAmount(r) ==
  LET q == reg[r]
      free == {t \in Tails : \A p \in Counted(q.token) : ~Takes(rows[p].amount, q.base, t)}
  IN
  /\ q.phase = "pick"
  /\ \/ free = {} /\ reg' = [reg EXCEPT ![r] = IdleRequest]
     \/ \E t \in free :
          /\ \A u \in free : t <= u
          /\ reg' = [reg EXCEPT ![r] = [q EXCEPT !.phase = "save", !.amount = Rounded(q.base, t)]]
  /\ UNCHANGED <<now, rows, chain, matched, mt, recovery, wk, cn, up, restarts>>

\* The mutant subtracts the timeout.
WatchedBackwards(q) == [status |-> "WATCHING", token |-> q.token, amount |-> q.amount,
                        key |-> q.amount, tx |-> NoTransfer,
                        created |-> IF q.row.status = "NONE" THEN now ELSE q.row.created,
                        expires |-> now - Timeout, updated |-> now]

(* resetExistingIntent keeps created_at; buildNewIntent sets it. *)
Watched(q) == [status |-> "WATCHING", token |-> q.token, amount |-> q.amount,
               key |-> q.amount, tx |-> NoTransfer,
               created |-> IF q.row.status = "NONE" THEN now ELSE q.row.created,
               expires |-> now + Timeout, updated |-> now]

(* Create for a new order (order_id is unique), Save for a reset one. *)
SaveRequest(r) ==
  LET q == reg[r] IN
  /\ q.phase = "save"
  /\ IF Writable(q.order, Watched(q)) /\ (q.row.status = "NONE" => rows[q.order].status = "NONE")
       THEN Write(q.order, Watched(q))
       ELSE UNCHANGED rows
  /\ reg' = [reg EXCEPT ![r] = IdleRequest]
  /\ UNCHANGED <<now, chain, matched, mt, recovery, wk, cn, up, restarts>>

(* CancelIntent holds another lock (order:<id>).  PAID and CONFIRMING are  *)
(* refused, EXPIRED and CANCELLED are returned as they are.                *)
Cancel(o) ==
  /\ up
  /\ cn.phase = "idle"
  /\ rows[o].status = "WATCHING"
  /\ cn' = [phase |-> "save", order |-> o, row |-> rows[o]]
  /\ UNCHANGED <<now, rows, chain, matched, mt, recovery, wk, reg, up, restarts>>

\* The mutant keeps the key.
CancelledKeepsKey(row) == [row EXCEPT !.status = "CANCELLED", !.updated = now]

Cancelled(row) == [row EXCEPT !.status = "CANCELLED", !.key = NoKey, !.updated = now]

SaveCancel ==
  /\ cn.phase = "save"
  /\ Write(cn.order, Cancelled(cn.row))
  /\ cn' = IdleCancel
  /\ UNCHANGED <<now, chain, matched, mt, recovery, wk, reg, up, restarts>>

-------------------------------------------------------------------------------
(* queue/cleaner.go: one UPDATE over every overdue WATCHING row. *)
Overdue(row) == row.status = "WATCHING" /\ row.expires <= now

\* The mutant leaves updated_at alone.
ExpiredUndated(row) == [row EXCEPT !.status = "EXPIRED", !.key = NoKey]

Expired(row) == [row EXCEPT !.status = "EXPIRED", !.key = NoKey, !.updated = now]

CleanExpired ==
  /\ up
  /\ \E o \in Orders : Overdue(rows[o])
  /\ rows' = [o \in Orders |-> IF Overdue(rows[o]) THEN Expired(rows[o]) ELSE rows[o]]
  /\ UNCHANGED <<now, chain, matched, mt, recovery, wk, reg, cn, up, restarts>>

-------------------------------------------------------------------------------
(* engine/matcher.go, one transfer at a time under e.mu.  Any transfer on  *)
(* chain may be delivered at any time and again: the scanners overlap      *)
(* their windows and re-read after a restart.                              *)
Near(a, b) == a - b \in -1 .. 1

(* created_at <= block timestamp + tolerance *)
OldEnough(row, c) == row.created <= c.mined + Tolerance

\* The mutant does not compare created_at with the block timestamp.
FitsAnyAge(row, c) == row.token = Upper /\ Near(row.amount, c.amount)

(* token = ?, with the spelling of the scanners, and no other. *)
Fits(row, c) == row.token = Upper /\ Near(row.amount, c.amount) /\ OldEnough(row, c)

Watching(c) == {o \in Orders : rows[o].status = "WATCHING" /\ Fits(rows[o], c)}

\* The mutant's late query forgets that CONFIRMING orders are taken.
RecoverableTaken(c) == {o \in Orders : /\ rows[o].status \in {"EXPIRED", "CONFIRMING"}
                                       /\ rows[o].expires >= now - LateWindow
                                       /\ Fits(rows[o], c)}

Recoverable(c) == {o \in Orders : /\ rows[o].status = "EXPIRED"
                                  /\ rows[o].expires >= now - LateWindow
                                  /\ Fits(rows[o], c)}

(* ProcessTransfer: record the transfer, or go on with the recorded one    *)
(* unless an order has been credited with it.                              *)
Receive(x) ==
  /\ up
  /\ mt.phase = "idle" /\ recovery = {}
  /\ chain[x] # NotMined
  /\ matched[x] \notin Orders
  /\ matched' = [matched EXCEPT ![x] = NoOrder]
  /\ mt' = [IdleMatcher EXCEPT !.phase = "query", !.tr = x]
  /\ UNCHANGED <<now, rows, chain, recovery, wk, reg, cn, up, restarts>>

(* ReprocessUnmatchedTransfer does not look at matched_order_id again. *)
Reprocess(x) ==
  /\ mt.phase = "idle"
  /\ x \in recovery
  /\ recovery' = recovery \ {x}
  /\ mt' = [IdleMatcher EXCEPT !.phase = "query", !.tr = x]
  /\ UNCHANGED <<now, rows, chain, matched, wk, reg, cn, up, restarts>>

Chosen(o) == [mt EXCEPT !.phase = "settle", !.order = o, !.row = rows[o]]

(* matchAndSettle: WATCHING candidates first (Find has no ORDER BY, the    *)
(* first one near enough is taken); if there is none, or the query fails,  *)
QueryWatching ==
  /\ mt.phase = "query"
  /\ \/ mt' = [mt EXCEPT !.phase = "late"]
     \/ \E o \in Watching(chain[mt.tr]) : mt' = Chosen(o)
  /\ UNCHANGED <<now, rows, chain, matched, recovery, wk, reg, cn, up, restarts>>

(* orders that expired recently; if there is none, or this query fails,    *)
(* the transfer stays as it is.                                            *)
QueryExpired ==
  /\ mt.phase = "late"
  /\ \/ mt' = IdleMatcher
     \/ \E o \in Recoverable(chain[mt.tr]) : mt' = Chosen(o)
  /\ UNCHANGED <<now, rows, chain, matched, recovery, wk, reg, cn, up, restarts>>

Confirming(row, x) == [row EXCEPT !.status = "CONFIRMING", !.tx = x, !.updated = now]
PaidBy(row, x) == [row EXCEPT !.status = "PAID", !.tx = x, !.key = NoKey, !.updated = now]

(* The required confirmations are there and the verifier says yes. *)
Verified(x) == chain[x].deep /\ chain[x].valid

(* settle, too few confirmations or a verifier error: the worker goes on. *)
SettleConfirming ==
  LET row == Confirming(mt.row, mt.tr) IN
  /\ mt.phase = "settle"
  /\ Writable(mt.order, row)
  /\ Write(mt.order, row)
  /\ mt' = IdleMatcher
  /\ UNCHANGED <<now, chain, matched, recovery, wk, reg, cn, up, restarts>>

(* settle, deep and verified: the order and the transfer in one transaction. *)
SettlePaid ==
  /\ mt.phase = "settle"
  /\ Verified(mt.tr)
  /\ Write(mt.order, PaidBy(mt.row, mt.tr))
  /\ matched' = [matched EXCEPT ![mt.tr] = mt.order]
  /\ mt' = IdleMatcher
  /\ UNCHANGED <<now, chain, recovery, wk, reg, cn, up, restarts>>

(* settle fails: a reverted transfer, the unique index, a database error. *)
SettleFails ==
  /\ mt.phase = "settle"
  /\ mt' = IdleMatcher
  /\ UNCHANGED <<now, rows, chain, matched, recovery, wk, reg, cn, up, restarts>>

-------------------------------------------------------------------------------
(* queue/confirmation_worker.go: a list of CONFIRMING orders with a        *)
(* tx_hash, each with the transfer it had when the list was read.          *)
ListConfirming ==
  LET listed == {e \in Orders \X Transfers : /\ rows[e[1]].status = "CONFIRMING"
                                             /\ rows[e[1]].tx = e[2]} IN
  /\ up
  /\ wk.phase = "idle" /\ wk.todo = {}
  /\ listed # {}
  /\ wk' = [wk EXCEPT !.todo = listed]
  /\ UNCHANGED <<now, rows, chain, matched, mt, recovery, reg, cn, up, restarts>>

(* Not deep enough: the count of confirmations is stored. *)
CountConfirmations(o, x) ==
  /\ wk.phase = "idle" /\ <<o, x>> \in wk.todo
  /\ ~chain[x].deep
  /\ rows' = IF rows[o].status = "CONFIRMING" THEN [rows EXCEPT ![o].updated = now] ELSE rows
  /\ wk' = [wk EXCEPT !.todo = @ \ {<<o, x>>}]
  /\ UNCHANGED <<now, chain, matched, mt, recovery, reg, cn, up, restarts>>

(* The height is unknown, the verifier fails or says no: next round. *)
SkipConfirming(o, x) ==
  /\ wk.phase = "idle" /\ <<o, x>> \in wk.todo
  /\ wk' = [wk EXCEPT !.todo = @ \ {<<o, x>>}]
  /\ UNCHANGED <<now, rows, chain, matched, mt, recovery, reg, cn, up, restarts>>

VerifyConfirming(o, x) ==
  /\ wk.phase = "idle" /\ <<o, x>> \in wk.todo
  /\ Verified(x)
  /\ wk' = [phase |-> "pay", order |-> o, tr |-> x, todo |-> wk.todo \ {<<o, x>>}]
  /\ UNCHANGED <<now, rows, chain, matched, mt, recovery, reg, cn, up, restarts>>

\* The mutant guards the UPDATE with the wrong status.
PayableWatching(row) == row.status = "WATCHING"

(* UPDATE ... WHERE status = CONFIRMING *)
Payable(row) == row.status = "CONFIRMING"

PayConfirming ==
  /\ wk.phase = "pay"
  /\ IF Payable(rows[wk.order])
       THEN /\ Write(wk.order, PaidBy(rows[wk.order], rows[wk.order].tx))
            /\ wk' = [wk EXCEPT !.phase = "mark"]
       ELSE /\ wk' = [IdleWorker EXCEPT !.todo = wk.todo]
            /\ UNCHANGED rows
  /\ UNCHANGED <<now, chain, matched, mt, recovery, reg, cn, up, restarts>>

(* A statement of its own, and its error is not looked at. *)
MarkTransfer ==
  /\ wk.phase = "mark"
  /\ matched' \in {matched, [matched EXCEPT ![wk.tr] = wk.order]}
  /\ wk' = [IdleWorker EXCEPT !.todo = wk.todo]
  /\ UNCHANGED <<now, rows, chain, mt, recovery, reg, cn, up, restarts>>

-------------------------------------------------------------------------------
(* The chain and the clock. *)
Mine(x, a) ==
  /\ up
  /\ chain[x] = NotMined
  /\ chain' = [chain EXCEPT ![x] = [amount |-> a, mined |-> now, deep |-> FALSE, valid |-> TRUE]]
  /\ UNCHANGED <<now, rows, matched, mt, recovery, wk, reg, cn, up, restarts>>

Deepen(x) ==
  /\ up
  /\ chain[x] # NotMined /\ ~chain[x].deep
  /\ chain' = [chain EXCEPT ![x].deep = TRUE]
  /\ UNCHANGED <<now, rows, matched, mt, recovery, wk, reg, cn, up, restarts>>

(* A reorganisation drops a transfer that is not deep yet. *)
Reorganise(x) ==
  /\ up
  /\ chain[x] # NotMined /\ ~chain[x].deep /\ chain[x].valid
  /\ chain' = [chain EXCEPT ![x].valid = FALSE]
  /\ UNCHANGED <<now, rows, matched, mt, recovery, wk, reg, cn, up, restarts>>

(* Handlers run for seconds, a tick stands for minutes: none spans a tick. *)
Quiet == /\ mt.phase = "idle" /\ recovery = {}
         /\ wk.phase = "idle" /\ wk.todo = {}
         /\ \A r \in Registrars : reg[r].phase = "idle"
         /\ cn.phase = "idle"

Tick ==
  /\ up
  /\ Quiet
  /\ now < MaxNow
  /\ now' = now + 1
  /\ UNCHANGED <<rows, chain, matched, mt, recovery, wk, reg, cn, up, restarts>>

-------------------------------------------------------------------------------
(* A restart loses every handler.  InitDB gives active rows without a key  *)
(* their key, one UPDATE each, and dies on the unique index; then the      *)
(* unmatched transfers of the last 48 hours are read for the replay, 200   *)
(* at most: some of them.                                                  *)
Keyless == {o \in Orders : Active(rows[o]) /\ rows[o].key = NoKey}

CanTakeKeys(S) == \A o \in S : /\ KeyFree(o, rows[o].amount)
                               /\ \A p \in S \ {o} : rows[p].amount # rows[o].amount

Keyed(S) == [o \in Orders |-> IF o \in S THEN [rows[o] EXCEPT !.key = rows[o].amount] ELSE rows[o]]

Restart ==
  /\ up
  /\ restarts < MaxRestarts
  /\ restarts' = restarts + 1
  /\ mt' = IdleMatcher /\ wk' = IdleWorker /\ cn' = IdleCancel
  /\ reg' = [r \in Registrars |-> IdleRequest]
  /\ IF CanTakeKeys(Keyless)
       THEN /\ rows' = Keyed(Keyless)
            /\ recovery' \in SUBSET {x \in Transfers : matched[x] = NoOrder}
            /\ up' = TRUE
       ELSE /\ \E S \in SUBSET Keyless : CanTakeKeys(S) /\ rows' = Keyed(S)
            /\ recovery' = {}
            /\ up' = FALSE
  /\ UNCHANGED <<now, chain, matched>>

-------------------------------------------------------------------------------
Requests == \/ \E r \in Registrars :
                 \/ \E o \in Orders, t \in Spellings, b \in Bases : Allocate(r, o, t, b)
                 \/ \E o \in Orders, t \in Spellings, a \in Amounts : Register(r, o, t, a)
                 \/ CheckCollision(r) \/ PickAmount(r) \/ SaveRequest(r)
            \/ \E o \in Orders : Cancel(o)
            \/ SaveCancel

Matcher == \/ \E x \in Transfers : Receive(x) \/ Reprocess(x)
           \/ QueryWatching \/ QueryExpired
           \/ SettleConfirming \/ SettlePaid \/ SettleFails

Worker == \/ ListConfirming
          \/ \E o \in Orders, x \in Transfers :
               CountConfirmations(o, x) \/ SkipConfirming(o, x) \/ VerifyConfirming(o, x)
          \/ PayConfirming \/ MarkTransfer

Blockchain == \/ \E x \in Transfers : Deepen(x) \/ Reorganise(x)
              \/ \E x \in Transfers, a \in Amounts : Mine(x, a)

Next == Requests \/ Matcher \/ Worker \/ CleanExpired \/ Blockchain \/ Tick \/ Restart

Spec == Init /\ [][Next]_vars

(* The worker ticks every two seconds and a database statement returns.  A *)
(* verifier call may fail any number of times, but not for ever.           *)
Fairness ==
  /\ WF_vars(ListConfirming) /\ WF_vars(PayConfirming) /\ WF_vars(MarkTransfer)
  /\ \A o \in Orders, x \in Transfers :
       /\ SF_vars(VerifyConfirming(o, x))
       /\ WF_vars(CountConfirmations(o, x) \/ SkipConfirming(o, x) \/ VerifyConfirming(o, x))

FairSpec == Spec /\ Fairness

-------------------------------------------------------------------------------
(* models.go:32: the key is non-nil only while the order can receive a     *)
(* payment, and then it is the order's own; every writer, also one that    *)
(* saves a row it read long ago, keeps status and key together.            *)
KeyOnlyWhileReceivable ==
  \A o \in Orders : /\ rows[o].key # NoKey => Active(rows[o]) /\ rows[o].key = rows[o].amount
                    /\ rows[o].status = "WATCHING" => rows[o].key = rows[o].amount

(* No two orders wait for the same amount at the address, whoever raced    *)
(* whom.  (Neighbours, one epsilon apart, they may be: Near takes both.)   *)
WatchersHaveDistinctAmounts ==
  \A o, p \in Orders :
    rows[o].status = "WATCHING" /\ rows[p].status = "WATCHING" /\ rows[o].amount = rows[p].amount
      => o = p

(* An order that is being or has been paid names a transfer on chain of    *)
(* its token and amount that is not older than the order (matcher.go:      *)
(* 147-155 and 237-254), also when its row was saved from a copy.          *)
SettledByItsOwnTransfer ==
  \A o \in Orders : rows[o].status \in {"CONFIRMING", "PAID"} =>
    /\ rows[o].tx \in Transfers
    /\ LET c == chain[rows[o].tx] IN
       /\ c # NotMined /\ rows[o].token = Upper
       /\ Near(rows[o].amount, c.amount) /\ OldEnough(rows[o], c)

(* A request that sees the other orders: CheckCollision compares in        *)
(* capitals, AllocateUniqueAmount only when the client writes capitals,    *)
(* and it tests the amount it hands out only when Round(6) drops nothing.  *)
SeesOthers(q) == q.base # 0 => q.token = Upper /\ q.base % 10 = 0

(* While an order is EXPIRED with an amount, a request that sees it gives  *)
(* that amount to no other order before the quarantine after the deadline  *)
(* is over (pool_manager.go:69-71 and 134), although check and write are   *)
(* two statements and the quarantine is measured from updated_at.          *)
QuarantineRespected ==
  [][\A r \in Registrars, p \in Orders : LET q == reg[r] IN
       /\ q.phase = "save" /\ reg'[r].phase = "idle" /\ SeesOthers(q)
       /\ q.order # p /\ rows' = [rows EXCEPT ![q.order] = Watched(q)]
       /\ rows[p].status = "EXPIRED" /\ rows[p].amount = q.amount
       => rows[p].expires < now - Cooldown]_vars

(* ErrParamMutation (service/intent.go:24 and 77-80): an order that is     *)
(* being watched keeps its amount and its deadline for as long as it is,   *)
(* also when requests for it race in one process; only a request in        *)
(* another spelling of the token, which has a lock of its own, changes     *)
(* them, and the spelling with them.                                       *)
WatchedTermsAreFixed ==
  [][\A o \in Orders :
       /\ rows[o].status = "WATCHING" /\ rows'[o].status = "WATCHING"
       /\ rows'[o].token = rows[o].token
       => rows'[o].amount = rows[o].amount /\ rows'[o].expires = rows[o].expires]_vars

(* The order graph (doc/flow.md:295-313), as far as the code keeps it: a   *)
(* credited order stays with its transfer and does not fall back from PAID *)
(* to CONFIRMING, whatever is settled from a copy; only a request or a     *)
(* cancellation takes it back.                                             *)
Life == INSTANCE OrderLife WITH status <- [o \in Orders |-> rows[o].status],
                                credit <- [o \in Orders |-> rows[o].tx]

ImplementsOrderLife == Life!Spec

(* doc/flow.md:310: PAID is final.  Violated: Save writes back a copy that *)
(* was read before the payment.                                            *)
PaidIsFinal ==
  [][\A o \in Orders : rows[o].status = "PAID" => rows'[o].status = "PAID"]_vars

(* doc/flow.md:178-179: a transfer is not credited twice.  Violated: it is *)
(* marked only when its order is PAID, and may be delivered before.        *)
OneTransferOneOrder ==
  \A o, p \in Orders : /\ rows[o].status \in {"CONFIRMING", "PAID"}
                       /\ rows[p].status \in {"CONFIRMING", "PAID"}
                       /\ rows[o].tx = rows[p].tx
                       => o = p

(* matcher.go:237-238: a transfer is matched only to an order created      *)
(* before it or about when it was made.  Violated: re-activation keeps     *)
(* created_at, so a transfer of the past can pay the new registration.     *)
NoPastTransferPays ==
  \A o \in Orders : rows[o].status = "PAID" =>
    rows[o].expires - Timeout <= chain[rows[o].tx].mined + Tolerance

(* Worker: an order whose transfer is deep and valid does not stay         *)
(* CONFIRMING for ever, also across restarts, unless startup gave up.      *)
Payment(o, x) == rows[o].status = "CONFIRMING" /\ rows[o].tx = x /\ Verified(x)

DeepPaymentsSettle ==
  \A o \in Orders, x \in Transfers : Payment(o, x) ~> (~Payment(o, x) \/ ~up)
===============================================================================
