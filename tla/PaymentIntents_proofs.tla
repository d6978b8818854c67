------------------------- MODULE PaymentIntents_proofs -------------------------
(***************************************************************************)
(* What holds of PaymentIntents for every set of orders, transfers,        *)
(* registrars and amounts, and for every setting of the clock.             *)
(*                                                                         *)
(* The properties are not inductive: a handler writes back a row it read   *)
(* earlier, so the invariant speaks of the copies in reg, mt and cn too.   *)
(* RowChanges says once what a step can do to a row; every lemma after it  *)
(* goes through that list and not through the actions.                     *)
(***************************************************************************)
EXTENDS PaymentIntents, TLAPS

(* What a transfer must be for an order to be settled with it. *)
PayableWith(row, x, ch) == /\ x \in Transfers /\ ch[x] # NotMined /\ row.token = Upper
                           /\ Near(row.amount, ch[x].amount) /\ OldEnough(row, ch[x])

OwnKey(row) == row.key # NoKey => row.key = row.amount

RowInv ==
  \A o \in Orders :
    /\ rows[o].status # "NONE" => rows[o].amount \in Amounts
    /\ rows[o].key # NoKey => Active(rows[o]) /\ rows[o].key = rows[o].amount
    /\ rows[o].status = "WATCHING" => rows[o].key = rows[o].amount
    /\ rows[o].status = "EXPIRED" => rows[o].expires <= rows[o].updated
    /\ rows[o].status \in {"CONFIRMING", "PAID"} => PayableWith(rows[o], rows[o].tx, chain)

KeysUnique == \A o, p \in Orders : rows[o].key # NoKey /\ rows[o].key = rows[p].key => o = p

(* The copies that a handler will write back. *)
MatcherInv == /\ mt.phase # "idle" => mt.tr \in Transfers /\ chain[mt.tr] # NotMined
              /\ mt.phase = "settle" => /\ mt.row.amount \in Amounts
                                        /\ OwnKey(mt.row) /\ PayableWith(mt.row, mt.tr, chain)

RequestInv == /\ \A r \in Registrars : /\ reg[r].phase \in {"check", "save"} => reg[r].amount \in Amounts
                                       /\ reg[r].phase = "pick" => reg[r].base \in Bases
              /\ cn.phase = "save" => cn.row.amount \in Amounts

(* What the startup replay will feed the matcher is on chain. *)
RecordedInv == /\ \A x \in Transfers : x \in recovery \/ matched[x] = NoOrder => chain[x] # NotMined
               /\ wk.phase # "idle" => wk.order \in Orders

IInv == TypeOK /\ RowInv /\ KeysUnique /\ MatcherInv /\ RequestInv /\ RecordedInv

-------------------------------------------------------------------------------
(* The eight ways in which a step can change the row of an order. *)
Alone(o) == \A p \in Orders \ {o} : rows'[p] = rows[p]
Requested(o) == \E r \in Registrars : /\ reg[r].phase = "save" /\ reg[r].order = o
                                      /\ KeyFree(o, reg[r].amount) /\ Alone(o)
                                      /\ rows'[o] = Watched(reg[r])
                                      /\ SaveRequest(r)
Cancelling(o) == cn.phase = "save" /\ o = cn.order /\ rows'[o] = Cancelled(cn.row)
Expiring(o) == Overdue(rows[o]) /\ rows'[o] = Expired(rows[o])
Settling(o) == /\ mt.phase = "settle" /\ o = mt.order /\ mt' = IdleMatcher
               /\ \/ rows'[o] = Confirming(mt.row, mt.tr) /\ KeyFree(o, mt.row.key) /\ Alone(o)
                  \/ rows'[o] = PaidBy(mt.row, mt.tr)
Paying(o) == rows[o].status = "CONFIRMING" /\ rows'[o] = PaidBy(rows[o], rows[o].tx)
Counting(o) == rows[o].status = "CONFIRMING" /\ rows'[o] = [rows[o] EXCEPT !.updated = now]
Keying(o) == /\ o \in Keyless /\ rows'[o] = [rows[o] EXCEPT !.key = rows[o].amount]
             /\ \E S \in SUBSET Keyless : o \in S /\ CanTakeKeys(S) /\ rows' = Keyed(S)

Changed(o) == \/ Requested(o) \/ Cancelling(o) \/ Expiring(o) \/ Settling(o)
              \/ Paying(o) \/ Counting(o) \/ Keying(o)

LEMMA RowChanges ==
  ASSUME TypeOK, [Next]_vars, NEW o \in Orders
  PROVE  rows'[o] = rows[o] \/ Changed(o)
<1> USE DEF TypeOK, Changed
<1>1. ASSUME NEW r \in Registrars, SaveRequest(r) PROVE rows'[o] = rows[o] \/ Requested(o)
  BY <1>1 DEF SaveRequest, Requested, Writable, Write, Watched, Alone
<1>2. ASSUME SaveCancel PROVE rows'[o] = rows[o] \/ Cancelling(o)
  BY <1>2 DEF SaveCancel, Cancelling, Write
<1>3. ASSUME CleanExpired PROVE rows'[o] = rows[o] \/ Expiring(o)
  BY <1>3 DEF CleanExpired, Expiring
<1>4. ASSUME SettleConfirming PROVE rows'[o] = rows[o] \/ Settling(o)
  <2>1. Confirming(mt.row, mt.tr).key = mt.row.key
    BY DEF Confirming, Row
  <2> QED BY <1>4, <2>1 DEF SettleConfirming, Settling, Write, Writable, Alone
<1>5. ASSUME SettlePaid PROVE rows'[o] = rows[o] \/ Settling(o)
  BY <1>5 DEF SettlePaid, Settling, Write
<1>6. ASSUME PayConfirming PROVE rows'[o] = rows[o] \/ Paying(o)
  BY <1>6 DEF PayConfirming, Paying, Write, Payable
<1>7. ASSUME NEW p \in Orders, NEW x \in Transfers, CountConfirmations(p, x)
      PROVE  rows'[o] = rows[o] \/ Counting(o)
  BY <1>7 DEF CountConfirmations, Counting
<1>8. ASSUME Restart PROVE rows'[o] = rows[o] \/ Keying(o)
  <2>1. PICK S \in SUBSET Keyless : CanTakeKeys(S) /\ rows' = Keyed(S)
    BY <1>8 DEF Restart
  <2> QED BY <2>1 DEF Keyed, Keying
<1> QED
  BY <1>1, <1>2, <1>3, <1>4, <1>5, <1>6, <1>7, <1>8
  DEF Next, vars, Requests, Matcher, Worker, Blockchain, BeginRequest, Register, Allocate,
      CheckCollision, PickAmount, Cancel, Receive, Reprocess, QueryWatching, QueryExpired,
      SettleFails, ListConfirming, SkipConfirming, VerifyConfirming, MarkTransfer,
      Deepen, Reorganise, Mine, Tick

-------------------------------------------------------------------------------
(* Type correctness. *)
LEMMA RowForms ==
  ASSUME NEW row \in Row, NEW x \in Transfers \cup {NoTransfer}, now \in Clock
  PROVE  /\ {Confirming(row, x), PaidBy(row, x), Cancelled(row), Expired(row)} \subseteq Row
         /\ [row EXCEPT !.updated = now] \in Row
         /\ row.amount \in Amounts => [row EXCEPT !.key = row.amount] \in Row
<1> USE DEF Row, Statuses
<1>1. Confirming(row, x) \in Row BY DEF Confirming
<1>2. PaidBy(row, x) \in Row BY DEF PaidBy
<1>3. Cancelled(row) \in Row BY DEF Cancelled
<1>4. Expired(row) \in Row BY DEF Expired
<1>5. [row EXCEPT !.updated = now] \in Row OBVIOUS
<1>6. row.amount \in Amounts => [row EXCEPT !.key = row.amount] \in Row OBVIOUS
<1> QED BY <1>1, <1>2, <1>3, <1>4, <1>5, <1>6

LEMMA NoRowType == NoRow \in Row
BY ClockAssumption, SpellingsAssumption DEF NoRow, Row, Statuses, Clock

LEMMA WatchedType ==
  ASSUME TypeOK, NEW r \in Registrars, reg[r].amount \in Amounts
  PROVE  Watched(reg[r]) \in Row
<1>1. reg[r].row \in Row /\ reg[r].token \in Spellings /\ now \in Clock /\ now + Timeout \in Nat
  BY ClockAssumption DEF TypeOK, Request, Clock
<1> QED BY <1>1 DEF Watched, Row, Statuses

LEMMA TypeInit == Init => TypeOK
BY NoRowType, ClockAssumption, NilAssumption, SpellingsAssumption
DEF Init, TypeOK, Clock, Request, IdleMatcher, IdleWorker, IdleRequest, IdleCancel

LEMMA RowsType ==
  ASSUME IInv, [Next]_vars
  PROVE  rows' \in [Orders -> Row]
<1> USE DEF IInv
<1> USE RowForms
<1>0. now \in Clock /\ rows \in [Orders -> Row]
  BY DEF TypeOK
<1>1. ASSUME NEW r \in Registrars, SaveRequest(r) PROVE rows' \in [Orders -> Row]
  BY <1>0, <1>1, WatchedType DEF SaveRequest, Write, RequestInv
<1>2. ASSUME SaveCancel PROVE rows' \in [Orders -> Row]
  BY <1>0, <1>2 DEF SaveCancel, Write, TypeOK
<1>3. ASSUME CleanExpired PROVE rows' \in [Orders -> Row]
  BY <1>0, <1>3 DEF CleanExpired
<1>4. ASSUME SettleConfirming PROVE rows' \in [Orders -> Row]
  BY <1>0, <1>4 DEF SettleConfirming, Write, TypeOK
<1>5. ASSUME SettlePaid PROVE rows' \in [Orders -> Row]
  BY <1>0, <1>5 DEF SettlePaid, Write, TypeOK
<1>6. ASSUME PayConfirming PROVE rows' \in [Orders -> Row]
  <2>1. CASE wk.order \in Orders
    <3>1. rows[wk.order].tx \in Transfers \cup {NoTransfer}
      BY <1>0, <2>1 DEF Row
    <3>2. PaidBy(rows[wk.order], rows[wk.order].tx) \in Row
      BY <1>0, <2>1, <3>1
    <3> QED BY <1>0, <1>6, <3>2 DEF PayConfirming, Write
  <2>2. CASE wk.order \notin Orders
    BY <1>0, <1>6, <2>2 DEF PayConfirming, Write
  <2> QED BY <2>1, <2>2
<1>7. ASSUME NEW p \in Orders, NEW x \in Transfers, CountConfirmations(p, x)
      PROVE  rows' \in [Orders -> Row]
  <2>1. [rows EXCEPT ![p].updated = now] = [rows EXCEPT ![p] = [rows[p] EXCEPT !.updated = now]]
    OBVIOUS
  <2> QED BY <1>0, <1>7, <2>1 DEF CountConfirmations
<1>8. ASSUME Restart PROVE rows' \in [Orders -> Row]
  <2>1. PICK S \in SUBSET Keyless : rows' = Keyed(S)
    BY <1>8 DEF Restart
  <2>2. \A o \in S : rows[o].amount \in Amounts
    BY DEF Keyless, Active, RowInv
  <2> QED BY <1>0, <2>1, <2>2 DEF Keyed, Keyless
<1> QED
  BY <1>0, <1>1, <1>2, <1>3, <1>4, <1>5, <1>6, <1>7, <1>8
  DEF Next, vars, Requests, Matcher, Worker, Blockchain, BeginRequest, Register, Allocate,
      CheckCollision, PickAmount, Cancel, Receive, Reprocess, QueryWatching, QueryExpired,
      SettleFails, ListConfirming, SkipConfirming, VerifyConfirming, MarkTransfer,
      Deepen, Reorganise, Mine, Tick

(* Who changes the variables other than rows. *)
MatcherMoves == \/ \E x \in Transfers : Receive(x) \/ Reprocess(x)
                \/ QueryWatching \/ QueryExpired
WorkerMoves == \/ ListConfirming \/ PayConfirming \/ MarkTransfer
               \/ \E o \in Orders, x \in Transfers :
                    CountConfirmations(o, x) \/ SkipConfirming(o, x) \/ VerifyConfirming(o, x)
RegistrarMoves(r) == \/ \E o \in Orders, t \in Spellings, b \in Bases : Allocate(r, o, t, b)
                     \/ \E o \in Orders, t \in Spellings, a \in Amounts : Register(r, o, t, a)
                     \/ CheckCollision(r) \/ PickAmount(r) \/ SaveRequest(r)

LEMMA Frame ==
  ASSUME [Next]_vars
  PROVE  /\ mt' = mt \/ mt' = IdleMatcher \/ MatcherMoves
         /\ wk' = wk \/ wk' = IdleWorker \/ WorkerMoves
         /\ cn' = cn \/ cn' = IdleCancel \/ \E o \in Orders : Cancel(o)
         /\ chain' = chain \/ Blockchain
         /\ matched' = matched \/ SettlePaid \/ MarkTransfer \/ \E x \in Transfers : Receive(x)
         /\ \/ reg' = reg \/ reg' = [r \in Registrars |-> IdleRequest]
            \/ \E r \in Registrars : RegistrarMoves(r)
         /\ now' = now \/ Tick
         /\ UNCHANGED <<recovery, restarts, up>> \/ Restart \/ \E x \in Transfers : Reprocess(x)
<1>1. CASE Requests
  BY <1>1 DEF Requests, Register, Allocate, BeginRequest, CheckCollision, PickAmount, SaveRequest,
              Cancel, SaveCancel, RegistrarMoves
<1>2. CASE Matcher
  BY <1>2 DEF Matcher, Receive, Reprocess, QueryWatching, QueryExpired, SettleConfirming,
              SettlePaid, SettleFails, MatcherMoves
<1>3. CASE Worker
  BY <1>3 DEF Worker, ListConfirming, CountConfirmations, SkipConfirming, VerifyConfirming,
              PayConfirming, MarkTransfer, WorkerMoves
<1>4. CASE CleanExpired \/ Blockchain \/ Tick
  BY <1>4 DEF CleanExpired, Blockchain, Mine, Deepen, Reorganise, Tick
<1>5. CASE Restart
  BY <1>5 DEF Restart
<1>6. CASE UNCHANGED vars
  BY <1>6 DEF vars
<1> QED BY <1>1, <1>2, <1>3, <1>4, <1>5, <1>6 DEF Next

(* The copies, lists and phases of the handlers. *)
LEMMA HandlersType ==
  ASSUME IInv, [Next]_vars
  PROVE  /\ mt' \in [phase : {"idle", "query", "late", "settle"}, tr : Transfers \cup {NoTransfer},
                     order : Orders \cup {NoOrder}, row : Row]
         /\ wk' \in [phase : {"idle", "pay", "mark"}, order : Orders \cup {NoOrder},
                     tr : Transfers \cup {NoTransfer}, todo : SUBSET (Orders \X Transfers)]
         /\ cn' \in [phase : {"idle", "save"}, order : Orders \cup {NoOrder}, row : Row]
<1> USE DEF IInv
<1>1. mt' \in [phase : {"idle", "query", "late", "settle"}, tr : Transfers \cup {NoTransfer},
               order : Orders \cup {NoOrder}, row : Row]
  <2> USE NoRowType DEF TypeOK, IdleMatcher
  <2>1. ASSUME NEW x \in Transfers, Receive(x) \/ Reprocess(x) PROVE <1>1!:
    BY <2>1 DEF Receive, Reprocess
  <2>2. ASSUME NEW o \in Orders, mt' = Chosen(o) PROVE <1>1!:
    BY <2>2 DEF Chosen
  <2>3. CASE QueryWatching
    BY <2>2, <2>3 DEF QueryWatching, Watching
  <2>4. CASE QueryExpired
    BY <2>2, <2>4 DEF QueryExpired, Recoverable
  <2> QED BY <2>1, <2>3, <2>4, Frame DEF MatcherMoves
<1>2. wk' \in [phase : {"idle", "pay", "mark"}, order : Orders \cup {NoOrder},
               tr : Transfers \cup {NoTransfer}, todo : SUBSET (Orders \X Transfers)]
  <2> USE DEF TypeOK, IdleWorker
  <2>1. CASE ListConfirming
    BY <2>1 DEF ListConfirming
  <2>2. ASSUME NEW o \in Orders, NEW x \in Transfers,
               CountConfirmations(o, x) \/ SkipConfirming(o, x) \/ VerifyConfirming(o, x)
        PROVE  <1>2!:
    BY <2>2 DEF CountConfirmations, SkipConfirming, VerifyConfirming
  <2>3. CASE PayConfirming \/ MarkTransfer
    BY <2>3 DEF PayConfirming, MarkTransfer
  <2> QED BY <2>1, <2>2, <2>3, Frame DEF WorkerMoves
<1>3. cn' \in [phase : {"idle", "save"}, order : Orders \cup {NoOrder}, row : Row]
  <2> USE NoRowType DEF TypeOK, IdleCancel
  <2>1. ASSUME NEW o \in Orders, Cancel(o) PROVE <1>3!:
    BY <2>1 DEF Cancel
  <2> QED BY <2>1, Frame
<1> QED BY <1>1, <1>2, <1>3

LEMMA RegistrarsType ==
  ASSUME IInv, [Next]_vars
  PROVE  reg' \in [Registrars -> Request] /\ RequestInv'
<1> DEFINE Fine(q) == /\ q \in Request
                      /\ q.phase \in {"check", "save"} => q.amount \in Amounts
                      /\ q.phase = "pick" => q.base \in Bases
<1> USE DEF IInv
<1>0. reg \in [Registrars -> Request] /\ \A r \in Registrars : Fine(reg[r])
  BY DEF TypeOK, RequestInv
<1>1. Fine(IdleRequest)
  BY NoRowType, SpellingsAssumption DEF IdleRequest, Request
<1>2. ASSUME NEW r \in Registrars, NEW q, Fine(q), reg' = [reg EXCEPT ![r] = q]
      PROVE  reg' \in [Registrars -> Request] /\ \A s \in Registrars : Fine(reg'[s])
  <2> HIDE DEF Fine
  <2>1. q \in Request BY <1>2 DEF Fine
  <2> QED BY <1>0, <1>2, <2>1
<1>3. ASSUME NEW r \in Registrars, RegistrarMoves(r)
      PROVE  \E q : Fine(q) /\ reg' = [reg EXCEPT ![r] = q]
  <2>1. ASSUME NEW o \in Orders, NEW t \in Spellings, NEW b \in Bases, Allocate(r, o, t, b)
        PROVE  \E q : Fine(q) /\ reg' = [reg EXCEPT ![r] = q]
    <3>1. Fine([phase |-> "pick", order |-> o, token |-> t, base |-> b, amount |-> 0, row |-> rows[o]])
      BY DEF TypeOK, Request
    <3>2. reg' = [reg EXCEPT ![r] = [phase |-> "pick", order |-> o, token |-> t, base |-> b,
                                     amount |-> 0, row |-> rows[o]]]
      BY <2>1 DEF Allocate, BeginRequest
    <3> HIDE DEF Fine
    <3> QED BY <3>1, <3>2
  <2>2. ASSUME NEW o \in Orders, NEW t \in Spellings, NEW a \in Amounts, Register(r, o, t, a)
        PROVE  \E q : Fine(q) /\ reg' = [reg EXCEPT ![r] = q]
    <3>1. Fine([phase |-> "check", order |-> o, token |-> t, base |-> 0, amount |-> a, row |-> rows[o]])
      BY DEF TypeOK, Request
    <3>2. reg' = [reg EXCEPT ![r] = [phase |-> "check", order |-> o, token |-> t, base |-> 0,
                                     amount |-> a, row |-> rows[o]]]
      BY <2>2 DEF Register, BeginRequest
    <3> HIDE DEF Fine
    <3> QED BY <3>1, <3>2
  <2>3. CASE CheckCollision(r)
    <3>1. reg[r].phase = "check" => Fine([reg[r] EXCEPT !.phase = "save"])
      BY <1>0 DEF Request
    <3> HIDE DEF Fine
    <3> QED BY <1>1, <2>3, <3>1 DEF CheckCollision
  <2>4. CASE PickAmount(r)
    <3>1. \A a \in Amounts : Fine([reg[r] EXCEPT !.phase = "save", !.amount = a])
      BY <1>0 DEF Request
    <3>2. \/ reg' = [reg EXCEPT ![r] = IdleRequest]
          \/ \E t \in Tails : /\ reg[r].phase = "pick"
                              /\ reg' = [reg EXCEPT ![r] = [reg[r] EXCEPT !.phase = "save",
                                                                !.amount = Rounded(reg[r].base, t)]]
      BY <2>4 DEF PickAmount
    <3>3. \A t \in Tails : reg[r].phase = "pick" => Rounded(reg[r].base, t) \in Amounts
      BY <1>0, AllocationAssumption
    <3> HIDE DEF Fine
    <3> QED BY <1>1, <3>1, <3>2, <3>3
  <2>5. CASE SaveRequest(r)
    <3> HIDE DEF Fine
    <3> QED BY <1>1, <2>5 DEF SaveRequest
  <2> HIDE DEF Fine
  <2> QED BY <1>3, <2>1, <2>2, <2>3, <2>4, <2>5 DEF RegistrarMoves
<1>4. reg' \in [Registrars -> Request] /\ \A r \in Registrars : Fine(reg'[r])
  <2> HIDE DEF Fine
  <2>1. IdleRequest \in Request BY <1>1 DEF Fine
  <2> QED BY <1>0, <1>1, <1>2, <1>3, <2>1, Frame
<1>5. (cn.phase = "save" => cn.row.amount \in Amounts)'
  <2>1. ASSUME NEW o \in Orders, Cancel(o) PROVE <1>5
    BY <2>1 DEF Cancel, RowInv
  <2> QED BY <2>1, Frame DEF RequestInv, IdleCancel
<1> QED BY <1>4, <1>5 DEF RequestInv

LEMMA TypeStep ==
  ASSUME IInv, [Next]_vars
  PROVE  TypeOK'
<1> USE DEF IInv
<1>1. now' \in Clock
  BY Frame, ClockAssumption DEF TypeOK, Tick, Clock
<1>2. chain' \in [Transfers -> OnChain \cup {NotMined}]
  <2>1. ASSUME NEW x \in Transfers, Deepen(x) \/ Reorganise(x) PROVE <1>2
    <3>1. chain[x] \in OnChain
      BY <2>1 DEF Deepen, Reorganise, TypeOK
    <3>2. {[chain[x] EXCEPT !.deep = TRUE], [chain[x] EXCEPT !.valid = FALSE]} \subseteq OnChain
      BY <3>1 DEF OnChain
    <3>3. \/ chain' = [chain EXCEPT ![x] = [chain[x] EXCEPT !.deep = TRUE]]
          \/ chain' = [chain EXCEPT ![x] = [chain[x] EXCEPT !.valid = FALSE]]
      BY <2>1 DEF Deepen, Reorganise
    <3> QED BY <3>2, <3>3 DEF TypeOK
  <2>2. ASSUME NEW x \in Transfers, NEW a \in Amounts, Mine(x, a) PROVE <1>2
    BY <2>2 DEF Mine, TypeOK, OnChain
  <2> QED BY <2>1, <2>2, Frame DEF Blockchain, TypeOK
<1>3. matched' \in [Transfers -> Orders \cup {NoOrder, NotRecorded}]
  <2>1. ASSUME NEW x \in Transfers, Receive(x) PROVE <1>3
    BY <2>1 DEF Receive, TypeOK
  <2>2. CASE SettlePaid
    BY <2>2 DEF SettlePaid, TypeOK
  <2>3. CASE MarkTransfer
    BY <2>3 DEF MarkTransfer, TypeOK
  <2> QED BY <2>1, <2>2, <2>3, Frame DEF TypeOK
<1>4. recovery' \in SUBSET Transfers /\ up' \in BOOLEAN /\ restarts' \in 0 .. MaxRestarts
  <2>1. ASSUME NEW x \in Transfers, Reprocess(x) PROVE <1>4
    BY <2>1 DEF Reprocess, TypeOK
  <2>2. CASE Restart
    <3>1. restarts + 1 \in 0 .. MaxRestarts
      BY <2>2, ClockAssumption DEF Restart, TypeOK
    <3>2. recovery' \in SUBSET Transfers /\ up' \in BOOLEAN
      BY <2>2 DEF Restart
    <3> QED BY <2>2, <3>1, <3>2 DEF Restart
  <2> QED BY <2>1, <2>2, Frame DEF TypeOK
<1> QED BY <1>1, <1>2, <1>3, <1>4, RowsType, HandlersType, RegistrarsType DEF TypeOK

THEOREM IntentsInit == Init => IInv
BY TypeInit, NilAssumption
DEF Init, IInv, TypeOK, RowInv, KeysUnique, MatcherInv, RequestInv, RecordedInv, NoRow,
    IdleMatcher, IdleWorker, IdleRequest, IdleCancel, Active

-------------------------------------------------------------------------------
(* A transfer on chain keeps its amount and its block time, so what has    *)
(* been payable with it stays payable with it.                             *)
LEMMA ChainGrows ==
  ASSUME TypeOK, [Next]_vars, NEW x \in Transfers, chain[x] # NotMined
  PROVE  chain'[x] # NotMined /\ chain'[x].amount = chain[x].amount /\ chain'[x].mined = chain[x].mined
<1>1. ASSUME NEW y \in Transfers, Deepen(y) \/ Reorganise(y)
      PROVE  chain'[x] # NotMined /\ chain'[x].amount = chain[x].amount /\ chain'[x].mined = chain[x].mined
  <2>1. chain[x] \in OnChain
    BY DEF TypeOK
  <2>2. chain'[x] \in {chain[x], [chain[x] EXCEPT !.deep = TRUE], [chain[x] EXCEPT !.valid = FALSE]}
    BY <1>1 DEF Deepen, Reorganise, TypeOK
  <2>3. {[chain[x] EXCEPT !.deep = TRUE], [chain[x] EXCEPT !.valid = FALSE]} \subseteq OnChain
    BY <2>1 DEF OnChain
  <2>4. chain'[x] \in OnChain /\ NotMined \notin OnChain
    BY <2>1, <2>2, <2>3, NotMinedAssumption
  <2> QED BY <2>1, <2>2, <2>4 DEF OnChain
<1>2. ASSUME NEW y \in Transfers, NEW a \in Amounts, Mine(y, a) PROVE chain'[x] = chain[x]
  BY <1>2 DEF Mine, TypeOK
<1> QED BY <1>1, <1>2, Frame DEF Blockchain

LEMMA PayableStep ==
  ASSUME TypeOK, [Next]_vars, NEW row, NEW x, PayableWith(row, x, chain)
  PROVE  PayableWith(row, x, chain')
BY ChainGrows DEF PayableWith, OldEnough

LEMMA RowsStep ==
  ASSUME IInv, [Next]_vars
  PROVE  RowInv'
<1> SUFFICES ASSUME NEW o \in Orders
             PROVE  (/\ rows[o].status # "NONE" => rows[o].amount \in Amounts
                     /\ rows[o].key # NoKey => Active(rows[o]) /\ rows[o].key = rows[o].amount
                     /\ rows[o].status = "WATCHING" => rows[o].key = rows[o].amount
                     /\ rows[o].status = "EXPIRED" => rows[o].expires <= rows[o].updated
                     /\ rows[o].status \in {"CONFIRMING", "PAID"} => PayableWith(rows[o], rows[o].tx, chain))'
  BY DEF RowInv
<1> USE DEF IInv, Active
<1>0. rows[o] \in Row /\ now \in Clock
  BY DEF TypeOK
<1>1. CASE rows'[o] = rows[o]
  BY <1>1, PayableStep DEF RowInv
<1>2. CASE Requested(o)
  BY <1>2 DEF Requested, Watched, RequestInv
<1>3. CASE Cancelling(o)
  BY <1>3 DEF Cancelling, Cancelled, RequestInv, TypeOK, Row
<1>4. CASE Expiring(o)
  BY <1>4, <1>0 DEF Expiring, Expired, Overdue, RowInv, Row, Clock
<1>5. CASE Settling(o)
  <2>1. mt.row \in Row /\ mt.tr \in Transfers /\ PayableWith(mt.row, mt.tr, chain')
    BY <1>5, PayableStep DEF Settling, MatcherInv, TypeOK
  <2>2. /\ mt.row.amount \in Amounts /\ OwnKey(mt.row)
        /\ PayableWith(rows'[o], mt.tr, chain') /\ rows'[o].tx = mt.tr
    BY <1>5, <2>1 DEF Settling, Confirming, PaidBy, MatcherInv, Row, PayableWith, OldEnough
  <2> QED BY <1>5, <2>1, <2>2 DEF Settling, Confirming, PaidBy, Row, OwnKey
<1>6. CASE Paying(o) \/ Counting(o)
  <2>1. PayableWith(rows[o], rows[o].tx, chain')
    BY <1>6, PayableStep DEF Paying, Counting, RowInv
  <2>2. PayableWith(rows'[o], rows'[o].tx, chain')
    BY <1>0, <1>6, <2>1 DEF Paying, Counting, PaidBy, Row, PayableWith, OldEnough
  <2> QED BY <1>0, <1>6, <2>2 DEF Paying, Counting, PaidBy, Row, RowInv
<1>7. CASE Keying(o)
  <2>1. rows[o].status = "CONFIRMING" => PayableWith(rows[o], rows[o].tx, chain')
    BY PayableStep DEF RowInv
  <2>2. rows[o].status = "CONFIRMING" => PayableWith(rows'[o], rows'[o].tx, chain')
    BY <1>0, <1>7, <2>1 DEF Keying, Row, PayableWith, OldEnough
  <2> QED BY <1>0, <1>7, <2>2 DEF Keying, Keyless, Row, RowInv
<1> QED BY RowChanges, <1>1, <1>2, <1>3, <1>4, <1>5, <1>6, <1>7 DEF Changed

(* The unique index keeps the keys apart: three ways of changing a row set *)
(* its key, all of them are refused when another row holds it, and only    *)
(* the backfill sets the keys of several orders in one step.               *)
LEMMA KeysStep ==
  ASSUME IInv, [Next]_vars
  PROVE  KeysUnique'
<1> SUFFICES ASSUME NEW o \in Orders, NEW p \in Orders, o # p,
                    rows'[o].key # NoKey, rows'[o].key = rows'[p].key
             PROVE  FALSE
  BY DEF KeysUnique
<1> USE DEF IInv
<1> DEFINE Taken(q) == rows'[q].key \notin {NoKey, rows[q].key}
<1>1. \A q \in Orders : rows[q] \in Row /\ mt.row \in Row /\ cn.row \in Row
  BY DEF TypeOK
<1>2. ASSUME NEW q \in Orders, Taken(q)
      PROVE  Requested(q) \/ Settling(q) \/ Keying(q)
  BY <1>1, <1>2, RowChanges
  DEF Changed, Cancelling, Cancelled, Expiring, Expired, Paying, PaidBy, Counting, Row
<1>3. ASSUME NEW q \in Orders, NEW q2 \in Orders, q # q2, Taken(q),
             rows'[q].key = rows'[q2].key, rows'[q].key # NoKey
      PROVE  FALSE
  <2>1. CASE Requested(q)
    BY <1>1, <1>3, <2>1 DEF Requested, Watched, KeyFree, Alone
  <2>2. CASE Settling(q)
    <3>1. Confirming(mt.row, mt.tr).key = mt.row.key /\ PaidBy(mt.row, mt.tr).key = NoKey
      BY <1>1 DEF Confirming, PaidBy, Row
    <3>2. rows'[q].key = mt.row.key /\ KeyFree(q, mt.row.key) /\ Alone(q)
      BY <1>3, <2>2, <3>1 DEF Settling
    <3> QED BY <1>3, <3>2 DEF KeyFree, Alone
  <2>3. CASE Keying(q)
    <3>1. PICK S \in SUBSET Keyless : q \in S /\ CanTakeKeys(S) /\ rows' = Keyed(S)
      BY <2>3 DEF Keying
    <3>2. rows'[q].key = rows[q].amount
      BY <1>1, <3>1 DEF Keyed, Row
    <3>3. rows'[q2].key = IF q2 \in S THEN rows[q2].amount ELSE rows[q2].key
      BY <1>1, <3>1 DEF Keyed, Row
    <3> QED BY <1>1, <1>3, <3>1, <3>2, <3>3 DEF CanTakeKeys, KeyFree
  <2> QED BY <1>2, <1>3, <2>1, <2>2, <2>3
<1> QED BY <1>3 DEF KeysUnique

LEMMA MatcherStep ==
  ASSUME IInv, [Next]_vars
  PROVE  MatcherInv'
<1> USE DEF IInv
<1>1. ASSUME NEW x \in Transfers, Receive(x) \/ Reprocess(x) PROVE MatcherInv'
  BY <1>1, ChainGrows DEF Receive, Reprocess, MatcherInv, RecordedInv, IdleMatcher
<1>2. ASSUME NEW o \in Orders, mt' = Chosen(o), mt.phase # "idle", chain' = chain,
             rows[o].status \in {"WATCHING", "EXPIRED"},
             Fits(rows[o], chain[mt.tr])
      PROVE  MatcherInv'
  BY <1>2 DEF Chosen, MatcherInv, RowInv, OwnKey, PayableWith, Fits, TypeOK
<1>3. CASE QueryWatching
  BY <1>2, <1>3 DEF QueryWatching, Watching, Fits, MatcherInv, TypeOK
<1>4. CASE QueryExpired
  BY <1>2, <1>4 DEF QueryExpired, Recoverable, Fits, MatcherInv, IdleMatcher
<1>5. CASE mt' = mt
  BY <1>5, ChainGrows, PayableStep DEF MatcherInv
<1>6. CASE mt' = IdleMatcher
  BY <1>6 DEF MatcherInv, IdleMatcher
<1> QED BY <1>1, <1>3, <1>4, <1>5, <1>6, Frame DEF MatcherMoves

LEMMA RecordedStep ==
  ASSUME IInv, [Next]_vars
  PROVE  RecordedInv'
<1> USE DEF IInv
<1>1. ASSUME NEW x \in Transfers, chain[x] = NotMined
      PROVE  x \notin recovery' /\ matched'[x] # NoOrder
  <2>1. x \notin recovery /\ matched[x] # NoOrder
    BY <1>1 DEF RecordedInv
  <2>2. matched'[x] # NoOrder
    <3>1. CASE SettlePaid
      BY <1>1, <2>1, <3>1 DEF SettlePaid, MatcherInv, TypeOK
    <3>2. CASE MarkTransfer
      BY <2>1, <3>2, NilAssumption DEF MarkTransfer, RecordedInv, TypeOK
    <3>3. ASSUME NEW y \in Transfers, Receive(y) PROVE <2>2
      BY <1>1, <2>1, <3>3 DEF Receive, TypeOK
    <3> QED BY <2>1, <3>1, <3>2, <3>3, Frame
  <2>3. x \notin recovery'
    BY <2>1, Frame DEF Restart, Reprocess
  <2> QED BY <2>2, <2>3
<1>2. (wk.phase # "idle" => wk.order \in Orders)'
  <2>1. CASE ListConfirming
    BY <2>1 DEF ListConfirming, RecordedInv, TypeOK
  <2>2. ASSUME NEW o \in Orders, NEW x \in Transfers,
               CountConfirmations(o, x) \/ SkipConfirming(o, x) \/ VerifyConfirming(o, x)
        PROVE  <1>2
    BY <2>2 DEF CountConfirmations, SkipConfirming, VerifyConfirming, RecordedInv, TypeOK
  <2>3. CASE PayConfirming \/ MarkTransfer
    BY <2>3 DEF PayConfirming, MarkTransfer, RecordedInv, TypeOK, IdleWorker
  <2> QED BY <2>1, <2>2, <2>3, Frame DEF WorkerMoves, RecordedInv, IdleWorker
<1> QED BY <1>1, <1>2, ChainGrows DEF RecordedInv

-------------------------------------------------------------------------------
(* The invariant, and what follows from it. *)
THEOREM IntentsInvariant == Spec => []IInv
<1>1. IInv /\ [Next]_vars => IInv'
  BY TypeStep, RowsStep, KeysStep, MatcherStep, RegistrarsType, RecordedStep DEF IInv
<1> QED BY IntentsInit, <1>1, PTL DEF Spec

(* The tables and the handlers' copies are of the declared types.          *)
THEOREM IntentsTypeOK == Spec => []TypeOK
BY IntentsInvariant, PTL DEF IInv

(* models.go:32: a key is held only while the order can receive a payment, *)
(* whatever copy of a row is saved when.                                   *)
THEOREM IntentsKeys == Spec => []KeyOnlyWhileReceivable
<1>1. IInv => KeyOnlyWhileReceivable
  BY DEF IInv, RowInv, KeyOnlyWhileReceivable
<1> QED BY IntentsInvariant, <1>1, PTL

(* No two orders wait for the same amount, with any number of replicas and *)
(* requests: the unique index is enough.                                   *)
THEOREM IntentsDistinctAmounts == Spec => []WatchersHaveDistinctAmounts
<1>1. IInv => WatchersHaveDistinctAmounts
  BY NilAssumption DEF IInv, RowInv, KeysUnique, WatchersHaveDistinctAmounts
<1> QED BY IntentsInvariant, <1>1, PTL

(* An order that is being or has been paid names a mined transfer of its   *)
(* amount that is not older than the order.                                *)
THEOREM IntentsSettled == Spec => []SettledByItsOwnTransfer
<1>1. IInv => SettledByItsOwnTransfer
  BY DEF IInv, RowInv, PayableWith, SettledByItsOwnTransfer
<1> QED BY IntentsInvariant, <1>1, PTL

-------------------------------------------------------------------------------
(* The quarantine.  Between the check and the write of a request the clock *)
(* does not tick, and an order that is written or expired in between is    *)
(* not overdue yet: what the check saw is still true when the row is       *)
(* saved.                                                                  *)
ClearOf(q, ro, t) == \A p \in Orders \ {q.order} :
                       ro[p].amount = q.amount =>
                         /\ ro[p].status = "WATCHING" => ro[p].expires > t
                         /\ ro[p].status = "EXPIRED" => ro[p].expires < t - Cooldown

QuarantineInv ==
  \A r \in Registrars : reg[r].phase = "save" /\ SeesOthers(reg[r]) => ClearOf(reg[r], rows, now)

(* Without a rounding the amount handed out takes the tail that was free. *)
LEMMA ExactAmountTakesItsTail ==
  ASSUME NEW b \in Bases, b % 10 = 0, NEW t \in Tails
  PROVE  Takes(Rounded(b, t), b, t)
<1>1. b \in Int /\ t \in MinTail .. MaxTail /\ {MinTail, MaxTail, TailStep} \subseteq Nat \ {0}
  BY TailAssumption DEF Tails
<1>2. 10 * Rounded(b, t) - b = 10 * t
  BY <1>1 DEF Rounded
<1> QED BY <1>1, <1>2 DEF Takes

LEMMA CheckedIsClear ==
  ASSUME IInv, NEW r \in Registrars, CheckCollision(r) \/ PickAmount(r),
         reg'[r].phase = "save", SeesOthers(reg'[r])
  PROVE  ClearOf(reg'[r], rows, now)
<1> USE DEF IInv
<1>0. reg[r] \in Request /\ DOMAIN reg = Registrars /\ IdleRequest.phase = "idle"
  BY DEF TypeOK, IdleRequest
<1>1. reg'[r].order = reg[r].order /\ reg'[r].token = reg[r].token /\ reg'[r].base = reg[r].base
  <2>1. CASE CheckCollision(r)
    BY <1>0, <2>1 DEF CheckCollision, Request
  <2>2. CASE PickAmount(r)
    BY <1>0, <2>2 DEF PickAmount, Request
  <2> QED BY <2>1, <2>2
<1>2. ASSUME NEW p \in Orders \ {reg[r].order} PROVE ~Occupies(rows[p], reg'[r].amount)
  <2>1. CASE CheckCollision(r)
    BY <1>0, <1>2, <2>1 DEF CheckCollision, Request
  <2>2. CASE PickAmount(r)
    <3>1. reg[r].base \in Bases /\ reg[r].base # 0
      BY <2>2, TailAssumption DEF PickAmount, RequestInv
    <3>2. reg[r].token = Upper /\ reg[r].base % 10 = 0
      BY <1>1, <3>1 DEF SeesOthers
    <3>3. PICK t \in Tails : /\ \A p2 \in Counted(Upper) : ~Takes(rows[p2].amount, reg[r].base, t)
                             /\ reg' = [reg EXCEPT ![r] = [reg[r] EXCEPT !.phase = "save",
                                                               !.amount = Rounded(reg[r].base, t)]]
      BY <1>0, <2>2, <3>2 DEF PickAmount
    <3>4. reg'[r].amount = Rounded(reg[r].base, t)
      BY <1>0, <3>3 DEF Request
    <3>5. Takes(reg'[r].amount, reg[r].base, t)
      BY <3>1, <3>2, <3>4, ExactAmountTakesItsTail
    <3> QED BY <3>3, <3>5 DEF Counted, Occupies
  <2> QED BY <2>1, <2>2
<1>3. ASSUME NEW p \in Orders \ {reg[r].order}, rows[p].amount = reg'[r].amount
      PROVE  /\ rows[p].status # "WATCHING"
             /\ rows[p].status = "EXPIRED" => rows[p].expires < now - Cooldown
  <2>1. rows[p] \in Row /\ now \in Int /\ Cooldown \in Int
    BY ClockAssumption DEF TypeOK, Clock
  <2> QED BY <1>2, <1>3, <2>1, ClockAssumption DEF Occupies, Active, InCooldown, RowInv, Row, Clock
<1> QED BY <1>1, <1>3 DEF ClearOf

LEMMA ClearStays ==
  ASSUME IInv, [Next]_vars, NEW q, ClearOf(q, rows, now)
  PROVE  ClearOf(q, rows', now)
<1> SUFFICES ASSUME NEW p \in Orders \ {q.order}, rows'[p].amount = q.amount
             PROVE  /\ rows'[p].status = "WATCHING" => rows'[p].expires > now
                    /\ rows'[p].status = "EXPIRED" => rows'[p].expires < now - Cooldown
  BY DEF ClearOf
<1> USE DEF IInv
<1>0. rows[p] \in Row /\ mt.row \in Row /\ cn.row \in Row /\ now \in Int
  BY DEF TypeOK, Clock
<1>1. CASE rows'[p] = rows[p]
  BY <1>1 DEF ClearOf
<1>2. CASE Requested(p)
  BY <1>0, <1>2, ClockAssumption DEF Requested, Watched
<1>3. CASE Cancelling(p)
  BY <1>0, <1>3 DEF Cancelling, Cancelled, Row
<1>4. CASE Expiring(p)
  BY <1>0, <1>4 DEF Expiring, Expired, Overdue, Row, ClearOf
<1>5. CASE Settling(p)
  BY <1>0, <1>5 DEF Settling, Confirming, PaidBy, Row
<1>6. CASE Paying(p) \/ Counting(p)
  BY <1>0, <1>6 DEF Paying, Counting, PaidBy, Row
<1>7. CASE Keying(p)
  BY <1>0, <1>7 DEF Keying, Row, ClearOf
<1> QED BY RowChanges, <1>1, <1>2, <1>3, <1>4, <1>5, <1>6, <1>7 DEF Changed

LEMMA QuarantineStep ==
  ASSUME IInv, QuarantineInv, [Next]_vars
  PROVE  QuarantineInv'
<1> SUFFICES ASSUME NEW r \in Registrars, reg'[r].phase = "save", SeesOthers(reg'[r])
             PROVE  ClearOf(reg'[r], rows', now')
  BY DEF QuarantineInv, SeesOthers
<1> USE DEF IInv
<1>1. CASE reg'[r] = reg[r]
  <2>1. now' = now
    BY <1>1, Frame DEF Tick, Quiet
  <2> QED BY <1>1, <2>1, ClearStays DEF QuarantineInv
<1>2. CASE CheckCollision(r) \/ PickAmount(r)
  <2>1. rows' = rows /\ now' = now
    BY <1>2 DEF CheckCollision, PickAmount
  <2> QED BY <1>2, <2>1, CheckedIsClear
<1>3. reg'[r] = reg[r] \/ CheckCollision(r) \/ PickAmount(r)
  <2>1. ASSUME NEW s \in Registrars, RegistrarMoves(s) PROVE <1>3
    <3>1. s # r => reg'[r] = reg[r]
      <4>1. \E q : reg' = [reg EXCEPT ![s] = q]
        BY <2>1 DEF RegistrarMoves, Allocate, Register, BeginRequest, CheckCollision, PickAmount,
                    SaveRequest
      <4> QED BY <4>1 DEF TypeOK
    <3>2. ASSUME NEW o \in Orders, NEW t, NEW a, Register(r, o, t, a) \/ Allocate(r, o, t, a)
          PROVE  reg'[r].phase \in {"check", "pick"}
      BY <3>2 DEF Register, Allocate, BeginRequest, TypeOK
    <3>3. SaveRequest(r) => reg'[r].phase = "idle"
      BY DEF SaveRequest, TypeOK, IdleRequest
    <3> QED BY <2>1, <3>1, <3>2, <3>3 DEF RegistrarMoves
  <2> QED BY <2>1, Frame DEF IdleRequest
<1> QED BY <1>1, <1>2, <1>3

(* While an order is EXPIRED with an amount, no request that sees it gives *)
(* the amount to another order before the quarantine after the deadline is *)
(* over, with one lock or many.                                            *)
THEOREM IntentsQuarantine == Spec => QuarantineRespected
<1>1. Init => QuarantineInv
  BY DEF Init, QuarantineInv, IdleRequest
<1>2. ASSUME IInv, QuarantineInv, [Next]_vars, NEW r \in Registrars, NEW p \in Orders,
             reg[r].phase = "save", SeesOthers(reg[r]), reg[r].order # p,
             rows[p].status = "EXPIRED", rows[p].amount = reg[r].amount
      PROVE  rows[p].expires < now - Cooldown
  BY <1>2 DEF QuarantineInv, ClearOf
<1>3. IInv /\ QuarantineInv /\ [Next]_vars
        => [\A r \in Registrars, p \in Orders : LET q == reg[r] IN
              /\ q.phase = "save" /\ reg'[r].phase = "idle" /\ SeesOthers(q)
              /\ q.order # p /\ rows' = [rows EXCEPT ![q.order] = Watched(q)]
              /\ rows[p].status = "EXPIRED" /\ rows[p].amount = q.amount
              => rows[p].expires < now - Cooldown]_vars
  BY <1>2
<1> QED BY IntentsInvariant, QuarantineStep, <1>1, <1>3, PTL DEF Spec, QuarantineRespected

-------------------------------------------------------------------------------
(* The allocation locks of one process: at most one request is at work in  *)
(* a spelling, and nobody else makes its order WATCHING in it meanwhile.   *)
LockInv ==
  SharedLock =>
    \A r \in Registrars : reg[r].phase # "idle" =>
      /\ \A s \in Registrars \ {r} : reg[s].phase # "idle" => reg[s].token # reg[r].token
      /\ reg[r].order \in Orders /\ rows[reg[r].order].status = "WATCHING"
           => rows[reg[r].order].token # reg[r].token

(* Only a request makes an order WATCHING. *)
SameTerms(o) == /\ rows'[o].amount = rows[o].amount /\ rows'[o].expires = rows[o].expires
                /\ rows'[o].token = rows[o].token

LEMMA OnlyRequestsWatch ==
  ASSUME IInv, [Next]_vars, NEW o \in Orders, rows'[o].status = "WATCHING"
  PROVE  Requested(o) \/ (rows[o].status = "WATCHING" /\ SameTerms(o))
<1>1. rows[o] \in Row /\ mt.row \in Row /\ cn.row \in Row
  BY DEF IInv, TypeOK
<1>2. ~Cancelling(o) /\ ~Settling(o) /\ ~Paying(o) /\ ~Expiring(o) /\ ~Counting(o)
  BY <1>1 DEF Cancelling, Cancelled, Settling, Confirming, Paying, PaidBy, Expiring, Expired,
              Counting, Row
<1>3. Keying(o) => rows[o].status = "WATCHING" /\ SameTerms(o)
  BY <1>1 DEF Keying, Row, SameTerms
<1> QED BY <1>2, <1>3, RowChanges DEF Changed, IInv, SameTerms

(* A request that is at work after a step has just begun or goes on. *)
Begins(r) == /\ LockFree(reg'[r].token) /\ rows' = rows
             /\ \A s \in Registrars \ {r} : reg'[s] = reg[s]
             /\ reg'[r].order \in Orders /\ Reusable(rows[reg'[r].order])
GoesOn(r) == reg[r].phase # "idle" /\ reg'[r].token = reg[r].token /\ reg'[r].order = reg[r].order

LEMMA AtWork ==
  ASSUME IInv, [Next]_vars, NEW r \in Registrars, reg'[r].phase # "idle"
  PROVE  Begins(r) \/ GoesOn(r)
<1>0. reg \in [Registrars -> Request]
  BY DEF IInv, TypeOK
<1>1. CASE reg' = reg
  BY <1>1 DEF GoesOn
<1>2. ASSUME NEW s \in Registrars, RegistrarMoves(s) PROVE Begins(r) \/ GoesOn(r)
  <2>1. CASE s # r
    <3>1. \E q : reg' = [reg EXCEPT ![s] = q]
      BY <1>2 DEF RegistrarMoves, Allocate, Register, BeginRequest, CheckCollision, PickAmount,
                  SaveRequest
    <3>2. reg'[r] = reg[r]
      BY <1>0, <2>1, <3>1
    <3> QED BY <3>2 DEF GoesOn
  <2>2. ASSUME NEW o \in Orders, NEW t, NEW a, Register(r, o, t, a) \/ Allocate(r, o, t, a)
        PROVE  Begins(r)
    BY <1>0, <2>2 DEF Register, Allocate, BeginRequest, Begins
  <2>3. CASE CheckCollision(r)
    BY <1>0, <2>3 DEF CheckCollision, IdleRequest, Request, GoesOn
  <2>4. CASE PickAmount(r)
    <3>1. \/ reg' = [reg EXCEPT ![r] = IdleRequest]
          \/ \E a : reg' = [reg EXCEPT ![r] = [reg[r] EXCEPT !.phase = "save", !.amount = a]]
      BY <2>4 DEF PickAmount
    <3>2. reg' # [reg EXCEPT ![r] = IdleRequest]
      BY <1>0 DEF IdleRequest
    <3>4. PICK a : reg' = [reg EXCEPT ![r] = [reg[r] EXCEPT !.phase = "save", !.amount = a]]
      BY <3>1, <3>2
    <3>3. reg[r].phase # "idle"
      BY <2>4 DEF PickAmount
    <3> QED BY <1>0, <3>3, <3>4 DEF Request, GoesOn
  <2>5. ~SaveRequest(r)
    BY <1>0 DEF SaveRequest, IdleRequest
  <2> QED BY <1>2, <2>1, <2>2, <2>3, <2>4, <2>5 DEF RegistrarMoves
<1> QED BY <1>1, <1>2, Frame DEF IdleRequest

LEMMA LockStep ==
  ASSUME IInv, LockInv, [Next]_vars
  PROVE  LockInv'
<1> SUFFICES ASSUME SharedLock, NEW r \in Registrars, reg'[r].phase # "idle"
             PROVE  /\ \A s \in Registrars \ {r} : reg'[s].phase # "idle" => reg'[s].token # reg'[r].token
                    /\ reg'[r].order \in Orders /\ rows'[reg'[r].order].status = "WATCHING"
                         => rows'[reg'[r].order].token # reg'[r].token
  BY DEF LockInv
<1>1. ASSUME NEW s \in Registrars \ {r}, reg'[s].phase # "idle"
      PROVE  reg'[s].token # reg'[r].token
  <2>1. CASE Begins(r)
    BY <1>1, <2>1 DEF Begins, LockFree
  <2>2. CASE Begins(s)
    BY <1>1, <2>2 DEF Begins, LockFree
  <2>3. CASE GoesOn(r) /\ GoesOn(s)
    BY <1>1, <2>3 DEF GoesOn, LockInv
  <2> QED BY <1>1, <2>1, <2>2, <2>3, AtWork
<1>2. ASSUME NEW o \in Orders, o = reg'[r].order, rows'[o].status = "WATCHING"
      PROVE  rows'[o].token # reg'[r].token
  <2>1. CASE Begins(r)
    BY <1>2, <2>1 DEF Begins, Reusable
  <2>2. CASE GoesOn(r) /\ SameTerms(o) /\ rows[o].status = "WATCHING"
    BY <1>2, <2>2 DEF GoesOn, LockInv, SameTerms
  <2>3. CASE GoesOn(r) /\ Requested(o)
    <3>1. PICK s \in Registrars : /\ reg[s].phase = "save" /\ SaveRequest(s)
                                  /\ rows'[o] = Watched(reg[s])
      BY <2>3 DEF Requested
    <3>2. s # r
      BY <3>1 DEF SaveRequest, IdleRequest, IInv, TypeOK
    <3>3. rows'[o].token = reg[s].token
      BY <3>1 DEF Watched
    <3> QED BY <2>3, <3>1, <3>2, <3>3 DEF GoesOn, LockInv
  <2> QED BY <1>2, <2>1, <2>2, <2>3, AtWork, OnlyRequestsWatch
<1> QED BY <1>1, <1>2

(* ErrParamMutation: in one process, whose locks are one for a spelling,   *)
(* an order that is watched keeps its amount and its deadline, however     *)
(* requests for it race, unless one in another spelling takes it over.     *)
THEOREM IntentsTermsFixed == SharedLock => (Spec => WatchedTermsAreFixed)
<1> SUFFICES ASSUME SharedLock PROVE Spec => WatchedTermsAreFixed
  OBVIOUS
<1>1. Init => LockInv
  BY DEF Init, LockInv, IdleRequest
<1>2. ASSUME IInv, LockInv, [Next]_vars, NEW o \in Orders,
             rows[o].status = "WATCHING", rows'[o].status = "WATCHING",
             rows'[o].token = rows[o].token
      PROVE  rows'[o].amount = rows[o].amount /\ rows'[o].expires = rows[o].expires
  <2>1. ASSUME Requested(o) PROVE FALSE
    <3>1. PICK r \in Registrars : /\ reg[r].phase = "save" /\ reg[r].order = o
                                  /\ rows'[o] = Watched(reg[r])
      BY <2>1 DEF Requested
    <3>2. rows'[o].token = reg[r].token
      BY <3>1 DEF Watched
    <3> QED BY <1>2, <3>1, <3>2 DEF LockInv
  <2> QED BY <1>2, <2>1, OnlyRequestsWatch DEF SameTerms
<1>3. IInv /\ LockInv /\ [Next]_vars
        => [\A o \in Orders :
              /\ rows[o].status = "WATCHING" /\ rows'[o].status = "WATCHING"
              /\ rows'[o].token = rows[o].token
              => rows'[o].amount = rows[o].amount /\ rows'[o].expires = rows[o].expires]_vars
  BY <1>2
<1> QED BY IntentsInvariant, LockStep, <1>1, <1>3, PTL DEF Spec, WatchedTermsAreFixed

-------------------------------------------------------------------------------
(* The order graph.  Only the matcher makes an order CONFIRMING, it is     *)
(* alone, and it chose an order that was not credited: so the order is     *)
(* still not credited when its row is saved from the copy.  A row that has *)
(* been written is never unwritten, so what is cancelled exists.           *)
Uncredited(row) == row.status \notin {"CONFIRMING", "PAID"}

LifeInv == /\ \A o \in Orders : Uncredited(rows[o]) => rows[o].tx = NoTransfer
           /\ mt.phase = "settle" => /\ mt.order \in Orders
                                     /\ rows[mt.order].status # "NONE"
                                     /\ Uncredited(rows[mt.order])
           /\ cn.phase = "save" => /\ cn.order \in Orders /\ cn.row.tx = NoTransfer
                                   /\ rows[cn.order].status # "NONE"

LEMMA UncreditedStep ==
  ASSUME IInv, LifeInv, [Next]_vars, NEW o \in Orders
  PROVE  /\ Uncredited(rows'[o]) => rows'[o].tx = NoTransfer
         /\ rows[o].status # "NONE" => rows'[o].status # "NONE"
<1> USE DEF Uncredited
<1>0. rows[o] \in Row /\ mt.row \in Row /\ cn.row \in Row
  BY DEF IInv, TypeOK
<1>1. CASE rows'[o] = rows[o]
  BY <1>1 DEF LifeInv
<1>2. CASE Requested(o)
  BY <1>2 DEF Requested, Watched
<1>3. CASE Cancelling(o)
  BY <1>0, <1>3 DEF Cancelling, Cancelled, LifeInv, Row
<1>4. CASE Expiring(o)
  BY <1>0, <1>4 DEF Expiring, Expired, Overdue, LifeInv, Row
<1>5. CASE Settling(o)
  BY <1>0, <1>5 DEF Settling, Confirming, PaidBy, Row
<1>6. CASE Paying(o) \/ Counting(o)
  BY <1>0, <1>6 DEF Paying, Counting, PaidBy, Row
<1>7. CASE Keying(o)
  BY <1>0, <1>7 DEF Keying, Row, LifeInv
<1> QED BY RowChanges, <1>1, <1>2, <1>3, <1>4, <1>5, <1>6, <1>7 DEF Changed, IInv

LEMMA UncreditedStays ==
  ASSUME IInv, [Next]_vars, NEW o \in Orders, Uncredited(rows[o])
  PROVE  Uncredited(rows'[o]) \/ mt' = IdleMatcher
<1> USE DEF Uncredited
<1>0. rows[o] \in Row /\ cn.row \in Row
  BY DEF IInv, TypeOK
<1>1. ~Paying(o) /\ ~Counting(o) /\ (Settling(o) => mt' = IdleMatcher)
  BY DEF Paying, Counting, Settling
<1>2. Requested(o) => Uncredited(rows'[o])
  BY DEF Requested, Watched
<1>3. Cancelling(o) => Uncredited(rows'[o])
  BY <1>0 DEF Cancelling, Cancelled, Row
<1>4. Expiring(o) => Uncredited(rows'[o])
  BY <1>0 DEF Expiring, Expired, Row
<1>5. Keying(o) => Uncredited(rows'[o])
  BY <1>0 DEF Keying, Row
<1> QED BY <1>1, <1>2, <1>3, <1>4, <1>5, RowChanges DEF Changed, IInv

LEMMA LifeStep ==
  ASSUME IInv, LifeInv, [Next]_vars
  PROVE  LifeInv'
<1>1. (\A o \in Orders : Uncredited(rows[o]) => rows[o].tx = NoTransfer)'
  BY UncreditedStep DEF Uncredited
<1>2. (mt.phase = "settle" => /\ mt.order \in Orders /\ rows[mt.order].status # "NONE"
                              /\ Uncredited(rows[mt.order]))'
  <2>1. ASSUME NEW x \in Transfers, Receive(x) \/ Reprocess(x) PROVE mt'.phase # "settle"
    BY <2>1 DEF Receive, Reprocess, IdleMatcher
  <2>2. ASSUME NEW o \in Orders, mt' = Chosen(o), rows' = rows, rows[o].status \in {"WATCHING", "EXPIRED"}
        PROVE  <1>2
    BY <2>2 DEF Chosen, IInv, TypeOK, Uncredited
  <2>3. CASE QueryWatching
    <3>1. mt'.phase = "settle" => \E o \in Orders : mt' = Chosen(o) /\ rows[o].status = "WATCHING"
      BY <2>3 DEF QueryWatching, Watching, IInv, TypeOK
    <3> QED BY <2>2, <2>3, <3>1 DEF QueryWatching
  <2>4. CASE QueryExpired
    <3>1. mt'.phase = "settle" => \E o \in Orders : mt' = Chosen(o) /\ rows[o].status = "EXPIRED"
      BY <2>4 DEF QueryExpired, Recoverable, IdleMatcher
    <3> QED BY <2>2, <2>4, <3>1 DEF QueryExpired
  <2>5. CASE mt' = IdleMatcher
    BY <2>5 DEF IdleMatcher
  <2>6. CASE mt' = mt /\ mt' # IdleMatcher
    BY <2>6, UncreditedStep, UncreditedStays DEF LifeInv, Uncredited
  <2> QED BY <2>1, <2>3, <2>4, <2>5, <2>6, Frame DEF MatcherMoves
<1>3. (cn.phase = "save" => /\ cn.order \in Orders /\ cn.row.tx = NoTransfer
                            /\ rows[cn.order].status # "NONE")'
  <2>1. ASSUME NEW o \in Orders, Cancel(o) PROVE <1>3
    BY <2>1 DEF Cancel, LifeInv, Uncredited
  <2>2. CASE cn' = cn
    BY <2>2, UncreditedStep DEF LifeInv
  <2> QED BY <2>1, <2>2, Frame DEF IdleCancel
<1> QED BY <1>1, <1>2, <1>3 DEF LifeInv

(* How a written row shows in the order graph. *)
LEMMA OneOrderMoves ==
  ASSUME TypeOK, NEW o \in Orders, NEW row, rows' = [rows EXCEPT ![o] = row]
  PROVE  Life!To(o, row.status, row.tx)
BY DEF TypeOK, Life!To

LEMMA NothingShows ==
  ASSUME \A o \in Orders : rows'[o].status = rows[o].status /\ rows'[o].tx = rows[o].tx
  PROVE  UNCHANGED Life!vars
BY DEF Life!vars

LEMMA LifeMaps ==
  ASSUME IInv, LifeInv, [Next]_vars
  PROVE  [Life!Next]_(Life!vars)
<1> USE DEF IInv
<1>0. rows \in [Orders -> Row] /\ mt.row \in Row /\ cn.row \in Row
  BY DEF TypeOK
<1>1. ASSUME NEW r \in Registrars, SaveRequest(r) PROVE [Life!Next]_(Life!vars)
  <2>1. CASE rows' = rows
    BY <2>1, NothingShows
  <2>2. CASE rows' = [rows EXCEPT ![reg[r].order] = Watched(reg[r])] /\ reg[r].order \in Orders
    <3>1. PICK o \in Orders : o = reg[r].order
      BY <2>2
    <3>2. PICK row : row = Watched(reg[r])
      OBVIOUS
    <3>3. row.status = "WATCHING" /\ row.tx = NoTransfer
      BY <3>2 DEF Watched
    <3>4. Life!To(o, row.status, row.tx)
      BY <2>2, <3>1, <3>2, OneOrderMoves
    <3>5. Life!Watch(o)
      BY <3>3, <3>4 DEF Life!Watch
    <3> QED BY <3>5 DEF Life!Next
  <2> QED BY <1>0, <1>1, <2>1, <2>2 DEF SaveRequest, Write
<1>2. CASE SaveCancel
  <2>1. cn.order \in Orders /\ cn.row.tx = NoTransfer /\ rows[cn.order].status # "NONE"
    BY <1>2 DEF SaveCancel, LifeInv
  <2>2. Cancelled(cn.row).status = "CANCELLED" /\ Cancelled(cn.row).tx = NoTransfer
    BY <1>0, <2>1 DEF Cancelled, Row
  <2>3. Life!To(cn.order, "CANCELLED", NoTransfer)
    BY <1>2, <2>1, <2>2, OneOrderMoves DEF SaveCancel, Write
  <2> QED BY <2>1, <2>3 DEF Life!Cancel, Life!Next
<1>3. CASE CleanExpired
  <2>1. PICK S : S = {o \in Orders : Overdue(rows[o])}
    OBVIOUS
  <2>2. \A o \in Orders : rows'[o].tx = rows[o].tx
    BY <1>0, <1>3 DEF CleanExpired, Expired, Row
  <2>3. \A o \in Orders : rows'[o].status = IF o \in S THEN "EXPIRED" ELSE rows[o].status
    BY <1>0, <1>3, <2>1 DEF CleanExpired, Expired, Row
  <2>4. Life!Expire(S)
    BY <2>1, <2>2, <2>3 DEF Life!Expire, Overdue
  <2> QED BY <2>1, <2>4 DEF Life!Next
<1>4. CASE SettleConfirming \/ SettlePaid
  <2>1. PICK o \in Orders, x \in Transfers : o = mt.order /\ x = mt.tr
    BY <1>4 DEF SettleConfirming, SettlePaid, LifeInv, MatcherInv
  <2>2. rows[o].status # "NONE" /\ Uncredited(rows[o])
    BY <1>4, <2>1 DEF SettleConfirming, SettlePaid, LifeInv
  <2>3. PICK row : /\ row \in {Confirming(mt.row, x), PaidBy(mt.row, x)}
                   /\ rows' = [rows EXCEPT ![o] = row]
    BY <1>4, <2>1 DEF SettleConfirming, SettlePaid, Write
  <2>4. PICK s \in {"CONFIRMING", "PAID"} : row.status = s /\ row.tx = x
    BY <1>0, <2>3 DEF Confirming, PaidBy, Row
  <2>5. Life!To(o, s, x)
    BY <2>3, <2>4, OneOrderMoves
  <2>6. Life!Credit(o, x, s)
    BY <2>2, <2>5 DEF Life!Credit, Life!Credited, Uncredited
  <2> QED BY <2>6 DEF Life!Next
<1>5. CASE PayConfirming
  <2>1. CASE rows' = rows
    BY <2>1, NothingShows
  <2>2. CASE Payable(rows[wk.order]) /\ rows' = [rows EXCEPT ![wk.order] = PaidBy(rows[wk.order], rows[wk.order].tx)]
    <3>1. PICK o \in Orders : o = wk.order
      BY <1>5 DEF PayConfirming, RecordedInv
    <3>2. PICK row : row = PaidBy(rows[o], rows[o].tx)
      OBVIOUS
    <3>3. row.status = "PAID" /\ row.tx = rows[o].tx
      BY <1>0, <3>2 DEF PaidBy, Row
    <3>4. Life!To(o, row.status, row.tx)
      BY <2>2, <3>1, <3>2, OneOrderMoves
    <3>5. Life!Pay(o)
      BY <2>2, <3>1, <3>3, <3>4 DEF Life!Pay, Life!To, Payable
    <3> QED BY <3>5 DEF Life!Next
  <2> QED BY <1>5, <2>1, <2>2 DEF PayConfirming, Write
<1>6. ASSUME NEW o \in Orders, NEW x \in Transfers, CountConfirmations(o, x)
      PROVE  [Life!Next]_(Life!vars)
  <2>1. \A p \in Orders : rows'[p].status = rows[p].status /\ rows'[p].tx = rows[p].tx
    BY <1>0, <1>6 DEF CountConfirmations, Row
  <2> QED BY <2>1, NothingShows
<1>7. CASE Restart
  <2>1. PICK S \in SUBSET Keyless : rows' = Keyed(S)
    BY <1>7 DEF Restart
  <2>2. \A p \in Orders : rows'[p].status = rows[p].status /\ rows'[p].tx = rows[p].tx
    BY <1>0, <2>1 DEF Keyed, Row
  <2> QED BY <2>2, NothingShows
<1>8. CASE rows' = rows
  BY <1>8, NothingShows
<1> QED
  BY <1>1, <1>2, <1>3, <1>4, <1>5, <1>6, <1>7, <1>8
  DEF Next, vars, Requests, Matcher, Worker, Blockchain, BeginRequest, Register, Allocate,
      CheckCollision, PickAmount, Cancel, Receive, Reprocess, QueryWatching, QueryExpired,
      SettleFails, ListConfirming, SkipConfirming, VerifyConfirming, MarkTransfer,
      Deepen, Reorganise, Mine, Tick

(* The code keeps the order graph: a credited order stays with its         *)
(* transfer, and the matcher never credits one that is taken.              *)
THEOREM IntentsImplementLife == Spec => ImplementsOrderLife
<1>1. Init => LifeInv
  BY DEF Init, LifeInv, NoRow, IdleMatcher, IdleCancel
<1>2. Init => Life!Init
  BY DEF Init, Life!Init, NoRow
<1> QED
  BY IntentsInvariant, LifeStep, LifeMaps, <1>1, <1>2, PTL
  DEF Spec, ImplementsOrderLife, Life!Spec

===============================================================================
