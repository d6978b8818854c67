------------------------ MODULE ScannerPipeline_proofs ------------------------
(***************************************************************************)
(* What every step of ScannerPipeline keeps, for any number of nodes,      *)
(* payments, pages, stops and faults: the types, the shape of the          *)
(* scanners' variables, and that a payment which is accounted for stays    *)
(* so.  The modules EvmScanner_proofs, SolanaScanner_proofs and            *)
(* TronScanner_proofs build on it.                                         *)
(***************************************************************************)
EXTENDS ScannerPipeline, SequenceTheorems, TLAPS

Real == Evm(EvmPayments) \cup Sol(1 .. SolCount) \cup Tron(Transfers)

Elements(s) == {s[i] : i \in 1 .. Len(s)}

(* Only payments that exist are ever in the channel or in the table. *)
EntriesInv == chan \in Seq(Real) /\ table \in Seq(Real)

GoneInv == consumer.phase = "gone" => mode = "stopping"

(* What a phase says of the variables that its next step uses. *)
EvmShape == ev.phase = "push" => ev.hand # 0
SolShape == /\ sol.phase \in {"cold", "tx", "push", "commit"}
                 => sol.oldest \in 1 .. sol.newest /\ sol.newest <= sigs
            /\ sol.phase = "page"
                 => \/ sol.newest = 0
                    \/ sol.oldest \in sol.last + 1 .. sol.newest /\ sol.newest <= sigs
TronShape == tron.phase = "page" => tron.pages < TronPages

TypeInv == TypeOK /\ EntriesInv /\ GoneInv /\ EvmShape /\ SolShape /\ TronShape

-------------------------------------------------------------------------------
LEMMA AppendElements ==
  ASSUME NEW S, NEW s \in Seq(S), NEW x \in S
  PROVE  /\ Append(s, x) \in Seq(S) /\ Len(Append(s, x)) = Len(s) + 1
         /\ Elements(Append(s, x)) = Elements(s) \cup {x}
<1>1. /\ Append(s, x) \in Seq(S) /\ Len(Append(s, x)) = Len(s) + 1 /\ Len(s) \in Nat
      /\ \A i \in 1 .. Len(s) : Append(s, x)[i] = s[i]
      /\ Append(s, x)[Len(s) + 1] = x
  BY AppendProperties, LenProperties
<1>2. Elements(Append(s, x)) \subseteq Elements(s) \cup {x}
  BY <1>1 DEF Elements
<1>3. Elements(s) \cup {x} \subseteq Elements(Append(s, x))
  BY <1>1 DEF Elements
<1> QED BY <1>1, <1>2, <1>3

LEMMA TailElements ==
  ASSUME NEW S, NEW s \in Seq(S), s # << >>
  PROVE  /\ Head(s) \in S /\ Tail(s) \in Seq(S) /\ Len(Tail(s)) <= Len(s)
         /\ Elements(s) = {Head(s)} \cup Elements(Tail(s))
<1>1. /\ Head(s) \in S /\ Tail(s) \in Seq(S) /\ Len(s) \in Nat /\ Len(s) >= 1
      /\ Len(Tail(s)) = Len(s) - 1
      /\ \A i \in 1 .. Len(Tail(s)) : Tail(s)[i] = s[i + 1]
      /\ Head(s) = s[1]
  BY HeadTailProperties, LenProperties, EmptySeq
<1>2. \A i \in 1 .. Len(s) : s[i] \in {Head(s)} \cup Elements(Tail(s))
  <2> TAKE i \in 1 .. Len(s)
  <2>1. CASE i = 1
    BY <1>1, <2>1
  <2>2. CASE i # 1
    <3>1. i - 1 \in 1 .. Len(Tail(s)) /\ Tail(s)[i - 1] = s[i]
      BY <1>1, <2>2
    <3> QED BY <3>1 DEF Elements
  <2> QED BY <2>1, <2>2
<1>3. {Head(s)} \cup Elements(Tail(s)) \subseteq Elements(s)
  BY <1>1 DEF Elements
<1> QED BY <1>1, <1>2, <1>3 DEF Elements

LEMMA ElementsOf ==
  /\ Rows = Elements(table) /\ Queued = Elements(chan)
  /\ Elements(<< >>) = {}
BY DEF Rows, Queued, Elements

LEMMA ElementTypes ==
  ASSUME NEW S, NEW s \in Seq(S)
  PROVE  Elements(s) \subseteq S /\ Len(s) \in Nat /\ \A i \in 1 .. Len(s) : s[i] \in S
BY LenProperties, ElementOfSeq DEF Elements

-------------------------------------------------------------------------------
(* What a scanner does to the pipeline, S being its payments: it pushes    *)
(* one of them, or inserts one, or leaves channel and table alone.         *)
Notes(S) == /\ givenUp \subseteq givenUp' /\ givenUp' \subseteq givenUp \cup S
            /\ faults' \in 0 .. MaxFaults
Still(S) == Notes(S) /\ UNCHANGED <<mode, chan, table, consumer, handed, lost, stops>>
Writes(S) == /\ Notes(S) /\ UNCHANGED <<mode, chan, consumer, handed, lost, stops>>
             /\ \E p \in S : Insert(p)
Pushes(S) == /\ UNCHANGED <<mode, table, consumer, handed, givenUp, lost, stops, faults>>
             /\ \E p \in S : Push(p)
Quiet(S) == Still(S) \/ Writes(S) \/ Pushes(S)

LEMMA InsertRows ==
  ASSUME EntriesInv, NEW p \in Real, Insert(p)
  PROVE  table' \in Seq(Real) /\ Rows' = Rows \cup {p} /\ Len(table) <= Len(table')
<1>1. Rows' = Elements(table') /\ Len(table) \in Nat
  BY ElementTypes DEF EntriesInv, Rows, Elements
<1> QED BY <1>1, AppendElements, ElementsOf DEF EntriesInv, Insert

LEMMA PushQueued ==
  ASSUME EntriesInv, NEW p \in Real, Push(p), Capacity \in Nat
  PROVE  chan' \in Seq(Real) /\ Queued' = Queued \cup {p} /\ Len(chan') <= Capacity
<1>1. Queued' = Elements(chan') /\ Len(chan) \in Nat
  BY ElementTypes DEF EntriesInv, Queued, Elements
<1> QED BY <1>1, AppendElements, ElementsOf DEF EntriesInv, Push

LEMMA Faults ==
  ASSUME PipelineTypeOK, Works \/ Fails \/ SaveFails \/ Saves \/ UNCHANGED faults
  PROVE  faults' \in 0 .. MaxFaults
BY PipelineAssumption DEF PipelineTypeOK, Works, Fails, SaveFails, Saves

LEMMA EvmIsQuiet ==
  ASSUME TypeInv, EvmScan \/ EvmChain
  PROVE  Quiet(Evm(EvmPayments))
<1> USE DEF Quiet, Notes
<1>0. PipelineTypeOK /\ EvmTypeOK /\ faults \in 0 .. MaxFaults
  BY DEF TypeInv, TypeOK, PipelineTypeOK
<1>b. \A c : Behind(c) \subseteq Evm(EvmPayments)
  BY DEF Behind, Mined, Evm
<1>1. CASE \E n \in Nodes : InitCursor(n)
  BY <1>0, <1>1, <1>b, Faults DEF InitCursor, Still
<1>2. CASE \E n \in Nodes : ReadTip(n) \/ FetchLogs(n) \/ Mine(n) \/ Reorganise(n) \/ NodeRecovers(n)
  BY <1>0, <1>2 DEF ReadTip, FetchLogs, Mine, Reorganise, NodeRecovers, Still, pipe
<1>3. CASE FetchLogsFails \/ EvmReturns \/ EnableWallets
  BY <1>0, <1>3 DEF FetchLogsFails, EvmReturns, EnableWallets, Still, pipe
<1>4. CASE \E n \in Nodes : NodeFails(n)
  BY <1>0, <1>4, Faults DEF NodeFails, Still
<1>5. CASE QueryWallets
  BY <1>0, <1>5, <1>b, Faults DEF QueryWallets, Still
<1>6. CASE \E k \in EvmPayments : PersistTransfer(k)
  <2> PICK k \in EvmPayments : PersistTransfer(k)
    BY <1>6
  <2>1. <<"evm", k>> \in Evm(EvmPayments) /\ Evm({k}) \subseteq Evm(EvmPayments)
    BY DEF Evm
  <2> QED BY <1>0, <2>1, Faults DEF PersistTransfer, Still, Writes
<1>7. CASE PushTransfer
  <2>1. <<"evm", ev.hand>> \in Evm(EvmPayments)
    BY <1>0, <1>7 DEF PushTransfer, TypeInv, EvmShape, EvmTypeOK, Evm
  <2> QED BY <1>7, <2>1 DEF PushTransfer, Pushes
<1>8. CASE CommitProgress
  BY <1>0, <1>8, Faults DEF CommitProgress, Still
<1> QED BY <1>1, <1>2, <1>3, <1>4, <1>5, <1>6, <1>7, <1>8 DEF EvmScan, EvmChain

LEMMA LastRowTypes ==
  ASSUME TypeInv
  PROVE  \A last \in LastRow : last \in 1 .. SolCount /\ <<"solana", last>> \in Rows
<1>1. \A j \in 1 .. Len(table) : table[j] \in Real /\ table[j] \in Rows
  BY ElementTypes DEF TypeInv, EntriesInv, Rows
<1>2. \A p \in Real : p[1] = "solana" => p[2] \in 1 .. SolCount /\ p = <<"solana", p[2]>>
  BY DEF Real, Evm, Sol, Tron
<1> QED BY <1>1, <1>2 DEF LastRow, SolRows

LEMMA SolIsQuiet ==
  ASSUME TypeInv, SolNext
  PROVE  Quiet(Sol(1 .. SolCount))
<1> USE DEF Quiet, Notes
<1>0. PipelineTypeOK /\ SolTypeOK /\ faults \in 0 .. MaxFaults /\ SolCount \in Nat
  BY SolAssumption DEF TypeInv, TypeOK, PipelineTypeOK
<1>1. CASE Sign \/ SolReturns \/ \E i \in 1 .. SolCount : SolParse(i)
  BY <1>0, <1>1 DEF Sign, SolReturns, SolParse, Still, pipe
<1>2. CASE SolRestore
  <2>1. PICK last \in {sol.mem, solSaved, 0} \cup LastRow :
          givenUp' = IF sol.mem = 0 /\ solSaved \notin {0, last}
                     THEN givenUp \cup (Sol(1 .. last) \ Rows) ELSE givenUp
    BY <1>2 DEF SolRestore
  <2>2. last \in Positions
    <3>1. {sol.mem, solSaved, 0} \subseteq Positions
      BY <1>0 DEF Positions, SolTypeOK
    <3>2. LastRow \subseteq Positions
      <4>1. \A r \in LastRow : r \in 1 .. SolCount
        BY LastRowTypes
      <4> QED BY <1>0, <4>1 DEF Positions
    <3> QED BY <3>1, <3>2
  <2>3. Sol(1 .. last) \subseteq Sol(1 .. SolCount)
    BY <1>0, <2>2 DEF Positions, Sol
  <2>4. Works \/ Fails
    BY <1>2 DEF SolRestore
  <2> QED BY <1>0, <1>2, <2>1, <2>3, <2>4, Faults DEF SolRestore, Still
<1>3. CASE SolFetch
  <2>1. Sol(Unfetched) \subseteq Sol(1 .. SolCount) \/ Top <= sol.last
    <3> SUFFICES ASSUME Top > sol.last  PROVE Unfetched \subseteq 1 .. SolCount
      BY <1>0, <1>3 DEF Sol, Top, SolTypeOK, Positions
    <3>1. Top \in Positions /\ sol.last \in Nat /\ Bottom \in Nat /\ Bottom < Top
      BY <1>0, <1>3, SolAssumption
      DEF SolFetch, TypeInv, SolShape, SolTypeOK, Top, Bottom, Max2, Positions
    <3> QED BY <1>0, <3>1 DEF Unfetched, Positions
  <2>2. Top \in Nat /\ sol.last \in Nat
    BY <1>0, <1>3 DEF SolFetch, TypeInv, SolShape, SolTypeOK, Top, Positions
  <2>3. givenUp' = givenUp \/ (Top > sol.last /\ givenUp' = givenUp \cup Sol(Unfetched))
    BY <1>3 DEF SolFetch
  <2> QED BY <1>0, <1>3, <2>1, <2>2, <2>3 DEF SolFetch, Still
<1>4. CASE SolCold
  <2>1. Sol(1 .. sol.oldest - 1) \subseteq Sol(1 .. SolCount)
    BY <1>0, <1>4 DEF SolCold, SolTypeOK, Sol, Positions
  <2> QED BY <1>0, <1>4, <2>1, Faults DEF SolCold, Still
<1>5. CASE \E i \in 1 .. SolCount : SolPass(i)
  BY <1>0, <1>5, Faults DEF SolPass, Still, Sol
<1>6. CASE SolPush
  <2>1. <<"solana", sol.oldest>> \in Sol(1 .. SolCount)
    BY <1>0, <1>6 DEF SolPush, TypeInv, SolShape, SolTypeOK, Sol, Positions
  <2> QED BY <1>6, <2>1 DEF SolPush, Pushes
<1>7. CASE SolCommit \/ SolRpcFails
  BY <1>0, <1>7, Faults DEF SolCommit, SolRpcFails, CallFails, Still
<1> QED BY <1>1, <1>2, <1>3, <1>4, <1>5, <1>6, <1>7 DEF SolNext, SolScan

LEMMA TronIsQuiet ==
  ASSUME TypeInv, TronNext
  PROVE  Quiet(Tron(Transfers))
<1> USE DEF Quiet, Notes
<1>0. PipelineTypeOK /\ TronTypeOK /\ faults \in 0 .. MaxFaults /\ TronCount \in Nat
  BY TronAssumption DEF TypeInv, TypeOK, PipelineTypeOK
<1>o. \A s : Tron(Older(s)) \subseteq Tron(Transfers)
  BY <1>0 DEF Older, Tron, TronTypeOK, Transfers
<1>1. CASE Index \/ TronFetch \/ TronReturns
  BY <1>0, <1>1 DEF Index, TronFetch, TronReturns, Still, pipe
<1>2. CASE TronStart
  <2>1. Works \/ Fails
    BY <1>2 DEF TronStart
  <2>2. givenUp' = givenUp \/ \E s : givenUp' = givenUp \cup (Tron(Older(s)) \ Rows)
    BY <1>2 DEF TronStart
  <2> QED BY <1>0, <1>2, <1>o, <2>1, <2>2, Faults DEF TronStart, Still
<1>3. CASE TronFetchFails \/ TronPageDone \/ TronRoundDone
  BY <1>0, <1>3, Faults DEF TronFetchFails, TronPageDone, TronRoundDone, Persist, CallFails, Still
<1>4. CASE \E k \in Transfers : TronPush(k)
  BY <1>4 DEF TronPush, Pushes, Tron
<1> QED BY <1>1, <1>2, <1>3, <1>4 DEF TronNext, TronScan

-------------------------------------------------------------------------------
PipeInv == PipelineTypeOK /\ EntriesInv /\ GoneInv

Places(t) == [phase : {"start", "replay", "loop", "gone"}, todo : SUBSET (1 .. Len(t)),
              later : SUBSET Payments]

LEMMA RealIsPayments ==
  /\ Real \subseteq Payments
  /\ Evm(EvmPayments) \subseteq Real /\ Sol(1 .. SolCount) \subseteq Real
  /\ Tron(Transfers) \subseteq Real
<1>1. EvmPayments \subseteq Nat /\ 1 .. SolCount \subseteq Nat /\ Transfers \subseteq Nat
  <2>1. EvmCount \in Nat /\ SolCount \in Nat
    BY EvmAssumption, SolAssumption
  <2>2. TronCount \in Nat
    BY TronAssumption
  <2> QED BY <2>1, <2>2 DEF EvmPayments, Transfers
<1>2. \A S \in SUBSET Nat : /\ Evm(S) \subseteq Payments /\ Sol(S) \subseteq Payments
                            /\ Tron(S) \subseteq Payments
  BY DEF Payments, Evm, Sol, Tron
<1> QED BY <1>1, <1>2 DEF Real

LEMMA ConsumerIsTyped ==
  ASSUME PipeInv, TypeInv, Consumer \/ Shutdown
  PROVE  PipeInv'
<1>0. /\ PipelineTypeOK /\ EntriesInv /\ GoneInv /\ faults \in 0 .. MaxFaults
      /\ Real \subseteq Payments /\ Len(table) \in Nat
      /\ \A i \in 1 .. Len(table) : table[i] \in Payments
  BY RealIsPayments, ElementTypes DEF PipeInv, PipelineTypeOK, EntriesInv
<1>c. /\ consumer \in Places(table) /\ consumer.todo \subseteq 1 .. Len(table)
      /\ consumer.later \subseteq Payments
      /\ \A S \in SUBSET (1 .. Len(table)) : NotHanded(S) \subseteq Payments
  BY <1>0 DEF PipelineTypeOK, Places, NotHanded
<1>1. CASE ReadUnmatched
  <2>1. faults' \in 0 .. MaxFaults
    BY <1>0, <1>1, Faults DEF ReadUnmatched
  <2>2. consumer' \in Places(table) /\ consumer'.phase # "gone" /\ givenUp' \subseteq Payments
    <3>1. CASE \E found \in SUBSET (1 .. Len(table)) :
                 LET read == FirstOf(found) IN
                 /\ consumer' = [phase |-> Resume(read), todo |-> read, later |-> NotHanded(found \ read)]
                 /\ givenUp' = givenUp \cup NotHanded((1 .. Len(table)) \ found)
      <4>1. PICK found \in SUBSET (1 .. Len(table)) :
              /\ consumer' = [phase |-> Resume(FirstOf(found)), todo |-> FirstOf(found),
                              later |-> NotHanded(found \ FirstOf(found))]
              /\ givenUp' = givenUp \cup NotHanded((1 .. Len(table)) \ found)
        BY <3>1
      <4>2. FirstOf(found) \subseteq 1 .. Len(table) /\ Resume(FirstOf(found)) \in {"loop", "replay"}
        BY DEF FirstOf, Resume
      <4>3. NotHanded(found \ FirstOf(found)) \subseteq Payments
        BY <1>c
      <4>4. NotHanded((1 .. Len(table)) \ found) \subseteq Payments
        BY <1>c
      <4> QED BY <1>0, <4>1, <4>2, <4>3, <4>4 DEF Places, PipelineTypeOK
    <3>2. CASE /\ consumer' = [phase |-> "loop", todo |-> {}, later |-> NotHanded(1 .. Len(table))]
               /\ UNCHANGED givenUp
      BY <1>0, <1>c, <3>2 DEF Places, PipelineTypeOK
    <3> QED BY <1>1, <3>1, <3>2 DEF ReadUnmatched
  <2>3. UNCHANGED <<mode, chan, table, handed, lost, stops>>
    BY <1>1 DEF ReadUnmatched
  <2> QED BY <1>0, <2>1, <2>2, <2>3 DEF PipeInv, PipelineTypeOK, EntriesInv, GoneInv, Places
<1>2. CASE \E i \in 1 .. Len(table) : Reprocess(i)
  <2> PICK i \in 1 .. Len(table) : Reprocess(i)
    BY <1>2
  <2>1. PICK p \in {"loop", "replay"}, later \in {consumer.later, consumer.later \cup {table[i]}} :
          consumer' = [consumer EXCEPT !.phase = p, !.todo = consumer.todo \ {i}, !.later = later]
    BY <1>c DEF Reprocess, Resume, Places
  <2>2. consumer' \in Places(table) /\ consumer'.phase # "gone"
    BY <1>0, <1>c, <2>1 DEF Places
  <2>3. faults' \in 0 .. MaxFaults
    BY <1>0, Faults DEF Reprocess
  <2>4. handed' \subseteq Payments /\ UNCHANGED <<mode, chan, table, givenUp, lost, stops>>
    BY <1>0 DEF Reprocess, PipelineTypeOK
  <2> QED BY <1>0, <2>2, <2>3, <2>4 DEF PipeInv, PipelineTypeOK, EntriesInv, GoneInv, Places
<1>3. CASE Consume
  <2>1. /\ Head(chan) \in Real /\ Tail(chan) \in Seq(Real) /\ Len(Tail(chan)) <= Len(chan)
        /\ Len(chan) \in Nat /\ Len(Tail(chan)) \in Nat /\ Capacity \in Nat
    BY <1>0, <1>3, TailElements, LenProperties, PipelineAssumption DEF Consume, EntriesInv
  <2>2. Tail(chan) \in Seq(Payments)
    BY <1>0, <1>3, TailElements DEF Consume, PipelineTypeOK
  <2>3. table' \in Seq(Real) /\ table' \in Seq(Payments) /\ Len(table) <= Len(table') /\ Len(table') \in Nat
    <3>1. CASE UNCHANGED table
      BY <1>0, <3>1 DEF EntriesInv, PipelineTypeOK
    <3>2. CASE Insert(Head(chan))
      <4>1. table' \in Seq(Payments)
        BY <1>0, <2>1, <3>2, AppendElements DEF Insert, PipelineTypeOK
      <4> QED BY <1>0, <2>1, <3>2, <4>1, InsertRows, LenProperties
    <3> QED BY <1>3, <3>1, <3>2 DEF Consume
  <2>4. faults' \in 0 .. MaxFaults
    BY <1>0, <1>3, Faults DEF Consume
  <2>5. handed' \subseteq Payments /\ givenUp' \subseteq Payments
    BY <1>0, <1>3, <2>1 DEF Consume, PipelineTypeOK
  <2>6. consumer' \in Places(table') /\ consumer'.phase # "gone"
    <3>1. PICK later \in {consumer.later, consumer.later \cup {Head(chan)}} :
            consumer' = [consumer EXCEPT !.later = later]
      BY <1>c, <1>3 DEF Consume, Leave, Places
    <3>2. later \subseteq Payments
      BY <1>0, <1>c, <2>1, <3>1
    <3>3. consumer \in Places(table') /\ consumer.phase = "loop"
      BY <1>0, <1>c, <1>3, <2>3 DEF Consume, Places
    <3> QED BY <3>1, <3>2, <3>3 DEF Places
  <2>7. UNCHANGED <<mode, lost, stops>> /\ chan' = Tail(chan)
    BY <1>3 DEF Consume
  <2> QED BY <1>0, <2>1, <2>2, <2>3, <2>4, <2>5, <2>6, <2>7
      DEF PipeInv, PipelineTypeOK, EntriesInv, GoneInv, Places
<1>4. CASE Drained \/ Shutdown
  <2>1. UNCHANGED <<chan, table, handed, givenUp, lost, faults>>
    BY <1>4 DEF Drained, Shutdown
  <2>2. consumer' \in Places(table)
    BY <1>c, <1>4 DEF Drained, Shutdown, Places
  <2>3. mode' = "stopping" /\ stops' \in 0 .. MaxStops
    BY <1>0, <1>4, PipelineAssumption DEF Drained, Shutdown, PipelineTypeOK
  <2> QED BY <1>0, <2>1, <2>2, <2>3 DEF PipeInv, PipelineTypeOK, EntriesInv, GoneInv, Places
<1> QED BY <1>1, <1>2, <1>3, <1>4 DEF Consumer

LEMMA QuietIsTyped ==
  ASSUME PipeInv, NEW S \in SUBSET Real, Quiet(S)
  PROVE  PipeInv'
<1>0. /\ PipelineTypeOK /\ EntriesInv /\ GoneInv /\ Real \subseteq Payments
      /\ Len(table) \in Nat /\ faults \in 0 .. MaxFaults /\ Capacity \in Nat
  BY RealIsPayments, ElementTypes, PipelineAssumption DEF PipeInv, PipelineTypeOK, EntriesInv
<1>1. UNCHANGED <<mode, consumer, handed, lost, stops>>
  BY DEF Quiet, Still, Writes, Pushes
<1>2. givenUp' \subseteq Payments /\ faults' \in 0 .. MaxFaults
  BY <1>0 DEF Quiet, Still, Writes, Pushes, Notes, PipelineTypeOK
<1>3. /\ table' \in Seq(Real) /\ table' \in Seq(Payments)
      /\ Len(table) <= Len(table') /\ Len(table') \in Nat
  <2>1. CASE UNCHANGED table
    BY <1>0, <2>1 DEF EntriesInv, PipelineTypeOK
  <2>2. CASE \E p \in S : Insert(p)
    <3> PICK p \in S : Insert(p)
      BY <2>2
    <3>1. table' \in Seq(Payments)
      BY <1>0, AppendElements DEF Insert, PipelineTypeOK
    <3> QED BY <1>0, <3>1, InsertRows, LenProperties
  <2> QED BY <2>1, <2>2 DEF Quiet, Still, Writes, Pushes
<1>4. chan' \in Seq(Real) /\ chan' \in Seq(Payments) /\ Len(chan') <= Capacity
  <2>1. CASE UNCHANGED chan
    BY <1>0, <2>1 DEF EntriesInv, PipelineTypeOK
  <2>2. CASE \E p \in S : Push(p)
    <3> PICK p \in S : Push(p)
      BY <2>2
    <3>1. chan' \in Seq(Payments)
      BY <1>0, AppendElements DEF Push, PipelineTypeOK
    <3> QED BY <1>0, <3>1, PushQueued
  <2> QED BY <2>1, <2>2 DEF Quiet, Still, Writes, Pushes
<1>5. consumer' \in Places(table')
  BY <1>0, <1>1, <1>3 DEF PipelineTypeOK, Places
<1> QED BY <1>0, <1>1, <1>2, <1>3, <1>4, <1>5 DEF PipeInv, PipelineTypeOK, EntriesInv, GoneInv, Places

LEMMA StopsIsTyped ==
  ASSUME PipeInv, Exit \/ Crash
  PROVE  PipeInv'
<1>0. PipelineTypeOK /\ EntriesInv /\ Real \subseteq Payments /\ Len(<< >>) = 0
  BY RealIsPayments, EmptySeq DEF PipeInv
<1>1. /\ mode' = "up" /\ chan' = << >> /\ consumer' = AtStart
      /\ UNCHANGED <<table, handed, givenUp, faults>>
  BY DEF Exit, Crash, Reboot
<1>2. lost' \subseteq Payments
  BY <1>0, ElementTypes, ElementsOf DEF Exit, Crash, EntriesInv, PipelineTypeOK
<1>3. stops' \in 0 .. MaxStops
  BY <1>0, PipelineAssumption DEF Exit, Crash, PipelineTypeOK
<1>4. << >> \in Seq(Payments) /\ << >> \in Seq(Real)
  OBVIOUS
<1> QED BY <1>0, <1>1, <1>2, <1>3, <1>4, PipelineAssumption
    DEF PipeInv, PipelineTypeOK, EntriesInv, GoneInv, AtStart

-------------------------------------------------------------------------------
LEMMA EvmConstants ==
  /\ Word \in Nat /\ Delay \in Nat /\ Delay > 0 /\ FirstHeight \in Nat /\ MaxHeight \in Nat
  /\ StartBlock \in Nat /\ Batch \in Nat /\ WideBatch \in Nat /\ MaxLag \in Nat
  /\ MaxHeight < Word /\ FirstHeight <= MaxHeight
  /\ NumNodes \in Nat /\ NumNodes > 0 /\ 0 \in Nodes
BY EvmAssumption DEF Nodes

LEMMA SafeBlockType ==
  ASSUME NEW h \in Nat
  PROVE  SafeBlock(h) \in 0 .. Word - 1
<1>1. Word \in Nat /\ Word > 0 /\ h - Delay \in Int
  BY EvmConstants
<1> QED BY <1>1 DEF SafeBlock

EvRecord == [phase : {"init", "tip", "wallets", "logs", "persist", "push", "commit", "over"},
             cursor : Nat, safe : 0 .. Word - 1, to : Nat,
             found : SUBSET EvmPayments, hand : EvmPayments \cup {0}]

LEMMA EvUpdates ==
  ASSUME NEW r \in EvRecord
  PROVE  /\ EvmFresh \in EvRecord
         /\ \A c \in Nat : NextRound(c) \in EvRecord /\ NextRound(c).phase = "tip"
         /\ \A p \in {"tip", "wallets", "logs", "persist", "commit", "over"} :
              /\ \A x \in 0 .. Word - 1 : [r EXCEPT !.phase = p, !.safe = x] \in EvRecord
              /\ \A x \in Nat : [r EXCEPT !.phase = p, !.to = x] \in EvRecord
              /\ \A x \in SUBSET EvmPayments : [r EXCEPT !.phase = p, !.found = x] \in EvRecord
         /\ \A x \in EvmPayments : [r EXCEPT !.phase = "push", !.hand = x] \in EvRecord
<1>1. Word \in Nat /\ Word > 0
  BY EvmConstants
<1>2. EvmFresh \in EvRecord
  BY <1>1 DEF EvmFresh, EvRecord
<1>3. \A c \in Nat : NextRound(c) \in EvRecord /\ NextRound(c).phase = "tip"
  <2> TAKE c \in Nat
  <2>1. NextRound(c) = [EvmFresh EXCEPT !.phase = "tip", !.cursor = c]
    BY DEF NextRound
  <2> QED BY <1>2, <2>1 DEF EvRecord
<1> QED BY <1>2, <1>3 DEF EvRecord

LEMMA EvmScanIsTyped ==
  ASSUME EvmTypeOK, EvmShape, EvmScan
  PROVE  ev' \in EvRecord /\ EvmShape' /\ current' \in Nodes /\ evmSaved' \in Nat
<1>0. /\ ev \in EvRecord /\ ev.cursor \in Nat /\ ev.safe \in Nat /\ ev.to \in Nat
      /\ ev.found \subseteq EvmPayments /\ current \in Nodes /\ evmSaved \in Nat
      /\ Batch \in Nat /\ WideBatch \in Nat
      /\ \A n \in Nodes : height[n] \in Nat
  BY EvmConstants DEF EvmTypeOK, EvRecord
<1>i. \A a, b : Mined(a, b) \subseteq EvmPayments
  BY DEF Mined
<1>u. /\ EvmFresh \in EvRecord
      /\ \A c \in Nat : NextRound(c) \in EvRecord /\ NextRound(c).phase = "tip"
      /\ \A p \in {"tip", "wallets", "logs", "persist", "commit", "over"} :
              /\ \A x \in 0 .. Word - 1 : [ev EXCEPT !.phase = p, !.safe = x] \in EvRecord
              /\ \A x \in Nat : [ev EXCEPT !.phase = p, !.to = x] \in EvRecord
              /\ \A x \in SUBSET EvmPayments : [ev EXCEPT !.phase = p, !.found = x] \in EvRecord
      /\ \A x \in EvmPayments : [ev EXCEPT !.phase = "push", !.hand = x] \in EvRecord
  BY <1>0, EvUpdates
<1>1. CASE \E n \in Nodes : InitCursor(n)
  <2> PICK n \in Nodes : InitCursor(n)
    BY <1>1
  <2>1. Configured(height[n]) \in Nat
    BY <1>0, EvmConstants DEF Configured, StartAtTip
  <2>2. PICK c \in Nat : ev' = [ev EXCEPT !.phase = "tip", !.cursor = c]
    BY <1>0, <2>1 DEF InitCursor
  <2>3. current' = n /\ evmSaved' = evmSaved
    BY DEF InitCursor
  <2> QED BY <1>0, <2>2, <2>3 DEF EvRecord, EvmShape
<1>2. CASE \E n \in Nodes : ReadTip(n)
  <2> PICK n \in Nodes : ReadTip(n)
    BY <1>2
  <2>1. SafeBlock(height[n]) \in 0 .. Word - 1
    BY <1>0, SafeBlockType
  <2>2. /\ ev' = [ev EXCEPT !.phase = "wallets", !.safe = SafeBlock(height[n])]
        /\ current' = n /\ evmSaved' = evmSaved
    BY DEF ReadTip
  <2> QED BY <1>0, <2>1, <2>2 DEF EvmShape, EvRecord
<1>3. CASE \E n \in Nodes : FetchLogs(n)
  <2> PICK n \in Nodes : FetchLogs(n)
    BY <1>3
  <2>1. PICK found \in SUBSET EvmPayments : ev' = [ev EXCEPT !.phase = After(found), !.found = found]
    BY <1>i DEF FetchLogs
  <2>2. After(found) \in {"persist", "commit"} /\ current' = n /\ evmSaved' = evmSaved
    BY DEF FetchLogs, After
  <2> QED BY <1>0, <2>1, <2>2 DEF EvRecord, EvmShape
<1>4. CASE FetchLogsFails
  BY <1>0, <1>4, <1>u DEF FetchLogsFails, EvmShape
<1>5. CASE EvmReturns
  BY <1>0, <1>5 DEF EvmReturns, EvRecord, EvmShape
<1>6. CASE QueryWallets
  <2>2. /\ Min2(ev.cursor + Batch, ev.safe) \in Nat
        /\ Min2(ev.cursor + WideBatch, ev.safe) \in Nat
    BY <1>0 DEF Min2
  <2>4. PICK p \in {"logs", "commit"}, to \in Nat : ev' = [ev EXCEPT !.phase = p, !.to = to]
    BY <1>6, <2>2 DEF QueryWallets
  <2>3. current' = current /\ evmSaved' = evmSaved
    BY <1>6 DEF QueryWallets
  <2> QED BY <1>0, <2>3, <2>4 DEF EvRecord, EvmShape
<1>7. CASE \E k \in EvmPayments : PersistTransfer(k)
  <2> PICK k \in EvmPayments : PersistTransfer(k)
    BY <1>7
  <2>1. k # 0
    BY DEF EvmPayments
  <2>2. /\ ev' = [ev EXCEPT !.phase = "push", !.hand = k]
        /\ current' = current /\ evmSaved' = evmSaved
    BY DEF PersistTransfer
  <2> QED BY <1>0, <2>1, <2>2 DEF EvRecord, EvmShape
<1>8. CASE PushTransfer
  <2>1. PICK rest \in SUBSET EvmPayments :
          ev' = [ev EXCEPT !.phase = After(rest), !.found = rest, !.hand = 0]
    BY <1>0, <1>8 DEF PushTransfer
  <2>2. After(rest) \in {"persist", "commit"} /\ current' = current /\ evmSaved' = evmSaved
    BY <1>8 DEF PushTransfer, After
  <2> QED BY <1>0, <2>1, <2>2 DEF EvRecord, EvmShape
<1>9. CASE CommitProgress
  <2>1. /\ ev' \in {NextRound(ev.to), NextRound(ev.cursor)}
        /\ evmSaved' \in {ev.to, evmSaved} /\ current' = current
    BY <1>9 DEF CommitProgress
  <2> QED BY <1>0, <1>u, <2>1 DEF EvmShape
<1> QED BY <1>1, <1>2, <1>3, <1>4, <1>5, <1>6, <1>7, <1>8, <1>9 DEF EvmScan

LEMMA EvmIsTyped ==
  ASSUME EvmTypeOK, EvmShape, EvmScan \/ EvmChain
  PROVE  EvmTypeOK' /\ EvmShape'
<1> USE DEF EvmTypeOK
<1>1. CASE EvmScan
  <2>1. UNCHANGED <<height, block, watching, down>>
    BY <1>1 DEF EvmScan, InitCursor, ReadTip, FetchLogs, QueryWallets, FetchLogsFails,
                PersistTransfer, PushTransfer, CommitProgress, EvmReturns
  <2>2. unwritten' \subseteq EvmPayments
    <3>1. CASE \E k \in EvmPayments : PersistTransfer(k)
      BY <3>1 DEF PersistTransfer
    <3>2. CASE UNCHANGED unwritten
      BY <3>2
    <3> QED BY <1>1, <3>1, <3>2
        DEF EvmScan, InitCursor, ReadTip, FetchLogs, QueryWallets, FetchLogsFails,
            PushTransfer, CommitProgress, EvmReturns
  <2> QED BY <1>1, <2>1, <2>2, EvmScanIsTyped DEF EvRecord
<1>2. CASE \E n \in Nodes : Mine(n)
  <2> PICK n \in Nodes : Mine(n)
    BY <1>2
  <2>1. height[n] + 1 \in FirstHeight .. MaxHeight /\ height[n] + 1 \in 0 .. MaxHeight
    BY EvmConstants DEF Mine
  <2> QED BY <2>1 DEF Mine, EvmShape
<1>3. CASE \E n \in Nodes : Reorganise(n)
  BY <1>3, EvmConstants DEF Reorganise, EvmShape
<1>4. CASE \E n \in Nodes : NodeFails(n) \/ NodeRecovers(n)
  BY <1>4 DEF NodeFails, NodeRecovers, EvmShape
<1>5. CASE EnableWallets
  BY <1>5 DEF EnableWallets, EvmShape
<1> QED BY <1>1, <1>2, <1>3, <1>4, <1>5 DEF EvmChain

SolRecord == [phase : {"idle", "page", "cold", "tx", "push", "commit", "over"},
              mem : Positions, last : Positions, oldest : 0 .. SolCount + 1, newest : Positions,
              cold : BOOLEAN, cutoff : {0, SolHistory}]

LEMMA SolUpdates ==
  /\ SolFresh \in SolRecord /\ SolFresh.phase = "idle"
  /\ \A x \in Positions :
       /\ [SolFresh EXCEPT !.mem = x] \in SolRecord
       /\ [SolFresh EXCEPT !.mem = x].phase = "idle"
       /\ LET w == [SolFresh EXCEPT !.phase = "page", !.mem = x, !.last = x]
          IN  w \in SolRecord /\ w.phase = "page" /\ w.newest = 0
  /\ [SolFresh EXCEPT !.phase = "over"] \in SolRecord
  /\ [SolFresh EXCEPT !.phase = "over"].phase = "over"
<1>1. 0 \in Positions /\ SolCount \in Nat
  BY SolAssumption DEF Positions
<1>2. SolFresh \in SolRecord /\ SolFresh.phase = "idle"
  BY <1>1 DEF SolFresh, SolRecord
<1>3. /\ [SolFresh EXCEPT !.phase = "over"] \in SolRecord
      /\ [SolFresh EXCEPT !.phase = "over"].phase = "over"
  BY <1>2 DEF SolRecord
<1>4. \A x \in Positions : /\ [SolFresh EXCEPT !.mem = x] \in SolRecord
                           /\ [SolFresh EXCEPT !.mem = x].phase = "idle"
  BY <1>2 DEF SolRecord
<1>5. SolFresh.newest = 0
  BY DEF SolFresh
<1>6. \A x \in Positions :
        LET w == [SolFresh EXCEPT !.phase = "page", !.mem = x, !.last = x]
        IN  w \in SolRecord /\ w.phase = "page" /\ w.newest = 0
  BY <1>2, <1>5 DEF SolRecord
<1> QED BY <1>2, <1>3, <1>4, <1>6

LEMMA SolIsTyped ==
  ASSUME TypeInv, SolNext
  PROVE  SolTypeOK' /\ SolShape'
<1>0. /\ SolTypeOK /\ SolShape /\ SolCount \in Nat /\ SolHistory \in Nat
      /\ SolPage \in Nat /\ SolPage > 0 /\ Positions = 0 .. SolCount
      /\ sol \in SolRecord /\ sol.mem \in Positions /\ sol.last \in Positions
      /\ sol.oldest \in 0 .. SolCount + 1 /\ sol.newest \in Positions
  BY SolAssumption DEF TypeInv, TypeOK, SolTypeOK, SolRecord, Positions
<1> SUFFICES /\ sol' \in SolRecord /\ SolShape' /\ sigs' \in Positions
             /\ solSaved' \in Positions /\ coldSkip' \subseteq Positions
  BY DEF SolTypeOK, SolRecord
<1>1. CASE Sign
  BY <1>0, <1>1 DEF Sign, SolTypeOK, SolShape
<1>2. CASE SolReturns \/ SolRpcFails
  <2>1. \/ sol' = [SolFresh EXCEPT !.phase = "over"]
        \/ sol' = [SolFresh EXCEPT !.mem = sol.mem]
    BY <1>2 DEF SolReturns, SolRpcFails
  <2>2. sol' \in SolRecord /\ sol'.phase \in {"over", "idle"}
    <3>1. CASE sol' = [SolFresh EXCEPT !.phase = "over"]
      BY <3>1, SolUpdates
    <3>2. CASE sol' = [SolFresh EXCEPT !.mem = sol.mem]
      BY <1>0, <3>2, SolUpdates
    <3> QED BY <2>1, <3>1, <3>2
  <2> QED BY <1>0, <1>2, <2>2 DEF SolReturns, SolRpcFails, SolTypeOK, SolShape
<1>3. CASE SolRestore
  <2>1. PICK last \in {sol.mem, solSaved, 0} \cup LastRow :
          sol' = [SolFresh EXCEPT !.phase = "page", !.mem = last, !.last = last]
    BY <1>3 DEF SolRestore
  <2>2. last \in Positions
    <3>1. \A r \in LastRow : r \in 1 .. SolCount
      BY LastRowTypes
    <3> QED BY <1>0, <3>1 DEF SolTypeOK
  <2>3. sol' \in SolRecord /\ sol'.phase = "page" /\ sol'.newest = 0
    BY <2>1, <2>2, SolUpdates
  <2> QED BY <1>0, <1>3, <2>3 DEF SolRestore, SolTypeOK, SolShape
<1>4. CASE SolFetch
  <2>1. /\ sol.phase = "page" /\ UNCHANGED <<sigs, solSaved, coldSkip>>
    BY <1>4 DEF SolFetch
  <2>2. Top \in 0 .. sigs /\ sol.last \in Nat /\ sigs \in Nat /\ sigs <= SolCount
    BY <1>0, <2>1 DEF Top, SolTypeOK, SolShape
  <2>3. CASE Top <= sol.last
    <3>1. /\ sol' = [sol EXCEPT !.phase = IF sol.newest = 0 THEN "idle" ELSE "tx"]
      BY <1>4, <2>2, <2>3 DEF SolFetch
    <3> QED BY <1>0, <2>1, <2>2, <3>1 DEF SolTypeOK, SolShape, SolRecord
  <2>4. CASE Top > sol.last
    <3>1. Bottom \in sol.last .. Top - 1 /\ Newest \in Top .. sigs
      <4>1. Bottom \in sol.last .. Top - 1
        BY <1>0, <2>2, <2>4 DEF Bottom, Max2
      <4>2. CASE sol.newest = 0
        BY <2>2, <4>1, <4>2 DEF Newest
      <4>3. CASE sol.newest # 0
        BY <1>0, <2>1, <2>2, <4>1, <4>3 DEF Newest, Top, SolShape
      <4> QED BY <4>1, <4>2, <4>3
    <3>2. PICK p \in {"page", "cold", "tx"} :
            sol' = [sol EXCEPT !.oldest = Bottom + 1, !.newest = Newest, !.phase = p]
      <4>1. ~(Top <= sol.last)
        BY <2>2, <2>4
      <4> QED BY <1>4, <4>1 DEF SolFetch
    <3>3. /\ Bottom + 1 \in 0 .. SolCount + 1 /\ Newest \in Positions
          /\ Bottom + 1 \in 1 .. Newest /\ Bottom + 1 \in sol.last + 1 .. Newest /\ Newest <= sigs
      BY <1>0, <2>2, <3>1
    <3>4. sol' \in SolRecord
      BY <1>0, <3>2, <3>3 DEF SolRecord
    <3>5. /\ sol'.oldest = Bottom + 1 /\ sol'.newest = Newest /\ sol'.last = sol.last
          /\ sol'.phase = p
      BY <1>0, <3>2 DEF SolRecord
    <3> QED BY <1>0, <2>1, <3>3, <3>4, <3>5 DEF SolTypeOK, SolShape
  <2> QED BY <2>2, <2>3, <2>4
<1>5. CASE SolCold
  <2>1. PICK c \in {0, SolHistory} :
          sol' = [sol EXCEPT !.phase = "tx", !.mem = sol.newest, !.cold = TRUE, !.cutoff = c]
    BY <1>5 DEF SolCold
  <2>2. sol' \in SolRecord /\ sol'.phase = "tx" /\ sol'.oldest = sol.oldest /\ sol'.newest = sol.newest
    BY <1>0, <2>1 DEF SolRecord
  <2>3. Unseen \subseteq Positions
    BY <1>0 DEF Unseen
  <2>4. UNCHANGED sigs /\ solSaved' \in {solSaved, sol.newest} /\ coldSkip' = coldSkip \cup Unseen
    BY <1>5 DEF SolCold
  <2> QED BY <1>0, <1>5, <2>2, <2>3, <2>4 DEF SolCold, SolTypeOK, SolShape
<1>6. CASE \E i \in 1 .. SolCount : SolPass(i) \/ SolParse(i)
  BY <1>0, <1>6 DEF SolPass, SolParse, SolTypeOK, SolShape, SolRecord
<1>7. CASE SolPush
  BY <1>0, <1>7 DEF SolPush, SolTypeOK, SolShape, SolRecord
<1>8. CASE SolCommit
  <2>1. sol' = Advance(sol) /\ UNCHANGED sigs /\ sol.phase = "commit"
    BY <1>8 DEF SolCommit
  <2>2. solSaved' \in {solSaved, sol.oldest} /\ coldSkip' \subseteq coldSkip
    BY <1>8 DEF SolCommit
  <2>3. sol.oldest \in 1 .. sol.newest /\ sol.newest <= sigs /\ sol.oldest \in Positions
    BY <1>0, <2>1 DEF SolShape
  <2>4. CASE sol.oldest = sol.newest
    <3>1. sol' = [SolFresh EXCEPT !.mem = sol.oldest]
      BY <2>1, <2>4 DEF Advance
    <3>2. sol' \in SolRecord /\ sol'.phase = "idle"
      BY <2>3, <3>1, SolUpdates
    <3> QED BY <1>0, <2>1, <2>2, <2>3, <3>2 DEF SolTypeOK, SolShape
  <2>5. CASE sol.oldest # sol.newest
    <3>1. sol' = [sol EXCEPT !.phase = "tx", !.mem = sol.oldest, !.oldest = @ + 1]
      BY <2>1, <2>5 DEF Advance
    <3>2. /\ sol' \in SolRecord /\ sol'.phase = "tx" /\ sol'.oldest = sol.oldest + 1
          /\ sol'.newest = sol.newest
      <4>1. sol.oldest + 1 \in 0 .. SolCount + 1
        BY <1>0, <2>3
      <4> QED BY <1>0, <2>3, <3>1, <4>1 DEF SolRecord
    <3> QED BY <1>0, <2>1, <2>2, <2>3, <2>5, <3>2 DEF SolTypeOK, SolShape
  <2> QED BY <2>4, <2>5
<1> QED BY <1>1, <1>2, <1>3, <1>4, <1>5, <1>6, <1>7, <1>8 DEF SolNext, SolScan

Cursors == Stamps \cup {0, 1}
TronRecord == [phase : {"idle", "page", "push", "over"}, mem : Cursors, last : Cursors,
               max : Cursors, fp : 0 .. TronCount, pages : 0 .. TronPages, todo : SUBSET Transfers]

LEMMA TronUpdates ==
  /\ TronFresh \in TronRecord /\ TronFresh.phase = "idle" /\ TronFresh.pages < TronPages
  /\ [TronFresh EXCEPT !.phase = "over"] \in TronRecord
  /\ [TronFresh EXCEPT !.phase = "over"].phase = "over"
  /\ \A x \in Cursors : /\ [TronFresh EXCEPT !.mem = x] \in TronRecord
                        /\ [TronFresh EXCEPT !.mem = x].phase = "idle"
  /\ \A x \in Cursors, fp \in 0 .. TronCount :
       Round(x, fp) \in TronRecord /\ Round(x, fp).pages < TronPages
<1>1. 0 \in Cursors /\ TronCount \in Nat /\ TronPages \in Nat /\ TronPages > 0
  BY TronAssumption DEF Cursors
<1>2. TronFresh \in TronRecord /\ TronFresh.phase = "idle"
  BY <1>1 DEF TronFresh, TronRecord
<1>3. TronFresh.pages < TronPages
  BY <1>1 DEF TronFresh
<1>4. /\ [TronFresh EXCEPT !.phase = "over"] \in TronRecord
      /\ [TronFresh EXCEPT !.phase = "over"].phase = "over"
  BY <1>2 DEF TronRecord
<1>5. \A x \in Cursors : /\ [TronFresh EXCEPT !.mem = x] \in TronRecord
                         /\ [TronFresh EXCEPT !.mem = x].phase = "idle"
  BY <1>2 DEF TronRecord
<1>6. \A x \in Cursors, fp \in 0 .. TronCount :
        Round(x, fp) \in TronRecord /\ Round(x, fp).pages < TronPages
  <2> TAKE x \in Cursors, fp \in 0 .. TronCount
  <2>1. Round(x, fp) = [TronFresh EXCEPT !.phase = "page", !.mem = x, !.last = x,
                                         !.max = x, !.fp = fp]
    BY DEF Round
  <2> QED BY <1>2, <1>3, <2>1 DEF TronRecord
<1> QED BY <1>2, <1>3, <1>4, <1>5, <1>6

LEMMA TronIsTyped ==
  ASSUME TronTypeOK, TronShape, EntriesInv, TronNext
  PROVE  TronTypeOK' /\ TronShape'
<1>0. /\ tron \in TronRecord /\ tron.mem \in Cursors /\ tron.last \in Cursors
      /\ tron.max \in Cursors /\ tron.fp \in 0 .. TronCount /\ tron.pages \in 0 .. TronPages
      /\ tron.todo \subseteq Transfers /\ tronSaved \in [ts : Cursors, fp : 0 .. TronCount]
      /\ indexed \in 0 .. TronCount /\ TronCount \in Nat /\ TronPages \in Nat /\ TronPages > 0
  BY TronAssumption DEF TronTypeOK, TronRecord, Cursors
<1>s. \A k \in Transfers : Stamp[k] \in Cursors
  BY DEF Cursors, Stamps
<1> SUFFICES /\ tron' \in TronRecord /\ TronShape' /\ indexed' \in 0 .. TronCount
             /\ tronSaved' \in [ts : Cursors, fp : 0 .. TronCount]
  BY DEF TronTypeOK, TronRecord, Cursors
<1>1. CASE Index
  BY <1>0, <1>1 DEF Index, TronShape
<1>2. CASE TronStart
  <2>1. UNCHANGED <<indexed, tronSaved>>
    BY <1>2 DEF TronStart
  <2>2. \E x \in Cursors, fp \in 0 .. TronCount : tron' = Round(x, fp)
    <3>1. 0 \in 0 .. TronCount /\ 1 \in Cursors /\ tronSaved.ts \in Cursors
          /\ tronSaved.fp \in 0 .. TronCount
      BY <1>0 DEF Cursors
    <3>2. \A k \in TronRows : k \in Transfers
      <4>1. Rows \subseteq Real
        BY ElementTypes, ElementsOf DEF EntriesInv
      <4> QED BY <4>1 DEF TronRows, Real, Evm, Sol, Tron
    <3>3. \A k \in 1 .. indexed : k \in Transfers
      BY <1>0 DEF Transfers
    <3> QED BY <1>0, <1>2, <1>s, <3>1, <3>2, <3>3 DEF TronStart
  <2> QED BY <1>0, <2>1, <2>2, TronUpdates DEF TronShape
<1>3. CASE TronFetch
  <2> DEFINE page == PageOf(AllListed)
  <2>1. page \subseteq Transfers
    BY DEF PageOf, AllListed
  <2>2. PICK max \in {tron.max} \cup {Stamp[k] : k \in page}, fp \in {0} \cup page :
          tron' = [tron EXCEPT !.phase = "push", !.todo = page, !.max = max, !.fp = fp,
                               !.pages = @ + 1]
    BY <1>3 DEF TronFetch
  <2>3. max \in Cursors /\ fp \in 0 .. TronCount /\ tron.pages + 1 \in 0 .. TronPages
    BY <1>0, <1>3, <1>s, <2>1 DEF TronFetch, TronShape, Transfers
  <2>4. tron' \in TronRecord /\ tron'.phase = "push"
    <3> HIDE DEF page
    <3> QED BY <1>0, <2>1, <2>2, <2>3 DEF TronRecord
  <2> QED BY <1>0, <1>3, <2>4 DEF TronFetch, TronShape
<1>4. CASE TronFetchFails \/ TronReturns
  <2>1. tron' \in {[TronFresh EXCEPT !.mem = tron.mem], [TronFresh EXCEPT !.phase = "over"]}
    BY <1>4 DEF TronFetchFails, TronReturns
  <2> QED BY <1>0, <1>4, <2>1, TronUpdates DEF TronFetchFails, TronReturns, TronShape
<1>5. CASE \E k \in Transfers : TronPush(k)
  BY <1>0, <1>5 DEF TronPush, TronShape, TronRecord
<1>6. CASE TronPageDone
  <2>1. tronSaved' \in [ts : Cursors, fp : 0 .. TronCount]
    BY <1>0, <1>6 DEF TronPageDone, Persist
  <2>2. CASE tron.pages < TronPages
    BY <1>0, <1>6, <2>1, <2>2 DEF TronPageDone, TronShape, TronRecord
  <2>3. CASE ~(tron.pages < TronPages)
    BY <1>0, <1>6, <2>1, <2>3, TronUpdates DEF TronPageDone, TronShape
  <2> QED BY <2>2, <2>3
<1>7. CASE TronRoundDone
  BY <1>0, <1>7, TronUpdates DEF TronRoundDone, Persist, TronShape
<1> QED BY <1>1, <1>2, <1>3, <1>4, <1>5, <1>6, <1>7 DEF TronNext, TronScan

-------------------------------------------------------------------------------
LEMMA TypeInit == Init => TypeInv
<1> SUFFICES ASSUME Init  PROVE TypeInv
  OBVIOUS
<1>1. PipeInv
  <2>1. /\ << >> \in Seq(Payments) /\ << >> \in Seq(Real) /\ Len(<< >>) = 0
        /\ Capacity \in Nat /\ MaxStops \in Nat /\ MaxFaults \in Nat
    BY EmptySeq, PipelineAssumption
  <2> QED BY <2>1 DEF Init, PipelineInit, PipeInv, PipelineTypeOK, EntriesInv, GoneInv, AtStart
<1>2. EvmTypeOK /\ EvmShape
  <2>1. EvmFresh \in EvRecord
    BY EvmConstants DEF EvmFresh, EvRecord
  <2>2. EvmFresh.phase = "init"
    BY DEF EvmFresh
  <2> QED BY <2>1, <2>2, EvmConstants DEF Init, EvmInit, EvmTypeOK, EvRecord, EvmShape
<1>3. SolTypeOK /\ SolShape
  <2>1. SolFresh \in SolRecord /\ SolFresh.phase = "idle"
    BY SolUpdates
  <2>2. 0 \in Positions
    BY SolAssumption DEF Positions
  <2> QED BY <2>1, <2>2 DEF Init, SolInit, SolTypeOK, SolRecord, SolShape
<1>4. TronTypeOK /\ TronShape
  BY TronUpdates, TronAssumption DEF Init, TronInit, TronTypeOK, TronRecord, TronShape, Cursors
<1> QED BY <1>1, <1>2, <1>3, <1>4 DEF Init, TypeInv, TypeOK, PipeInv

(* Every step is one of one scanner, of the consumer, or ends the process. *)
EvmStep == EvmScan \/ EvmChain
Ends == Exit \/ Crash

LEMMA StepCases ==
  ASSUME Next
  PROVE  /\ chains' = chains
         /\ \/ (Consumer \/ Shutdown) /\ UNCHANGED <<evmVars, solVars, tronVars>>
            \/ EvmStep /\ UNCHANGED <<solVars, tronVars>>
            \/ SolNext /\ UNCHANGED <<evmVars, tronVars>>
            \/ TronNext /\ UNCHANGED <<evmVars, solVars>>
            \/ Ends /\ EvmForgets /\ SolForgets /\ TronForgets
BY DEF Next, ByPipeline, ByEvm, BySol, ByTron, Stops, EvmStep, Ends

LEMMA TypeStep == TypeInv /\ [Next]_vars => TypeInv'
<1> SUFFICES ASSUME TypeInv, [Next]_vars  PROVE TypeInv'
  OBVIOUS
<1>0. /\ PipeInv /\ EvmTypeOK /\ EvmShape /\ SolTypeOK /\ SolShape /\ TronTypeOK /\ TronShape
      /\ EntriesInv /\ chains \in Configs
  BY DEF TypeInv, TypeOK, PipeInv
<1>e. UNCHANGED evmVars => EvmTypeOK' /\ EvmShape'
  BY <1>0 DEF evmVars, EvmTypeOK, EvmShape
<1>s. UNCHANGED solVars => SolTypeOK' /\ SolShape'
  BY <1>0 DEF solVars, SolTypeOK, SolShape
<1>t. UNCHANGED tronVars => TronTypeOK' /\ TronShape'
  BY <1>0 DEF tronVars, TronTypeOK, TronShape
<1>q. ASSUME PipeInv', EvmTypeOK', EvmShape', SolTypeOK', SolShape', TronTypeOK', TronShape',
             chains' = chains
      PROVE  TypeInv'
  BY <1>0, <1>q DEF TypeInv, TypeOK, PipeInv
<1>1. CASE (Consumer \/ Shutdown) /\ UNCHANGED <<chains, evmVars, solVars, tronVars>>
  BY <1>0, <1>1, <1>e, <1>s, <1>t, <1>q, ConsumerIsTyped
<1>2. CASE EvmStep /\ UNCHANGED <<chains, solVars, tronVars>>
  BY <1>0, <1>2, <1>s, <1>t, <1>q, EvmIsQuiet, EvmIsTyped, QuietIsTyped, RealIsPayments DEF EvmStep
<1>3. CASE SolNext /\ UNCHANGED <<chains, evmVars, tronVars>>
  BY <1>0, <1>3, <1>e, <1>t, <1>q, SolIsQuiet, SolIsTyped, QuietIsTyped, RealIsPayments
<1>4. CASE TronNext /\ UNCHANGED <<chains, evmVars, solVars>>
  BY <1>0, <1>4, <1>e, <1>s, <1>q, TronIsQuiet, TronIsTyped, QuietIsTyped, RealIsPayments
<1>5. CASE Ends /\ EvmForgets /\ SolForgets /\ TronForgets /\ UNCHANGED chains
  <2>1. EvmTypeOK' /\ EvmShape'
    <3>1. EvmFresh \in EvRecord /\ EvmFresh.phase = "init"
      BY EvmConstants DEF EvmFresh, EvRecord
    <3> QED BY <1>0, <1>5, <3>1, EvmConstants DEF EvmForgets, EvmTypeOK, EvRecord, EvmShape
  <2>2. SolTypeOK' /\ SolShape'
    BY <1>0, <1>5, SolUpdates DEF SolForgets, SolTypeOK, SolRecord, SolShape
  <2>3. TronTypeOK' /\ TronShape'
    BY <1>0, <1>5, TronUpdates DEF TronForgets, TronTypeOK, TronRecord, TronShape, Cursors
  <2>4. PipeInv'
    BY <1>0, <1>5, StopsIsTyped DEF Ends
  <2> QED BY <1>5, <1>q, <2>1, <2>2, <2>3, <2>4
<1>6. CASE UNCHANGED vars
  <2>1. PipeInv'
    BY <1>0, <1>6 DEF vars, pipe, PipeInv, PipelineTypeOK, EntriesInv, GoneInv
  <2> QED BY <1>6, <2>1, <1>e, <1>s, <1>t, <1>q DEF vars
<1> QED BY <1>1, <1>2, <1>3, <1>4, <1>5, <1>6, StepCases

(* Every state is one of the types: nothing but payments of the chains is  *)
(* in the channel or in chain_transfers, and every scanner's variables     *)
(* stay in their ranges.                                                   *)
THEOREM ScannersTypeOK == Spec => []TypeOK
<1>1. TypeInv => TypeOK
  BY DEF TypeInv
<1> QED BY <1>1, TypeInit, TypeStep, PTL DEF Spec

THEOREM TypeInvariant == Spec => []TypeInv
BY TypeInit, TypeStep, PTL DEF Spec

-------------------------------------------------------------------------------
(* What each kind of step does to the payments that are accounted for. *)
Entries == Rows \cup Queued

LEMMA QuietKeeps ==
  ASSUME TypeInv, NEW S \in SUBSET Real, Quiet(S)
  PROVE  /\ Rows \subseteq Rows' /\ givenUp \subseteq givenUp' /\ Safe \subseteq Safe'
         /\ Entries' \subseteq Entries \cup S /\ mode' = mode /\ consumer' = consumer
<1>0. EntriesInv /\ Capacity \in Nat
  BY PipelineAssumption DEF TypeInv
<1>1. CASE Still(S)
  BY <1>1 DEF Still, Notes, Safe, Kept, Entries, Rows, Queued
<1>2. CASE Writes(S)
  <2> PICK p \in S : Insert(p)
    BY <1>2 DEF Writes
  <2>1. Rows' = Rows \cup {p}
    BY <1>0, InsertRows
  <2>2. Queued' = Queued
    BY <1>2 DEF Writes, Queued
  <2> QED BY <1>2, <2>1, <2>2 DEF Writes, Notes, Safe, Kept, Entries
<1>3. CASE Pushes(S)
  <2> PICK p \in S : Push(p)
    BY <1>3 DEF Pushes
  <2>1. Queued' = Queued \cup {p}
    BY <1>0, PushQueued
  <2>2. Rows' = Rows
    BY <1>3 DEF Pushes, Rows
  <2> QED BY <1>3, <2>1, <2>2 DEF Pushes, Safe, Kept, Entries
<1> QED BY <1>1, <1>2, <1>3 DEF Quiet

LEMMA ConsumerKeeps ==
  ASSUME TypeInv, Consumer \/ Shutdown
  PROVE  /\ Rows \subseteq Rows' /\ givenUp \subseteq givenUp' /\ Safe \subseteq Safe'
         /\ Entries' \subseteq Entries /\ mode' \in {mode, "stopping"}
<1>0. EntriesInv
  BY DEF TypeInv
<1>1. CASE ReadUnmatched
  <2>1. consumer.phase = "start" /\ consumer'.phase \in {"loop", "replay"}
    <3>1. PICK p, todo, later : /\ consumer' = [phase |-> p, todo |-> todo, later |-> later]
                              /\ p \in {"loop", "replay"}
      BY <1>1 DEF ReadUnmatched, Resume
    <3> QED BY <1>1, <3>1 DEF ReadUnmatched
  <2>2. givenUp \subseteq givenUp' /\ UNCHANGED <<mode, chan, table, lost>>
    BY <1>1 DEF ReadUnmatched
  <2> QED BY <2>1, <2>2 DEF Safe, Kept, Entries, Rows, Queued
<1>2. CASE \E i \in 1 .. Len(table) : Reprocess(i)
  <2>1. consumer.phase = "replay" /\ consumer'.phase \in {"loop", "replay"}
    <3>1. PICK i \in 1 .. Len(table) : Reprocess(i)
      BY <1>2
    <3>2. consumer \in Places(table)
      BY DEF TypeInv, TypeOK, PipelineTypeOK, Places
    <3> QED BY <3>1, <3>2 DEF Reprocess, Resume, Places
  <2> QED BY <1>2, <2>1 DEF Reprocess, Safe, Kept, Entries, Rows, Queued
<1>3. CASE Consume
  <2>1. Queued = {Head(chan)} \cup Queued' /\ Head(chan) \in Real
    <3>1. Queued' = Elements(Tail(chan))
      BY <1>3 DEF Consume, Queued, Elements
    <3> QED BY <1>0, <1>3, <3>1, TailElements, ElementsOf DEF Consume, EntriesInv
  <2>2. \/ Rows' = Rows \cup {Head(chan)} /\ givenUp' = givenUp
        \/ Rows' = Rows /\ givenUp' = givenUp \cup {Head(chan)}
    <3>1. CASE Insert(Head(chan)) /\ UNCHANGED givenUp
      <4>1. PICK p \in Real : p = Head(chan)
        BY <2>1
      <4>2. Insert(p)
        BY <3>1, <4>1
      <4>3. Rows' = Rows \cup {p}
        BY <1>0, <4>2, InsertRows
      <4> QED BY <3>1, <4>1, <4>3
    <3>2. CASE givenUp' = givenUp \cup {Head(chan)} /\ UNCHANGED table
      BY <3>2 DEF Rows
    <3> QED BY <1>3, <3>1, <3>2 DEF Consume
  <2>3. consumer.phase = "loop" /\ consumer'.phase = "loop" /\ lost' = lost /\ mode' = mode
    <3>1. consumer \in Places(table)
      BY DEF TypeInv, TypeOK, PipelineTypeOK, Places
    <3> QED BY <1>3, <3>1 DEF Consume, Leave, Places
  <2> QED BY <2>1, <2>2, <2>3 DEF Safe, Kept, Entries
<1>4. CASE Drained
  <2>1. Queued = {} /\ Queued' = {} /\ Rows' = Rows
    BY <1>4, ElementsOf DEF Drained, Queued, Rows, Elements
  <2> QED BY <1>4, <2>1 DEF Drained, Safe, Kept, Entries
<1>5. CASE Shutdown
  BY <1>5 DEF Shutdown, Safe, Kept, Entries, Rows, Queued
<1> QED BY <1>1, <1>2, <1>3, <1>4, <1>5 DEF Consumer

LEMMA EndsKeeps ==
  ASSUME TypeInv, Ends
  PROVE  /\ Rows \subseteq Rows' /\ givenUp \subseteq givenUp' /\ Safe \subseteq Safe'
         /\ Entries' \subseteq Entries
<1>1. Rows' = Rows /\ Queued' = {} /\ givenUp' = givenUp /\ consumer'.phase = "start"
  BY EmptySeq DEF Ends, Exit, Crash, Reboot, AtStart, Rows, Queued
<1>2. CASE Exit
  <2>1. consumer.phase = "gone" /\ lost' = lost
    BY <1>2 DEF Exit
  <2> QED BY <1>1, <2>1 DEF Safe, Kept, Entries
<1>3. CASE Crash
  <2>1. lost' = lost \cup (Queued \ Rows)
    BY <1>3 DEF Crash
  <2> QED BY <1>1, <2>1 DEF Safe, Kept, Entries
<1> QED BY <1>2, <1>3 DEF Ends

(* The drain: nothing that is accounted for is ever dropped, by no step of *)
(* any scanner, of the consumer, or of a process that ends.                *)
THEOREM DrainKeepsAll == Spec => DrainLosesNothing
<1>1. ASSUME TypeInv, Next
      PROVE  Safe \subseteq Safe'
  <2>1. CASE Consumer \/ Shutdown
    BY <1>1, <2>1, ConsumerKeeps
  <2>2. CASE EvmStep
    BY <1>1, <2>2, EvmIsQuiet, QuietKeeps, RealIsPayments DEF EvmStep
  <2>3. CASE SolNext
    BY <1>1, <2>3, SolIsQuiet, QuietKeeps, RealIsPayments
  <2>4. CASE TronNext
    BY <1>1, <2>4, TronIsQuiet, QuietKeeps, RealIsPayments
  <2>5. CASE Ends
    BY <1>1, <2>5, EndsKeeps
  <2> QED BY <1>1, <2>1, <2>2, <2>3, <2>4, <2>5, StepCases
<1>2. TypeInv /\ [Next]_vars => [Safe \subseteq Safe']_vars
  BY <1>1
<1> QED BY <1>2, TypeInvariant, PTL DEF Spec, DrainLosesNothing

(* While the process is up the channel is read. *)
LEMMA SafeWhileUp ==
  ASSUME TypeInv, mode = "up"
  PROVE  Safe = Kept \cup Queued /\ Entries \subseteq Safe
BY DEF TypeInv, GoneInv, Safe, Kept, Entries

LEMMA SafeIs ==
  Kept \subseteq Safe /\ Safe \subseteq Rows \cup Queued \cup givenUp \cup lost
BY DEF Safe, Kept
===============================================================================
