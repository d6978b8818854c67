--------------------------- MODULE EvmScanner_proofs ---------------------------
(***************************************************************************)
(* The EVM scanner records nothing that is not final and skips no payment, *)
(* for any number of nodes, blocks, payments, stops and faults, and any    *)
(* sizes of the windows; on a chain that is at least Delay blocks long,    *)
(* with nodes that are at most Delay blocks apart, and a start block that  *)
(* is on the chain.                                                        *)
(*                                                                         *)
(* The argument: the window in work ends Delay blocks below the highest    *)
(* node (EvmSafeInv), so that what is found in it stays (EvmFinalInv), no  *)
(* payment is mined below it later, and every node knows all of it; then   *)
(* what is at or below a cursor is recorded (EvmCursorInv), and so is what *)
(* is in the window but not yet worked off (EvmWindowInv).                 *)
(***************************************************************************)
EXTENDS ScannerPipeline_proofs, WellFoundedInduction

LongChain == Delay <= FirstHeight
ChainIsSettled == LongChain /\ MaxLag <= Delay /\ StartBlock <= FirstHeight + 1

EvmIs(k, S) == <<"evm", k>> \in S
SafeHeight(b) == \E n \in Nodes : b + Delay <= height[n]
Final(k) == block[k] # 0 /\ SafeHeight(block[k])

EvmSafeInv ==
  /\ ev.phase \in {"wallets", "logs"} => SafeHeight(ev.safe)
  /\ ev.phase = "logs" => ev.to <= ev.safe
  /\ ev.phase \in {"persist", "push", "commit"} => SafeHeight(ev.to)
  /\ evmSaved # 0 => SafeHeight(evmSaved)
EvmFinalInv ==
  /\ \A k \in EvmPayments : EvmIs(k, Entries) => Final(k)
  /\ \A k \in ev.found : Final(k)
  /\ ev.hand # 0 => Final(ev.hand)

SettledInv == EvmSafeInv /\ EvmFinalInv

-------------------------------------------------------------------------------
LEMMA EvmTypes ==
  ASSUME TypeInv
  PROVE  /\ ev \in EvRecord /\ ev.cursor \in Nat /\ ev.safe \in Nat /\ ev.to \in Nat
         /\ ev.found \subseteq EvmPayments /\ ev.hand \in EvmPayments \cup {0}
         /\ evmSaved \in Nat /\ watching \in BOOLEAN
         /\ \A n \in Nodes : height[n] \in FirstHeight .. MaxHeight /\ height[n] \in Nat
         /\ \A k \in EvmPayments : block[k] \in Nat /\ k # 0
         /\ EvmFresh.phase = "init" /\ EvmFresh.cursor = 0 /\ EvmFresh.found = {} /\ EvmFresh.hand = 0
<1>1. EvmTypeOK
  BY DEF TypeInv, TypeOK
<1>2. /\ ev \in EvRecord /\ evmSaved \in Nat /\ watching \in BOOLEAN
      /\ \A n \in Nodes : height[n] \in FirstHeight .. MaxHeight
      /\ \A k \in EvmPayments : block[k] \in 0 .. MaxHeight
  BY <1>1 DEF EvmTypeOK, EvRecord
<1>3. /\ ev.cursor \in Nat /\ ev.safe \in Nat /\ ev.to \in Nat /\ ev.found \subseteq EvmPayments
      /\ ev.hand \in EvmPayments \cup {0}
  BY <1>2 DEF EvRecord
<1>4. \A k \in EvmPayments : k # 0
  BY DEF EvmPayments
<1>5. EvmFresh.phase = "init" /\ EvmFresh.cursor = 0 /\ EvmFresh.found = {} /\ EvmFresh.hand = 0
  BY DEF EvmFresh
<1> QED BY <1>2, <1>3, <1>4, <1>5, EvmConstants

LEMMA SafeBlockIs ==
  ASSUME LongChain, NEW h \in FirstHeight .. MaxHeight
  PROVE  SafeBlock(h) + Delay = h
<1>1. h - Delay \in 0 .. Word - 1 /\ Word \in Nat /\ Word > 0 /\ h \in Nat /\ Delay \in Nat
  BY EvmConstants DEF LongChain
<1>2. \A a \in Nat, w \in Nat : a < w => a % w = a
  OBVIOUS
<1> QED BY <1>1, <1>2 DEF SafeBlock

(* The chain grows, and what is final stays so. *)
ChainGrows == /\ \A n \in Nodes : height'[n] \in Nat /\ height[n] <= height'[n]
              /\ \A k \in EvmPayments : Final(k) => block'[k] = block[k]

LEMMA ChainStays ==
  ASSUME TypeInv, ChainGrows
  PROVE  /\ \A b \in Nat : SafeHeight(b) => SafeHeight(b)'
         /\ \A k \in EvmPayments : Final(k) => Final(k)'
<1>1. \A b \in Nat : SafeHeight(b) => SafeHeight(b)'
  BY EvmTypes, EvmConstants DEF SafeHeight, ChainGrows
<1>2. \A k \in EvmPayments : Final(k) => Final(k)'
  <2> SUFFICES ASSUME NEW k \in EvmPayments, Final(k)  PROVE Final(k)'
    OBVIOUS
  <2> PICK b : b = block[k]
    OBVIOUS
  <2>1. b \in Nat /\ SafeHeight(b)' /\ block'[k] = b /\ b # 0
    BY <1>1, EvmTypes DEF Final, ChainGrows
  <2> QED BY <2>1 DEF Final, SafeHeight
<1> QED BY <1>1, <1>2

LEMMA ChainStep ==
  ASSUME TypeInv, EvmChain
  PROVE  ChainGrows /\ UNCHANGED <<ev, evmSaved>> /\ (watching => watching')
<1>0. /\ \A n \in Nodes : height[n] \in Nat
      /\ height \in [Nodes -> FirstHeight .. MaxHeight]
      /\ block \in [EvmPayments -> 0 .. MaxHeight]
      /\ \A k \in EvmPayments : block[k] \in Nat
      /\ Delay \in Nat
  BY EvmTypes, EvmConstants DEF TypeInv, TypeOK, EvmTypeOK
<1>1. CASE \E n \in Nodes : Mine(n)
  <2> PICK n \in Nodes : Mine(n)
    BY <1>1
  <2>1. height' = [height EXCEPT ![n] = height[n] + 1]
    BY DEF Mine
  <2>2. \A k \in EvmPayments : block[k] # 0 => block'[k] = block[k]
    BY DEF Mine
  <2>3. UNCHANGED <<ev, evmSaved, watching>>
    BY DEF Mine
  <2> QED BY <1>0, <2>1, <2>2, <2>3 DEF ChainGrows, Final
<1>2. CASE \E n \in Nodes : Reorganise(n)
  <2> PICK n \in Nodes : Reorganise(n)
    BY <1>2
  <2>1. \A k \in EvmPayments : Final(k) => block'[k] = block[k]
    <3> SUFFICES ASSUME NEW k \in EvmPayments, Final(k)  PROVE block'[k] = block[k]
      OBVIOUS
    <3>1. PICK m \in Nodes : block[k] + Delay <= height[m]
      BY DEF Final, SafeHeight
    <3>2. height[m] <= height[n]
      BY DEF Reorganise, Highest
    <3>3. ~(block[k] + Delay > height[n])
      BY <1>0, <3>1, <3>2
    <3> QED BY <3>3 DEF Reorganise
  <2> QED BY <1>0, <2>1 DEF Reorganise, ChainGrows
<1>3. CASE EnableWallets \/ \E n \in Nodes : NodeFails(n) \/ NodeRecovers(n)
  BY <1>0, <1>3 DEF EnableWallets, NodeFails, NodeRecovers, ChainGrows
<1> QED BY <1>1, <1>2, <1>3 DEF EvmChain

LEMMA ScanLeavesChain ==
  ASSUME TypeInv, EvmScan
  PROVE  UNCHANGED <<height, block, watching>> /\ ChainGrows
<1>1. UNCHANGED <<height, block, watching>>
  BY DEF EvmScan, InitCursor, ReadTip, FetchLogs, QueryWallets, FetchLogsFails,
         PersistTransfer, PushTransfer, CommitProgress, EvmReturns
<1> QED BY <1>1, EvmTypes DEF ChainGrows

(* What a step of the scanner does to its own variables. *)
LEMMA EvUpdate ==
  ASSUME TypeInv, NEW p, NEW x, NEW y
  PROVE  /\ LET e == [ev EXCEPT !.phase = p, !.safe = x]
            IN  /\ e.phase = p /\ e.safe = x /\ e.to = ev.to /\ e.found = ev.found
                /\ e.hand = ev.hand /\ e.cursor = ev.cursor
         /\ LET e == [ev EXCEPT !.phase = p, !.to = x]
            IN  /\ e.phase = p /\ e.safe = ev.safe /\ e.to = x /\ e.found = ev.found
                /\ e.hand = ev.hand /\ e.cursor = ev.cursor
         /\ LET e == [ev EXCEPT !.phase = p, !.found = x]
            IN  /\ e.phase = p /\ e.safe = ev.safe /\ e.to = ev.to /\ e.found = x
                /\ e.hand = ev.hand /\ e.cursor = ev.cursor
         /\ LET e == [ev EXCEPT !.phase = p, !.hand = x]
            IN  /\ e.phase = p /\ e.safe = ev.safe /\ e.to = ev.to /\ e.found = ev.found
                /\ e.hand = x /\ e.cursor = ev.cursor
         /\ LET e == [ev EXCEPT !.phase = p, !.found = x, !.hand = y]
            IN  /\ e.phase = p /\ e.safe = ev.safe /\ e.to = ev.to /\ e.found = x
                /\ e.hand = y /\ e.cursor = ev.cursor
         /\ LET e == [ev EXCEPT !.phase = p, !.cursor = x]
            IN  /\ e.phase = p /\ e.safe = ev.safe /\ e.to = ev.to /\ e.found = ev.found
                /\ e.hand = ev.hand /\ e.cursor = x
         /\ LET e == [ev EXCEPT !.phase = p]
            IN  /\ e.phase = p /\ e.safe = ev.safe /\ e.to = ev.to /\ e.found = ev.found
                /\ e.hand = ev.hand /\ e.cursor = ev.cursor
         /\ LET e == NextRound(x)
            IN  e.phase = "tip" /\ e.cursor = x /\ e.found = {} /\ e.hand = 0
<1>1. ev \in EvRecord
  BY EvmTypes
<1> QED BY <1>1 DEF EvRecord, NextRound, EvmFresh

LEMMA EvmSafeStep ==
  ASSUME LongChain, TypeInv, EvmSafeInv, EvmScan
  PROVE  EvmSafeInv'
<1>0. /\ UNCHANGED <<height, block>> /\ \A b \in Nat : SafeHeight(b)' <=> SafeHeight(b)
      /\ ev.cursor \in Nat /\ ev.safe \in Nat /\ ev.to \in Nat /\ evmSaved \in Nat
      /\ Delay \in Nat /\ Batch \in Nat /\ WideBatch \in Nat
      /\ \A n \in Nodes : height[n] \in Nat
  BY ScanLeavesChain, EvmTypes, EvmConstants DEF SafeHeight
<1>d. \A a, b \in Nat : a <= b /\ SafeHeight(b) => SafeHeight(a)
  <2> SUFFICES ASSUME NEW a \in Nat, NEW b \in Nat, a <= b, SafeHeight(b)  PROVE SafeHeight(a)
    OBVIOUS
  <2>1. PICK n \in Nodes : b + Delay <= height[n]
    BY DEF SafeHeight
  <2>2. a + Delay <= height[n]
    BY <1>0, <2>1
  <2> QED BY <2>2 DEF SafeHeight
<1>s. evmSaved' = evmSaved => (evmSaved' # 0 => SafeHeight(evmSaved'))
  BY DEF EvmSafeInv
<1> DEFINE Claim == /\ ev'.phase \in {"wallets", "logs"} => SafeHeight(ev'.safe)
                    /\ ev'.phase = "logs" => ev'.to <= ev'.safe
                    /\ ev'.phase \in {"persist", "push", "commit"} => SafeHeight(ev'.to)
                    /\ evmSaved' # 0 => SafeHeight(evmSaved')
<1>g. Claim => EvmSafeInv'
  BY <1>0 DEF EvmSafeInv, SafeHeight
<1>1. CASE \E n \in Nodes : InitCursor(n)
  <2> PICK n \in Nodes : InitCursor(n)
    BY <1>1
  <2>1. ev'.phase = "tip" /\ evmSaved' = evmSaved
    <3>1. PICK c : ev' = [ev EXCEPT !.phase = "tip", !.cursor = c]
      BY DEF InitCursor
    <3> QED BY <3>1, EvUpdate DEF InitCursor
  <2> QED BY <1>g, <1>s, <2>1
<1>2. CASE \E n \in Nodes : ReadTip(n)
  <2> PICK n \in Nodes : ReadTip(n)
    BY <1>2
  <2>1. /\ ev'.phase = "wallets" /\ ev'.safe = SafeBlock(height[n]) /\ evmSaved' = evmSaved
    BY EvUpdate DEF ReadTip
  <2>2. height[n] \in FirstHeight .. MaxHeight /\ height[n] \in Nat
    BY EvmTypes
  <2>3. SafeBlock(height[n]) + Delay = height[n]
    BY <2>2, SafeBlockIs
  <2>4. SafeHeight(SafeBlock(height[n]))
    BY <1>0, <2>3 DEF SafeHeight
  <2> QED BY <1>g, <1>s, <2>1, <2>4
<1>3. CASE QueryWallets
  <2>1. PICK to \in {Min2(ev.cursor + Batch, ev.safe), Min2(ev.cursor + WideBatch, ev.safe)},
             p \in {"logs", "commit"} :
          ev' = [ev EXCEPT !.phase = p, !.to = to]
    BY <1>3 DEF QueryWallets
  <2>2. ev'.phase = p /\ ev'.safe = ev.safe /\ ev'.to = to
    BY <2>1, EvUpdate
  <2>3. to \in Nat /\ to <= ev.safe
    BY <1>0, <2>1 DEF Min2
  <2>4. ev.phase = "wallets" /\ evmSaved' = evmSaved
    BY <1>3 DEF QueryWallets
  <2>5. SafeHeight(ev.safe) /\ SafeHeight(to)
    BY <1>0, <1>d, <2>3, <2>4 DEF EvmSafeInv
  <2> QED BY <1>g, <1>s, <2>2, <2>3, <2>4, <2>5
<1>4. CASE \E n \in Nodes : FetchLogs(n)
  <2> PICK n \in Nodes : FetchLogs(n)
    BY <1>4
  <2>1. PICK found \in SUBSET EvmPayments, p \in {"persist", "commit"} :
          ev' = [ev EXCEPT !.phase = p, !.found = found]
    BY DEF FetchLogs, After, Mined
  <2>2. ev'.phase = p /\ ev'.to = ev.to /\ ev.phase = "logs" /\ evmSaved' = evmSaved
    <3>1. ev'.phase = p /\ ev'.to = ev.to
      BY <2>1, EvUpdate
    <3> QED BY <3>1 DEF FetchLogs
  <2>3. SafeHeight(ev.to)
    BY <1>0, <1>d, <2>2 DEF EvmSafeInv
  <2> QED BY <1>g, <1>s, <2>2, <2>3
<1>5. CASE FetchLogsFails
  <2>1. ev'.phase = "tip" /\ evmSaved' = evmSaved
    BY <1>5, EvUpdate DEF FetchLogsFails
  <2> QED BY <1>g, <1>s, <2>1
<1>6. CASE \E k \in EvmPayments : PersistTransfer(k)
  <2>1. /\ ev'.phase = "push" /\ ev'.to = ev.to /\ ev.phase = "persist" /\ evmSaved' = evmSaved
    BY <1>6, EvUpdate DEF PersistTransfer
  <2> QED BY <1>g, <1>s, <2>1 DEF EvmSafeInv
<1>7. CASE PushTransfer
  <2>1. PICK rest \in SUBSET EvmPayments, p \in {"persist", "commit"} :
          ev' = [ev EXCEPT !.phase = p, !.found = rest, !.hand = 0]
    BY <1>7, EvmTypes DEF PushTransfer, After
  <2>2. ev'.phase = p /\ ev'.to = ev.to /\ ev.phase = "push" /\ evmSaved' = evmSaved
    <3>1. ev'.phase = p /\ ev'.to = ev.to
      BY <2>1, EvUpdate
    <3> QED BY <1>7, <3>1 DEF PushTransfer
  <2> QED BY <1>g, <1>s, <2>2 DEF EvmSafeInv
<1>8. CASE CommitProgress
  <2>1. /\ ev.phase = "commit" /\ evmSaved' \in {ev.to, evmSaved}
        /\ ev' \in {NextRound(ev.to), NextRound(ev.cursor)}
    BY <1>8 DEF CommitProgress
  <2>2. ev'.phase = "tip" /\ SafeHeight(ev.to)
    BY <2>1, EvUpdate DEF EvmSafeInv
  <2> QED BY <1>g, <1>s, <2>1, <2>2
<1>9. CASE EvmReturns
  <2>1. ev'.phase = "over" /\ evmSaved' = evmSaved
    BY <1>9, EvUpdate DEF EvmReturns
  <2> QED BY <1>g, <1>s, <2>1
<1> QED BY <1>1, <1>2, <1>3, <1>4, <1>5, <1>6, <1>7, <1>8, <1>9 DEF EvmScan

LEMMA PersistEntries ==
  ASSUME TypeInv, NEW k \in EvmPayments, PersistTransfer(k)
  PROVE  Entries' \subseteq Entries \cup {<<"evm", k>>}
<1>1. PICK p \in Real : p = <<"evm", k>>
  BY DEF Real, Evm
<1>2. UNCHANGED table \/ Insert(p)
  BY <1>1 DEF PersistTransfer
<1>3. Rows' \subseteq Rows \cup {p}
  BY <1>2, InsertRows DEF TypeInv, Rows
<1>4. Queued' = Queued
  BY DEF PersistTransfer, Queued
<1> QED BY <1>1, <1>3, <1>4 DEF Entries

LEMMA PushEntries ==
  ASSUME TypeInv, PushTransfer
  PROVE  Entries' \subseteq Entries \cup {<<"evm", ev.hand>>} /\ ev.hand # 0
<1>0. ev.hand # 0 /\ ev.hand \in EvmPayments
  BY EvmTypes DEF PushTransfer, TypeInv, EvmShape
<1>1. PICK p \in Real : p = <<"evm", ev.hand>>
  BY <1>0 DEF Real, Evm
<1>2. Push(p) /\ EntriesInv /\ Rows' = Rows
  BY <1>1 DEF PushTransfer, TypeInv, Rows
<1>3. Queued' = Queued \cup {p}
  BY <1>2, PushQueued, PipelineAssumption
<1> QED BY <1>0, <1>1, <1>2, <1>3 DEF Entries

LEMMA EvmFinalStep ==
  ASSUME LongChain, TypeInv, SettledInv, EvmScan
  PROVE  EvmFinalInv'
<1>0. /\ UNCHANGED <<height, block>> /\ Delay \in Nat /\ \A n \in Nodes : height[n] \in Nat
      /\ ev.to \in Nat /\ ev.safe \in Nat /\ ev.found \subseteq EvmPayments
      /\ \A k \in EvmPayments : block[k] \in Nat
  BY ScanLeavesChain, EvmTypes, EvmConstants
<1>1. /\ \A k \in EvmPayments : EvmIs(k, Entries) => Final(k)
      /\ \A k \in ev.found : Final(k)
      /\ ev.hand # 0 => Final(ev.hand)
  BY DEF SettledInv, EvmFinalInv
<1> DEFINE Claim == /\ \A k \in EvmPayments : EvmIs(k, Entries') => Final(k)
                    /\ \A k \in ev'.found : Final(k)
                    /\ ev'.hand # 0 => Final(ev'.hand)
<1>g. Claim => EvmFinalInv'
  BY <1>0 DEF EvmFinalInv, Final, SafeHeight, EvmIs
<1>e. UNCHANGED <<chan, table>> => Entries' = Entries
  BY DEF Entries, Rows, Queued
<1>2. CASE \E n \in Nodes : InitCursor(n)
  <2> PICK n \in Nodes : InitCursor(n)
    BY <1>2
  <2>1. PICK c : ev' = [ev EXCEPT !.phase = "tip", !.cursor = c]
    BY DEF InitCursor
  <2>2. ev'.found = ev.found /\ ev'.hand = ev.hand
    BY <2>1, EvUpdate
  <2>3. UNCHANGED <<chan, table>>
    BY DEF InitCursor
  <2> QED BY <1>1, <1>e, <1>g, <2>2, <2>3
<1>3. CASE \E n \in Nodes : ReadTip(n)
  <2>1. ev'.found = ev.found /\ ev'.hand = ev.hand
    BY <1>3, EvUpdate DEF ReadTip
  <2>2. UNCHANGED <<chan, table>>
    BY <1>3 DEF ReadTip, pipe
  <2> QED BY <1>1, <1>e, <1>g, <2>1, <2>2
<1>4. CASE QueryWallets
  <2>1. PICK to \in {Min2(ev.cursor + Batch, ev.safe), Min2(ev.cursor + WideBatch, ev.safe)},
             p \in {"logs", "commit"} :
          ev' = [ev EXCEPT !.phase = p, !.to = to]
    BY <1>4 DEF QueryWallets
  <2>2. ev'.found = ev.found /\ ev'.hand = ev.hand
    BY <2>1, EvUpdate
  <2>3. UNCHANGED <<chan, table>>
    BY <1>4 DEF QueryWallets
  <2> QED BY <1>1, <1>e, <1>g, <2>2, <2>3
<1>5. CASE \E n \in Nodes : FetchLogs(n)
  <2> PICK n \in Nodes : FetchLogs(n)
    BY <1>5
  <2> DEFINE found == Mined(ev.cursor + 1, Min2(ev.to, height[n]))
  <2>1. ev' = [ev EXCEPT !.phase = After(found), !.found = found]
    BY DEF FetchLogs
  <2>2. ev'.found = found /\ ev'.hand = ev.hand
    <3> HIDE DEF found
    <3> QED BY <2>1, EvUpdate
  <2>3. UNCHANGED <<chan, table>>
    BY DEF FetchLogs, pipe
  <2>4. ASSUME NEW k \in found  PROVE Final(k)
    <3>1. k \in EvmPayments /\ block[k] # 0 /\ block[k] <= Min2(ev.to, height[n])
      BY DEF Mined
    <3>2. block[k] <= ev.safe
      <4>1. ev.to <= ev.safe
        BY DEF FetchLogs, SettledInv, EvmSafeInv
      <4> QED BY <1>0, <3>1, <4>1 DEF Min2
    <3>3. PICK m \in Nodes : ev.safe + Delay <= height[m]
      BY DEF FetchLogs, SettledInv, EvmSafeInv, SafeHeight
    <3>4. block[k] + Delay <= height[m]
      BY <1>0, <3>1, <3>2, <3>3
    <3> QED BY <3>1, <3>4 DEF Final, SafeHeight
  <2> HIDE DEF found
  <2> QED BY <1>1, <1>e, <1>g, <2>2, <2>3, <2>4
<1>6. CASE FetchLogsFails \/ CommitProgress
  <2>1. PICK c : ev' = NextRound(c)
    BY <1>6 DEF FetchLogsFails, CommitProgress
  <2>2. ev'.found = {} /\ ev'.hand = 0
    BY <2>1, EvUpdate
  <2>3. UNCHANGED <<chan, table>>
    BY <1>6 DEF FetchLogsFails, CommitProgress, pipe
  <2> QED BY <1>1, <1>e, <1>g, <2>2, <2>3
<1>7. CASE \E k \in EvmPayments : PersistTransfer(k)
  <2> PICK k \in EvmPayments : PersistTransfer(k)
    BY <1>7
  <2>1. ev'.found = ev.found /\ ev'.hand = k /\ k \in ev.found
    BY EvUpdate DEF PersistTransfer
  <2>2. Final(k)
    BY <1>1, <2>1
  <2> QED BY <1>1, <1>g, <2>1, <2>2, PersistEntries DEF EvmIs
<1>8. CASE PushTransfer
  <2>1. PICK p \in {"persist", "commit"} :
          ev' = [ev EXCEPT !.phase = p, !.found = ev.found \ {ev.hand}, !.hand = 0]
    BY <1>8 DEF PushTransfer, After
  <2>2. ev'.found = ev.found \ {ev.hand} /\ ev'.hand = 0
    BY <2>1, EvUpdate
  <2>3. Entries' \subseteq Entries \cup {<<"evm", ev.hand>>} /\ ev.hand # 0
    BY <1>8, PushEntries
  <2> QED BY <1>1, <1>g, <2>2, <2>3 DEF EvmIs
<1>9. CASE EvmReturns
  <2>1. ev'.found = ev.found /\ ev'.hand = ev.hand
    BY <1>9, EvUpdate DEF EvmReturns
  <2>2. UNCHANGED <<chan, table>>
    BY <1>9 DEF EvmReturns, pipe
  <2> QED BY <1>1, <1>e, <1>g, <2>1, <2>2
<1> QED BY <1>2, <1>3, <1>4, <1>5, <1>6, <1>7, <1>8, <1>9 DEF EvmScan

(* A step of somebody else, or of the chain. *)
LEMMA SettledFrame ==
  ASSUME TypeInv, SettledInv, ChainGrows, evmSaved' = evmSaved,
         \A k \in EvmPayments : EvmIs(k, Entries') => EvmIs(k, Entries),
         ev' = ev \/ ev' = EvmFresh
  PROVE  SettledInv'
<1>1. /\ \A b \in Nat : SafeHeight(b) => SafeHeight(b)'
      /\ \A k \in EvmPayments : Final(k) => Final(k)'
  BY ChainStays
<1>2. EvmSafeInv'
  <2> PICK s, t, u : s = ev.safe /\ t = ev.to /\ u = evmSaved
    OBVIOUS
  <2>1. s \in Nat /\ t \in Nat /\ u \in Nat
    BY EvmTypes
  <2>2. u # 0 => SafeHeight(u)'
    BY <1>1, <2>1 DEF SettledInv, EvmSafeInv
  <2>3. CASE ev' = ev
    <3>1. /\ ev.phase \in {"wallets", "logs"} => SafeHeight(s)'
          /\ ev.phase \in {"persist", "push", "commit"} => SafeHeight(t)'
      BY <1>1, <2>1 DEF SettledInv, EvmSafeInv
    <3> QED BY <2>2, <2>3, <3>1 DEF SettledInv, EvmSafeInv
  <2>4. CASE ev' = EvmFresh
    BY <2>2, <2>4, EvmTypes DEF EvmSafeInv
  <2> QED BY <2>3, <2>4
<1>3. EvmFinalInv'
  <2>1. \A k \in EvmPayments : EvmIs(k, Entries)' => Final(k)'
    BY <1>1 DEF SettledInv, EvmFinalInv, EvmIs
  <2>2. \A k \in ev'.found : Final(k)'
    BY <1>1, EvmTypes DEF SettledInv, EvmFinalInv
  <2>3. \A k \in EvmPayments : k = ev'.hand => Final(k)'
    BY <1>1, EvmTypes DEF SettledInv, EvmFinalInv
  <2>4. ev'.hand \in EvmPayments \cup {0}
    BY EvmTypes
  <2> QED BY <2>1, <2>2, <2>3, <2>4 DEF EvmFinalInv
<1> QED BY <1>2, <1>3 DEF SettledInv

(* No payment that has been dealt with is forgotten. *)
RecordStays == /\ Rows \subseteq Rows' /\ givenUp \subseteq givenUp' /\ Safe \subseteq Safe'
               /\ unwritten \subseteq unwritten'

LEMMA DoneStays ==
  RecordStays => /\ EvmDone \subseteq EvmDone'
                 /\ \A k : EvmIs(k, Rows \cup givenUp) => EvmIs(k, Rows' \cup givenUp')
BY DEF RecordStays, EvmDone, EvmIs

LEMMA ScanRecords ==
  ASSUME TypeInv, EvmScan
  PROVE  RecordStays
<1>1. unwritten \subseteq unwritten'
  <2>1. CASE \E k \in EvmPayments : PersistTransfer(k)
    BY <2>1 DEF PersistTransfer
  <2>2. CASE UNCHANGED unwritten
    BY <2>2
  <2> QED BY <2>1, <2>2
      DEF EvmScan, InitCursor, ReadTip, FetchLogs, QueryWallets, FetchLogsFails,
          PushTransfer, CommitProgress, EvmReturns
<1> QED BY <1>1, EvmIsQuiet, QuietKeeps, RealIsPayments DEF RecordStays

(* What a step does that is not the scanner's. *)
LEMMA ElsewhereStep ==
  ASSUME TypeInv, Next
  PROVE  \/ EvmScan /\ mode' = mode
         \/ /\ ChainGrows /\ evmSaved' = evmSaved /\ (mode' = "up" => mode = "up") /\ ev' = ev
            /\ \A k \in EvmPayments : EvmIs(k, Entries') => EvmIs(k, Entries)
            /\ RecordStays
            /\ EvmChain \/ UNCHANGED <<height, block, watching>>
         \/ /\ ChainGrows /\ evmSaved' = evmSaved /\ ev' = EvmFresh
            /\ \A k \in EvmPayments : EvmIs(k, Entries') => EvmIs(k, Entries)
            /\ RecordStays /\ UNCHANGED <<height, block, watching>>
<1>f. \A k : <<"evm", k>> \notin Sol(1 .. SolCount) \cup Tron(Transfers)
  BY DEF Sol, Tron
<1>c. UNCHANGED <<height, block>> => ChainGrows
  BY EvmTypes DEF ChainGrows
<1>1. CASE (Consumer \/ Shutdown) /\ UNCHANGED evmVars
  <2>1. Entries' \subseteq Entries /\ mode' \in {mode, "stopping"} /\ RecordStays
    BY <1>1, ConsumerKeeps DEF evmVars, RecordStays
  <2> QED BY <1>1, <1>c, <2>1 DEF evmVars, EvmIs
<1>2. CASE SolNext /\ UNCHANGED evmVars
  <2>1. Entries' \subseteq Entries \cup Sol(1 .. SolCount) /\ mode' = mode /\ RecordStays
    BY <1>2, SolIsQuiet, QuietKeeps, RealIsPayments DEF evmVars, RecordStays
  <2> QED BY <1>2, <1>c, <1>f, <2>1 DEF evmVars, EvmIs
<1>3. CASE TronNext /\ UNCHANGED evmVars
  <2>1. Entries' \subseteq Entries \cup Tron(Transfers) /\ mode' = mode /\ RecordStays
    BY <1>3, TronIsQuiet, QuietKeeps, RealIsPayments DEF evmVars, RecordStays
  <2> QED BY <1>3, <1>c, <1>f, <2>1 DEF evmVars, EvmIs
<1>4. CASE EvmChain
  <2>1. UNCHANGED <<chan, table, consumer, mode, givenUp, lost, unwritten>>
    BY <1>4 DEF EvmChain, Mine, Reorganise, NodeFails, NodeRecovers, EnableWallets, pipe
  <2>2. Entries' = Entries /\ RecordStays
    BY <2>1 DEF Entries, Rows, Queued, RecordStays, Safe, Kept
  <2> QED BY <1>4, <2>1, <2>2, ChainStep
<1>5. CASE EvmScan
  BY <1>5, EvmIsQuiet, QuietKeeps, RealIsPayments
<1>6. CASE Ends /\ EvmForgets
  <2>1. Entries' \subseteq Entries /\ RecordStays
    BY <1>6, EndsKeeps DEF EvmForgets, RecordStays
  <2> QED BY <1>6, <1>c, <2>1 DEF EvmForgets, EvmIs
<1> QED BY <1>1, <1>2, <1>3, <1>4, <1>5, <1>6, StepCases DEF EvmStep

LEMMA SettledStep == LongChain /\ TypeInv /\ SettledInv /\ [Next]_vars => SettledInv'
<1> SUFFICES ASSUME LongChain, TypeInv, SettledInv, [Next]_vars  PROVE SettledInv'
  OBVIOUS
<1>1. CASE EvmScan
  BY <1>1, EvmSafeStep, EvmFinalStep DEF SettledInv
<1>2. CASE UNCHANGED vars
  <2>1. UNCHANGED <<ev, evmSaved, height, block>> /\ Entries' = Entries
    BY <1>2 DEF vars, evmVars, pipe, Entries, Rows, Queued
  <2>2. ChainGrows
    BY <2>1, EvmTypes DEF ChainGrows
  <2> QED BY <2>1, <2>2, SettledFrame
<1>3. CASE Next
  BY <1>1, <1>3, ElsewhereStep, SettledFrame
<1> QED BY <1>2, <1>3

LEMMA SettledInit == Init => SettledInv
<1> SUFFICES ASSUME Init  PROVE SettledInv
  OBVIOUS
<1>1. Rows = {} /\ Queued = {} /\ ev = EvmFresh /\ evmSaved = 0
  BY EmptySeq DEF Init, PipelineInit, EvmInit, Rows, Queued
<1>2. EvmFresh.phase = "init" /\ EvmFresh.found = {} /\ EvmFresh.hand = 0
  BY DEF EvmFresh
<1> QED BY <1>1, <1>2 DEF SettledInv, EvmSafeInv, EvmFinalInv, Entries, EvmIs

(* On a chain that is at least Delay blocks long, nothing that can still   *)
(* be reorganised away is in chain_transfers.                              *)
THEOREM EvmRecordsFinal ==
  ASSUME LongChain
  PROVE  Spec => []EvmRecordsAreFinal
<1>1. SettledInv => EvmRecordsAreFinal
  BY DEF SettledInv, EvmFinalInv, EvmRecordsAreFinal, Final, Entries, EvmIs
<1>2. TypeInv /\ SettledInv /\ [Next]_vars => SettledInv'
  BY SettledStep
<1> QED BY <1>1, <1>2, SettledInit, TypeInvariant, PTL DEF Spec

-------------------------------------------------------------------------------
Recorded(S) == S \subseteq EvmDone
InHand(k) == EvmIs(k, Rows \cup givenUp) \/ k \in unwritten
Reached(b) == \E n \in Nodes : b <= height[n]

LagInv == \A m, n \in Nodes : height[m] <= height[n] + MaxLag
EvmCursorInv ==
  /\ Reached(ev.cursor) /\ Recorded(Mined(1, ev.cursor)) /\ Recorded(Mined(1, evmSaved))
  /\ ~watching => \A k \in EvmPayments : block[k] = 0
EvmWindowInv == mode = "up" =>
  /\ ev.phase = "persist" => Recorded(Mined(1, ev.to) \ ev.found)
  /\ ev.phase = "push" => Recorded(Mined(1, ev.to) \ ev.found) /\ InHand(ev.hand)
  /\ ev.phase = "commit" => Recorded(Mined(1, ev.to))

SkipInv == SettledInv /\ LagInv /\ EvmCursorInv /\ EvmWindowInv

LEMMA ReachedFacts ==
  ASSUME TypeInv
  PROVE  /\ \A b \in Nat : SafeHeight(b) => Reached(b)
         /\ Reached(0)
         /\ SettledInv => Reached(evmSaved)
<1>0. Delay \in Nat /\ 0 \in Nodes /\ (\A n \in Nodes : height[n] \in Nat) /\ evmSaved \in Nat
  BY EvmTypes, EvmConstants
<1>1. \A b \in Nat : SafeHeight(b) => Reached(b)
  BY <1>0 DEF SafeHeight, Reached
<1>2. Reached(0)
  BY <1>0 DEF Reached
<1>3. SettledInv => Reached(evmSaved)
  BY <1>0, <1>1, <1>2 DEF SettledInv, EvmSafeInv
<1> QED BY <1>1, <1>2, <1>3

(* What is mined later is above the highest node, and only then does a     *)
(* payment appear.                                                         *)
LEMMA ChainBelow ==
  ASSUME TypeInv, LagInv, ~watching => \A k \in EvmPayments : block[k] = 0, EvmChain
  PROVE  /\ \A b \in Nat : Reached(b) => Mined(1, b)' \subseteq Mined(1, b) /\ Reached(b)'
         /\ LagInv'
         /\ ~watching' => \A k \in EvmPayments : block'[k] = 0
<1>0. /\ \A n \in Nodes : height[n] \in Nat
      /\ height \in [Nodes -> FirstHeight .. MaxHeight]
      /\ block \in [EvmPayments -> 0 .. MaxHeight]
      /\ MaxLag \in Nat
  BY EvmTypes, EvmConstants DEF TypeInv, TypeOK, EvmTypeOK
<1>1. CASE \E n \in Nodes : Mine(n)
  <2> PICK n \in Nodes : Mine(n)
    BY <1>1
  <2>1. height' = [height EXCEPT ![n] = height[n] + 1] /\ watching' = watching
    BY DEF Mine
  <2>m. \A m \in Nodes : height[n] + 1 - height[m] <= MaxLag
    BY <1>0 DEF Mine
  <2>2. PICK new \in SUBSET {k \in EvmPayments : block[k] = 0} :
          /\ new # {} => watching /\ Highest(n) /\ height[n] + 1 + Delay <= MaxHeight
          /\ block' = [k \in EvmPayments |-> IF k \in new THEN height[n] + 1 ELSE block[k]]
    BY Zenon DEF Mine
  <2>3. LagInv'
    <3> SUFFICES ASSUME NEW a \in Nodes, NEW b \in Nodes  PROVE height'[a] <= height'[b] + MaxLag
      BY DEF LagInv
    <3> QED BY <1>0, <2>1, <2>m DEF LagInv
  <2>4. ASSUME NEW b \in Nat, Reached(b)  PROVE Mined(1, b)' \subseteq Mined(1, b) /\ Reached(b)'
    <3>1. PICK m \in Nodes : b <= height[m]
      BY <2>4 DEF Reached
    <3>2. Reached(b)'
      BY <1>0, <2>1, <3>1 DEF Reached
    <3>3. \A k \in EvmPayments : k \in new => ~(block'[k] <= b)
      <4> SUFFICES ASSUME NEW k \in EvmPayments, k \in new  PROVE ~(block'[k] <= b)
        OBVIOUS
      <4>1. block'[k] = height[n] + 1
        BY <2>2
      <4>2. height[m] <= height[n]
        BY <2>2 DEF Highest
      <4> QED BY <1>0, <3>1, <4>1, <4>2
    <3>4. \A k \in EvmPayments : k \notin new => block'[k] = block[k]
      BY <2>2
    <3>5. \A k \in EvmPayments : block'[k] <= b => block'[k] = block[k]
      BY <3>3, <3>4
    <3> QED BY <3>2, <3>5 DEF Mined
  <2> QED BY <2>1, <2>2, <2>3, <2>4
<1>2. CASE \E n \in Nodes : Reorganise(n)
  <2>1. /\ \A k \in EvmPayments : block'[k] \in {0, block[k]}
        /\ UNCHANGED <<height, watching>>
    BY <1>2 DEF Reorganise
  <2>2. \A b \in Nat : Mined(1, b)' \subseteq Mined(1, b)
    BY <2>1 DEF Mined
  <2> QED BY <2>1, <2>2 DEF LagInv, Reached
<1>3. CASE EnableWallets \/ \E n \in Nodes : NodeFails(n) \/ NodeRecovers(n)
  BY <1>3 DEF EnableWallets, NodeFails, NodeRecovers, LagInv, Reached, Mined
<1> QED BY <1>1, <1>2, <1>3 DEF EvmChain

(* A step of somebody else, or of the chain. *)
LEMMA SkipFrame ==
  ASSUME TypeInv, SkipInv, evmSaved' = evmSaved, RecordStays,
         EvmChain \/ UNCHANGED <<height, block, watching>>,
         (ev' = ev /\ (mode' = "up" => mode = "up")) \/ ev' = EvmFresh
  PROVE  LagInv' /\ EvmCursorInv' /\ EvmWindowInv'
<1> PICK c, s, t : c = ev.cursor /\ s = evmSaved /\ t = ev.to
  OBVIOUS
<1>0. c \in Nat /\ s \in Nat /\ t \in Nat /\ Reached(c) /\ Reached(s) /\ Reached(0)
  BY EvmTypes, ReachedFacts DEF SkipInv, EvmCursorInv
<1>1. /\ \A b \in Nat : Reached(b) => Mined(1, b)' \subseteq Mined(1, b) /\ Reached(b)'
      /\ LagInv'
      /\ ~watching' => \A k \in EvmPayments : block'[k] = 0
  <2>1. CASE EvmChain
    BY <2>1, ChainBelow DEF SkipInv, EvmCursorInv
  <2>2. CASE UNCHANGED <<height, block, watching>>
    BY <2>2 DEF SkipInv, EvmCursorInv, LagInv, Mined, Reached
  <2> QED BY <2>1, <2>2
<1>2. \A S : Recorded(S) => S \subseteq EvmDone'
  BY DoneStays DEF Recorded
<1>h. \A k : InHand(k) => EvmIs(k, Rows' \cup givenUp') \/ k \in unwritten'
  BY DoneStays DEF InHand, RecordStays
<1>3. EvmCursorInv'
  <2>1. Recorded(Mined(1, c)) /\ Recorded(Mined(1, s))
    BY DEF SkipInv, EvmCursorInv
  <2>2. Recorded(Mined(1, c))' /\ Recorded(Mined(1, s))' /\ Reached(c)' /\ Reached(s)' /\ Reached(0)'
    BY <1>0, <1>1, <1>2, <2>1 DEF Recorded
  <2>3. CASE ev' = ev
    BY <1>1, <2>2, <2>3 DEF EvmCursorInv
  <2>4. CASE ev' = EvmFresh
    <3>1. Mined(1, 0) = {}
      BY EvmTypes DEF Mined
    <3>2. Mined(1, 0)' = {}
      BY <1>0, <1>1, <3>1
    <3>3. ev'.cursor = 0
      BY <2>4, EvmTypes
    <3>4. Recorded(Mined(1, ev.cursor))'
      BY <3>2, <3>3 DEF Recorded
    <3> QED BY <1>1, <2>2, <2>4, <3>3, <3>4 DEF EvmCursorInv
  <2> QED BY <2>3, <2>4
<1>4. EvmWindowInv'
  <2>1. CASE ev' = ev /\ (mode' = "up" => mode = "up")
    <3> SUFFICES ASSUME mode = "up", ev.phase \in {"persist", "push", "commit"}
                 PROVE  /\ ev.phase = "persist" => Recorded(Mined(1, t) \ ev.found)'
                        /\ ev.phase = "push" => Recorded(Mined(1, t) \ ev.found)' /\ InHand(ev.hand)'
                        /\ ev.phase = "commit" => Recorded(Mined(1, t))'
      BY <2>1 DEF EvmWindowInv
    <3>1. Reached(t)
      BY <1>0, ReachedFacts DEF SkipInv, SettledInv, EvmSafeInv
    <3>2. Mined(1, t)' \subseteq Mined(1, t)
      BY <1>0, <1>1, <3>1
    <3>3. /\ ev.phase = "persist" => Recorded(Mined(1, t) \ ev.found)
          /\ ev.phase = "push" => Recorded(Mined(1, t) \ ev.found) /\ InHand(ev.hand)
          /\ ev.phase = "commit" => Recorded(Mined(1, t))
      BY DEF SkipInv, EvmWindowInv
    <3>4. InHand(ev.hand) => InHand(ev.hand)'
      BY <1>h, <2>1 DEF InHand, EvmIs
    <3> QED BY <1>2, <2>1, <3>2, <3>3, <3>4 DEF Recorded
  <2>2. CASE ev' = EvmFresh
    BY <2>2, EvmTypes DEF EvmWindowInv
  <2> QED BY <2>1, <2>2
<1> QED BY <1>1, <1>3, <1>4

(* Where the code starts from the tip, or takes a failed query for an      *)
(* empty answer, givenUp has what it leaves behind.                        *)
LEMMA BehindRecords ==
  ASSUME NEW b, givenUp \cup Behind(b) \subseteq givenUp', Rows \subseteq Rows'
  PROVE  Mined(1, b) \subseteq EvmDone'
BY DEF Behind, Evm, Mined, EvmDone

LEMMA ConfiguredReached ==
  ASSUME ChainIsSettled, TypeInv, NEW n \in Nodes
  PROVE  Configured(height[n]) \in Nat /\ Reached(Configured(height[n]))
<1>1. /\ height[n] \in Nat /\ height[n] >= FirstHeight
      /\ FirstHeight \in Nat /\ StartBlock \in Nat /\ Delay \in Nat
      /\ StartBlock <= FirstHeight + 1
  BY EvmTypes, EvmConstants DEF ChainIsSettled
<1>2. StartAtTip(height[n]) \in Nat /\ StartAtTip(height[n]) <= height[n]
  BY <1>1 DEF StartAtTip
<1>3. Configured(height[n]) \in Nat /\ Configured(height[n]) <= height[n]
  BY <1>1, <1>2 DEF Configured
<1> QED BY <1>3 DEF Reached

LEMMA SkipScanStep ==
  ASSUME ChainIsSettled, TypeInv, SkipInv, EvmScan
  PROVE  LagInv' /\ EvmCursorInv' /\ EvmWindowInv'
<1>0. /\ UNCHANGED <<height, block, watching>> /\ mode' = mode /\ consumer' = consumer
      /\ RecordStays /\ EvmDone \subseteq EvmDone' /\ Rows \subseteq Rows'
  BY ScanLeavesChain, EvmIsQuiet, QuietKeeps, RealIsPayments, ScanRecords, DoneStays DEF RecordStays
<1>1. /\ \A b \in Nat : SafeHeight(b) => Reached(b)
      /\ ev.cursor \in Nat /\ ev.safe \in Nat /\ ev.to \in Nat /\ evmSaved \in Nat
      /\ ev.found \subseteq EvmPayments /\ ev.hand \in EvmPayments \cup {0}
  BY EvmTypes, ReachedFacts
<1> DEFINE Rec(S) == S \subseteq EvmDone'
           CursorClaim == Reached(ev'.cursor) /\ Rec(Mined(1, ev'.cursor)) /\ Rec(Mined(1, evmSaved'))
           WindowClaim == mode = "up" =>
             /\ ev'.phase = "persist" => Rec(Mined(1, ev'.to) \ ev'.found)
             /\ ev'.phase = "push" =>
                  /\ Rec(Mined(1, ev'.to) \ ev'.found)
                  /\ EvmIs(ev'.hand, Rows' \cup givenUp') \/ ev'.hand \in unwritten'
             /\ ev'.phase = "commit" => Rec(Mined(1, ev'.to))
<1>c. CursorClaim => LagInv' /\ EvmCursorInv'
  BY <1>0 DEF SkipInv, LagInv, EvmCursorInv, Reached, Mined, Recorded
<1>w. WindowClaim => EvmWindowInv'
  BY <1>0 DEF EvmWindowInv, Mined, Recorded, InHand, EvmIs
<1>2. \A S : Recorded(S) => Rec(S)
  BY <1>0 DEF Recorded
<1>3. Reached(ev.cursor) /\ Rec(Mined(1, ev.cursor)) /\ Rec(Mined(1, evmSaved))
  BY <1>2 DEF SkipInv, EvmCursorInv
<1>s. ev'.cursor = ev.cursor /\ evmSaved' = evmSaved => CursorClaim
  BY <1>3
<1> HIDE DEF Rec
<1>4. CASE \E n \in Nodes : InitCursor(n)
  <2> PICK n \in Nodes : InitCursor(n)
    BY <1>4
  <2>1. PICK c \in {evmSaved, Configured(height[n])} :
          /\ ev' = [ev EXCEPT !.phase = "tip", !.cursor = c]
          /\ c = evmSaved \/ givenUp' = givenUp \cup Behind(c)
    BY DEF InitCursor
  <2>2. ev'.phase = "tip" /\ ev'.cursor = c /\ evmSaved' = evmSaved
    <3>1. ev'.phase = "tip" /\ ev'.cursor = c
      BY <2>1, EvUpdate
    <3> QED BY <3>1 DEF InitCursor
  <2>3. Reached(c)
    BY <2>1, ConfiguredReached, ReachedFacts DEF SkipInv
  <2>4. Rec(Mined(1, c))
    <3>1. CASE c = evmSaved
      BY <1>3, <3>1
    <3>2. CASE givenUp' = givenUp \cup Behind(c)
      BY <1>0, <3>2, BehindRecords DEF Rec
    <3> QED BY <2>1, <3>1, <3>2
  <2> QED BY <1>3, <1>c, <1>w, <2>2, <2>3, <2>4
<1>5. CASE \E n \in Nodes : ReadTip(n)
  <2>1. ev'.phase = "wallets" /\ ev'.cursor = ev.cursor /\ evmSaved' = evmSaved
    <3>1. ev'.phase = "wallets" /\ ev'.cursor = ev.cursor
      BY <1>5, EvUpdate DEF ReadTip
    <3> QED BY <1>5, <3>1 DEF ReadTip
  <2> QED BY <1>c, <1>s, <1>w, <2>1
<1>6. CASE QueryWallets
  <2>1. PICK to \in {Min2(ev.cursor + Batch, ev.safe), Min2(ev.cursor + WideBatch, ev.safe)},
             p \in {"logs", "commit"} :
          /\ ev' = [ev EXCEPT !.phase = p, !.to = to]
          /\ p = "commit" /\ watching => givenUp' = givenUp \cup Behind(to)
    BY <1>6 DEF QueryWallets
  <2>2. ev'.phase = p /\ ev'.cursor = ev.cursor /\ ev'.to = to /\ evmSaved' = evmSaved
    <3>1. ev'.phase = p /\ ev'.cursor = ev.cursor /\ ev'.to = to
      BY <2>1, EvUpdate
    <3> QED BY <1>6, <3>1 DEF QueryWallets
  <2>3. p = "commit" => Rec(Mined(1, to))
    <3>1. CASE p = "commit" /\ watching
      BY <1>0, <2>1, <3>1, BehindRecords DEF Rec
    <3>2. CASE ~watching
      BY <3>2 DEF SkipInv, EvmCursorInv, Mined, Rec
    <3> QED BY <3>1, <3>2
  <2> QED BY <1>c, <1>s, <1>w, <2>1, <2>2, <2>3
<1>7. CASE \E n \in Nodes : FetchLogs(n)
  <2> PICK n \in Nodes : FetchLogs(n)
    BY <1>7
  <2> DEFINE found == Mined(ev.cursor + 1, Min2(ev.to, height[n]))
  <2>1. ev' = [ev EXCEPT !.phase = After(found), !.found = found]
    BY DEF FetchLogs
  <2>2. /\ ev'.phase = After(found) /\ ev'.found = found /\ ev'.cursor = ev.cursor /\ ev'.to = ev.to
        /\ evmSaved' = evmSaved
    <3>1. ev'.phase = After(found) /\ ev'.found = found /\ ev'.cursor = ev.cursor /\ ev'.to = ev.to
      <4> HIDE DEF found
      <4> QED BY <2>1, EvUpdate
    <3> QED BY <3>1 DEF FetchLogs
  <2>3. Min2(ev.to, height[n]) = ev.to
    <3>1. ev.to <= ev.safe /\ SafeHeight(ev.safe)
      BY DEF FetchLogs, SkipInv, SettledInv, EvmSafeInv
    <3>2. PICK m \in Nodes : ev.safe + Delay <= height[m]
      BY <3>1 DEF SafeHeight
    <3>3. height[m] <= height[n] + MaxLag /\ MaxLag <= Delay
      BY DEF SkipInv, LagInv, ChainIsSettled
    <3>4. ev.to <= height[n]
      BY <1>1, <3>1, <3>2, <3>3, EvmTypes, EvmConstants
    <3> QED BY <3>4 DEF Min2
  <2>4. Mined(1, ev.to) \ found \subseteq Mined(1, ev.cursor)
    BY <1>1, <2>3, EvmTypes DEF Mined
  <2>5. Rec(Mined(1, ev.to) \ found)
    BY <1>3, <2>4 DEF Rec
  <2>6. /\ After(found) \in {"persist", "commit"}
        /\ After(found) = "commit" => Mined(1, ev.to) \ found = Mined(1, ev.to)
    BY DEF After
  <2> HIDE DEF found
  <2> QED BY <1>c, <1>s, <1>w, <2>2, <2>5, <2>6
<1>8. CASE FetchLogsFails
  <2>1. ev'.phase = "tip" /\ ev'.cursor = ev.cursor /\ evmSaved' = evmSaved
    BY <1>8, EvUpdate DEF FetchLogsFails
  <2> QED BY <1>c, <1>s, <1>w, <2>1
<1>9. CASE \E k \in EvmPayments : PersistTransfer(k)
  <2> PICK k \in EvmPayments : PersistTransfer(k)
    BY <1>9
  <2>1. /\ ev.phase = "persist" /\ evmSaved' = evmSaved /\ ev'.phase = "push" /\ ev'.hand = k
        /\ ev'.found = ev.found /\ ev'.to = ev.to /\ ev'.cursor = ev.cursor
    <3>1. ev' = [ev EXCEPT !.phase = "push", !.hand = k]
      BY DEF PersistTransfer
    <3>2. /\ ev'.phase = "push" /\ ev'.hand = k
          /\ ev'.found = ev.found /\ ev'.to = ev.to /\ ev'.cursor = ev.cursor
      BY <3>1, EvUpdate
    <3> QED BY <3>2 DEF PersistTransfer
  <2>2. mode = "up" => EvmIs(k, Rows' \cup givenUp') \/ k \in unwritten'
    <3>1. CASE Insert(<<"evm", k>>)
      <4> PICK p \in Real : p = <<"evm", k>>
        BY DEF Real, Evm
      <4>1. Rows' = Rows \cup {p}
        BY <3>1, InsertRows DEF TypeInv
      <4> QED BY <4>1 DEF EvmIs
    <3>2. CASE mode = "up" => unwritten' = unwritten \cup {k}
      BY <3>2
    <3> QED BY <3>1, <3>2 DEF PersistTransfer
  <2>3. mode = "up" => Rec(Mined(1, ev.to) \ ev.found)
    BY <1>2, <2>1 DEF SkipInv, EvmWindowInv
  <2> QED BY <1>c, <1>s, <1>w, <2>1, <2>2, <2>3
<1>10. CASE PushTransfer
  <2> DEFINE rest == ev.found \ {ev.hand}
  <2>1. ev' = [ev EXCEPT !.phase = After(rest), !.found = rest, !.hand = 0]
    BY <1>10 DEF PushTransfer
  <2>2. /\ ev'.phase = After(rest) /\ ev'.found = rest /\ ev'.cursor = ev.cursor /\ ev'.to = ev.to
        /\ evmSaved' = evmSaved
    <3>1. ev'.phase = After(rest) /\ ev'.found = rest /\ ev'.cursor = ev.cursor /\ ev'.to = ev.to
      <4> HIDE DEF rest
      <4> QED BY <2>1, EvUpdate
    <3> QED BY <1>10, <3>1 DEF PushTransfer
  <2>3. mode = "up" => Rec(Mined(1, ev.to) \ rest)
    <3> SUFFICES ASSUME mode = "up" PROVE Rec(Mined(1, ev.to) \ rest)
      OBVIOUS
    <3>1. Rec(Mined(1, ev.to) \ ev.found) /\ InHand(ev.hand)
      BY <1>2, <1>10 DEF SkipInv, EvmWindowInv, PushTransfer
    <3>2. ev.hand \in EvmPayments => ev.hand \in EvmDone'
      <4> PICK p : p = <<"evm", ev.hand>>
        OBVIOUS
      <4>1. CASE p \in Rows \cup givenUp
        BY <1>0, <4>1 DEF RecordStays, EvmDone
      <4>2. CASE ev.hand \in unwritten
        <5>1. ev.hand \in EvmPayments
          BY <4>2 DEF TypeInv, TypeOK, EvmTypeOK
        <5>2. p \in Real
          BY <5>1 DEF Real, Evm
        <5>3. p \in Queued'
          BY <1>10, <5>2, PushQueued, PipelineAssumption DEF PushTransfer, TypeInv
        <5>4. p \in Safe'
          BY <1>0, <5>3 DEF TypeInv, GoneInv, Safe
        <5> QED BY <1>0, <4>2, <5>1, <5>4 DEF RecordStays, EvmDone
      <4> QED BY <3>1, <4>1, <4>2 DEF InHand, EvmIs
    <3>3. Mined(1, ev.to) \subseteq EvmPayments
      BY DEF Mined
    <3> QED BY <3>1, <3>2, <3>3 DEF Rec
  <2>4. /\ After(rest) \in {"persist", "commit"}
        /\ After(rest) = "commit" => Mined(1, ev.to) \ rest = Mined(1, ev.to)
    BY DEF After
  <2> HIDE DEF rest
  <2> QED BY <1>c, <1>s, <1>w, <2>2, <2>3, <2>4
<1>11. CASE CommitProgress
  <2>1. ev.phase = "commit"
    BY <1>11 DEF CommitProgress
  <2>2. CASE mode = "up" /\ evmSaved' = ev.to /\ ev' = NextRound(ev.to)
    <3>1. ev'.phase = "tip" /\ ev'.cursor = ev.to
      BY <2>2, EvUpdate
    <3>2. Reached(ev.to)
      BY <1>1, <2>1 DEF SkipInv, SettledInv, EvmSafeInv
    <3>3. Rec(Mined(1, ev.to))
      BY <1>2, <2>1, <2>2 DEF SkipInv, EvmWindowInv
    <3> QED BY <1>c, <1>w, <2>2, <3>1, <3>2, <3>3
  <2>3. CASE evmSaved' = evmSaved /\ ev' = NextRound(ev.cursor)
    <3>1. ev'.phase = "tip" /\ ev'.cursor = ev.cursor
      BY <2>3, EvUpdate
    <3> QED BY <1>c, <1>s, <1>w, <2>3, <3>1
  <2> QED BY <1>11, <2>2, <2>3 DEF CommitProgress, Saves
<1>12. CASE EvmReturns
  <2>1. ev'.phase = "over" /\ ev'.cursor = ev.cursor /\ evmSaved' = evmSaved
    BY <1>12, EvUpdate DEF EvmReturns
  <2> QED BY <1>c, <1>s, <1>w, <2>1
<1> QED BY <1>4, <1>5, <1>6, <1>7, <1>8, <1>9, <1>10, <1>11, <1>12 DEF EvmScan

LEMMA SkipStep == ChainIsSettled /\ TypeInv /\ SkipInv /\ [Next]_vars => SkipInv'
<1> SUFFICES ASSUME ChainIsSettled, TypeInv, SkipInv, [Next]_vars  PROVE SkipInv'
  OBVIOUS
<1>1. SettledInv'
  BY SettledStep DEF SkipInv, ChainIsSettled
<1>2. CASE EvmScan
  BY <1>1, <1>2, SkipScanStep DEF SkipInv
<1>3. CASE UNCHANGED vars
  <2>1. UNCHANGED <<ev, evmSaved, height, block, watching, mode>> /\ RecordStays
    BY <1>3 DEF vars, evmVars, pipe, Rows, Queued, RecordStays, Safe, Kept
  <2> QED BY <1>1, <2>1, SkipFrame DEF SkipInv
<1>4. CASE Next
  BY <1>1, <1>2, <1>4, ElsewhereStep, SkipFrame DEF SkipInv
<1> QED BY <1>3, <1>4

LEMMA SkipInit == Init => SkipInv
<1> SUFFICES ASSUME Init  PROVE SkipInv
  OBVIOUS
<1>1. /\ \A n \in Nodes : height[n] = FirstHeight
      /\ \A k \in EvmPayments : block[k] = 0
      /\ ev = EvmFresh /\ evmSaved = 0
  BY DEF Init, EvmInit
<1>2. EvmFresh.phase = "init" /\ EvmFresh.cursor = 0
  BY DEF EvmFresh
<1>3. LagInv /\ Reached(0)
  BY <1>1, EvmConstants DEF LagInv, Reached
<1>4. \A b : Mined(1, b) = {}
  BY <1>1 DEF Mined
<1>5. EvmCursorInv
  BY <1>1, <1>2, <1>3, <1>4 DEF EvmCursorInv, Recorded
<1>6. EvmWindowInv
  BY <1>1, <1>2 DEF EvmWindowInv
<1> QED BY <1>3, <1>5, <1>6, SettledInit DEF SkipInv

(* Every payment that the saved cursor has passed is in chain_transfers,   *)
(* or was left behind by a line of the code that says so, or was pushed    *)
(* without a row; with any number of nodes, at most Delay blocks apart, on *)
(* a chain of at least Delay blocks, and through any stops and faults.     *)
THEOREM EvmNoPaymentSkipped ==
  ASSUME ChainIsSettled
  PROVE  Spec => []EvmNothingSkipped
<1>1. SkipInv => EvmNothingSkipped
  BY DEF SkipInv, EvmCursorInv, EvmNothingSkipped, Recorded
<1>2. TypeInv /\ SkipInv /\ [Next]_vars => SkipInv'
  BY SkipStep
<1> QED BY <1>1, <1>2, SkipInit, TypeInvariant, PTL DEF Spec

-------------------------------------------------------------------------------
(* The cursor as CursorStream describes it.  What it has passed is final,  *)
(* and only CommitProgress moves it.                                       *)
LEMMA EvmStreamMoves ==
  ASSUME TypeInv, TypeInv', SkipInv, evmSaved' = evmSaved, RecordStays, ChainGrows, EvmChain \/ UNCHANGED block
  PROVE  EvmCursor!Stream
<1> PICK s : s = evmSaved
  OBVIOUS
<1>0. s \in Nat /\ Reached(s) /\ Delay \in Nat /\ \A n \in Nodes : height[n] \in Nat
  BY EvmTypes, EvmConstants, ReachedFacts DEF SkipInv
<1>t. \A k \in EvmPayments : block[k] \in Nat /\ block'[k] \in Nat
  BY EvmTypes, EvmConstants DEF TypeInv, TypeOK, EvmTypeOK
<1>1. ASSUME NEW k \in EvmPayments, block[k] # 0, block[k] <= s
      PROVE  block'[k] = block[k]
  <2>1. SafeHeight(s)
    BY <1>0, <1>1, <1>t DEF SkipInv, SettledInv, EvmSafeInv
  <2>2. SafeHeight(block[k])
    BY <1>0, <1>1, <1>t, <2>1 DEF SafeHeight
  <2> QED BY <1>1, <2>2 DEF ChainGrows, Final
<1>2. ASSUME NEW k \in EvmPayments, block'[k] # 0, block'[k] <= s
      PROVE  block'[k] = block[k]
  <2>1. CASE EvmChain
    <3>1. Mined(1, s)' \subseteq Mined(1, s)
      BY <1>0, <2>1, ChainBelow DEF SkipInv, EvmCursorInv
    <3>2. k \in Mined(1, s)'
      BY <1>2, <1>t DEF Mined
    <3>3. block[k] # 0 /\ block[k] <= s
      BY <3>1, <3>2 DEF Mined
    <3> QED BY <1>1, <3>3
  <2>2. CASE UNCHANGED block
    BY <2>2
  <2> QED BY <2>1, <2>2
<1>3. \A k \in EvmPayments :
        EvmCursor!Passed(block[k], s + 1) \/ EvmCursor!Passed(block'[k], s + 1)
          => block'[k] = block[k]
  BY <1>0, <1>1, <1>2, <1>t DEF EvmCursor!Passed
<1>4. EvmDone \subseteq EvmDone'
  BY DoneStays
<1> QED BY <1>3, <1>4 DEF EvmCursor!Stream

LEMMA EvmCursorMaps ==
  ASSUME ChainIsSettled, TypeInv, SkipInv, [Next]_vars
  PROVE  [EvmCursor!Next]_(EvmCursor!vars)
<1> USE DEF EvmCursor!Next
<1>0. TypeInv'
  BY TypeStep
<1>1. CASE EvmScan /\ evmSaved' = evmSaved
  <2>1. RecordStays
    BY <1>1, ScanRecords
  <2>2. UNCHANGED <<height, block>>
    BY <1>1 DEF EvmScan, InitCursor, ReadTip, FetchLogs, QueryWallets, FetchLogsFails,
                PersistTransfer, PushTransfer, CommitProgress, EvmReturns
  <2>3. ChainGrows
    BY <2>2, EvmTypes DEF ChainGrows
  <2> QED BY <1>0, <1>1, <2>1, <2>2, <2>3, EvmStreamMoves
<1>2. CASE EvmScan /\ evmSaved' # evmSaved
  <2>1. CommitProgress
    BY <1>2 DEF EvmScan, InitCursor, ReadTip, FetchLogs, QueryWallets, FetchLogsFails,
                PersistTransfer, PushTransfer, EvmReturns
  <2>2. /\ mode = "up" /\ ev.phase = "commit" /\ evmSaved' = ev.to
        /\ UNCHANGED <<block, chan, table, consumer, givenUp, lost, unwritten>>
    BY <1>2, <2>1 DEF CommitProgress, Saves
  <2>3. PICK t : t = ev.to
    OBVIOUS
  <2>4. t \in Nat /\ Recorded(Mined(1, t)) /\ \A k \in EvmPayments : block[k] \in Nat
    BY <2>2, <2>3, EvmTypes DEF SkipInv, EvmWindowInv
  <2>5. \A k \in EvmPayments : EvmCursor!Passed(block[k], t + 1) => k \in EvmDone
    BY <2>4 DEF EvmCursor!Passed, Recorded, Mined
  <2>6. EvmDone' = EvmDone /\ block' = block /\ (evmSaved + 1)' = t + 1
    BY <2>2, <2>3 DEF EvmDone, Rows, Safe, Kept, Queued
  <2> QED BY <2>5, <2>6 DEF EvmCursor!Move
<1>3. CASE Next
  BY <1>0, <1>1, <1>2, <1>3, ElsewhereStep, EvmStreamMoves
<1>4. CASE UNCHANGED vars
  <2>1. UNCHANGED <<block, evmSaved, chan, table, consumer, givenUp, lost, unwritten>>
    BY <1>4 DEF vars, evmVars, pipe
  <2>2. EvmDone' = EvmDone
    BY <2>1 DEF EvmDone, Rows, Safe, Kept, Queued
  <2> QED BY <2>1, <2>2 DEF EvmCursor!vars
<1> QED BY <1>3, <1>4

(* What the saved cursor has passed is final and was dealt with before, so *)
(* that a process that starts from it need not look back.                  *)
THEOREM EvmCursorIsKept ==
  ASSUME ChainIsSettled
  PROVE  Spec => EvmImplementsCursor
<1>1. Init => EvmCursor!Init
  <2> SUFFICES ASSUME Init PROVE EvmCursor!Init
    OBVIOUS
  <2>1. /\ block = [k \in EvmPayments |-> 0] /\ evmSaved = 0 /\ Rows = {} /\ givenUp = {}
        /\ unwritten = {}
    BY EmptySeq DEF Init, EvmInit, PipelineInit, Rows
  <2>2. EvmDone = {} /\ evmSaved + 1 \in {0, 1}
    BY <2>1 DEF EvmDone
  <2> QED BY <2>1, <2>2 DEF EvmCursor!Init
<1>2. TypeInv /\ SkipInv /\ [Next]_vars => SkipInv'
  BY SkipStep
<1>3. TypeInv /\ SkipInv /\ [Next]_vars => [EvmCursor!Next]_(EvmCursor!vars)
  BY EvmCursorMaps
<1> QED
  BY <1>1, <1>2, <1>3, SkipInit, TypeInvariant, PTL
  DEF Spec, EvmImplementsCursor, EvmCursor!Spec

-------------------------------------------------------------------------------
(* What becomes of a row.  No assumption on the chain is needed: rows are  *)
(* written before the push (PersistTransfer) or as they are handed over    *)
(* (Consume), and the table keeps its order.                               *)
OnItsWay == DoneWith \cup Queued
WithEvm(p) == ev.phase \in {"push", "over"} /\ p = <<"evm", ev.hand>>
WillBeWithEvm(p) == ev'.phase \in {"push", "over"} /\ p = <<"evm", ev'.hand>>

LEMMA RowsReachIs ==
  RowsReachTheMatcher <=>
    (consumer.phase # "start" =>
       \A i \in 1 .. Len(table) : table[i] \in OnItsWay \/ i \in consumer.todo \/ WithEvm(table[i]))
BY DEF RowsReachTheMatcher, OnItsWay, WithEvm

LEMMA InsertLast ==
  ASSUME EntriesInv, NEW p \in Real, Insert(p)
  PROVE  \A i \in 1 .. Len(table') : \/ i \in 1 .. Len(table) /\ table'[i] = table[i]
                                     \/ table'[i] = p
BY AppendProperties, LenProperties DEF EntriesInv, Insert

LEMMA OthersInsertNothing ==
  ASSUME SolNext \/ TronNext
  PROVE  UNCHANGED <<table, handed, mode, consumer>>
BY DEF SolNext, SolScan, Sign, SolRestore, SolFetch, SolCold, SolParse, SolPass, SolPush, SolCommit,
       SolRpcFails, SolReturns, TronNext, TronScan, Index, TronStart, TronFetch, TronFetchFails,
       TronPush, TronPageDone, TronRoundDone, TronReturns, pipe

LEMMA ConsumerRecord ==
  TypeInv => consumer \in Places(table)
BY DEF TypeInv, TypeOK, PipelineTypeOK, Places

(* Nothing that is on its way gets off it; the replay sets out anew. *)
LEMMA WayStays ==
  ASSUME TypeInv, Next, ~Ends, ~ReadUnmatched
  PROVE  OnItsWay \subseteq OnItsWay'
<1>0. EntriesInv /\ Capacity \in Nat
  BY PipelineAssumption DEF TypeInv
<1>1. ASSUME NEW S \in SUBSET Real, Quiet(S) PROVE OnItsWay \subseteq OnItsWay'
  <2>1. CASE Still(S) \/ Writes(S)
    BY <2>1 DEF Still, Writes, Notes, OnItsWay, DoneWith, Queued
  <2>2. CASE Pushes(S)
    <3> PICK p \in S : Push(p)
      BY <2>2 DEF Pushes
    <3>1. Queued' = Queued \cup {p}
      BY <1>0, PushQueued
    <3> QED BY <2>2, <3>1 DEF Pushes, OnItsWay, DoneWith
  <2> QED BY <1>1, <2>1, <2>2 DEF Quiet
<1>2. CASE EvmStep \/ SolNext \/ TronNext
  BY <1>1, <1>2, EvmIsQuiet, SolIsQuiet, TronIsQuiet, RealIsPayments DEF EvmStep
<1>3. CASE Consume
  <2>1. Queued = {Head(chan)} \cup Queued'
    <3>1. Queued' = Elements(Tail(chan))
      BY <1>3 DEF Consume, Queued, Elements
    <3> QED BY <1>0, <1>3, <3>1, TailElements, ElementsOf DEF Consume, EntriesInv
  <2>2. CASE UNCHANGED consumer /\ Head(chan) \in handed' \cup givenUp'
    BY <1>3, <2>1, <2>2 DEF Consume, OnItsWay, DoneWith
  <2>3. CASE consumer' = Leave(Head(chan)) /\ UNCHANGED <<handed, givenUp>>
    <3>1. consumer'.later = consumer.later \cup {Head(chan)}
      BY <2>3, ConsumerRecord DEF Leave, Places
    <3> QED BY <2>1, <2>3, <3>1 DEF OnItsWay, DoneWith
  <2> QED BY <1>3, <2>2, <2>3 DEF Consume
<1>4. CASE \E i \in 1 .. Len(table) : Reprocess(i)
  <2> PICK i \in 1 .. Len(table) : Reprocess(i)
    BY <1>4
  <2>1. consumer.later \subseteq consumer'.later
    BY ConsumerRecord DEF Reprocess, Places
  <2> QED BY <2>1 DEF Reprocess, OnItsWay, DoneWith, Queued
<1>5. CASE Drained \/ Shutdown
  <2>1. consumer'.later = consumer.later
    BY <1>5, ConsumerRecord DEF Drained, Shutdown, Places
  <2> QED BY <1>5, <2>1 DEF Drained, Shutdown, OnItsWay, DoneWith, Queued
<1> QED BY <1>2, <1>3, <1>4, <1>5, StepCases DEF Consumer

LEMMA RowsConsumer ==
  ASSUME TypeInv, RowsReachTheMatcher, Consumer \/ Shutdown,
         ReadUnmatched \/ OnItsWay \subseteq OnItsWay', ev' = ev
  PROVE  RowsReachTheMatcher'
<1>0. EntriesInv /\ Len(table) \in Nat
  BY ElementTypes DEF TypeInv, EntriesInv
<1> DEFINE Claim == \A i \in 1 .. Len(table') :
                      table'[i] \in OnItsWay' \/ i \in consumer'.todo \/ WillBeWithEvm(table'[i])
<1>g. Claim => RowsReachTheMatcher'
  BY DEF RowsReachTheMatcher, OnItsWay, WillBeWithEvm
<1>w. \A p : WithEvm(p) => WillBeWithEvm(p)
  BY DEF WithEvm, WillBeWithEvm
<1>i. consumer.phase # "start" =>
        \A i \in 1 .. Len(table) : table[i] \in OnItsWay \/ i \in consumer.todo \/ WithEvm(table[i])
  BY RowsReachIs
<1>1. CASE ReadUnmatched
  <2>1. UNCHANGED <<table, handed>>
    BY <1>1 DEF ReadUnmatched
  <2>2. ASSUME NEW i \in 1 .. Len(table), table[i] \notin handed
        PROVE  i \in consumer'.todo \/ table[i] \in consumer'.later \cup givenUp'
    <3>1. CASE \E found \in SUBSET (1 .. Len(table)) :
                 LET read == FirstOf(found) IN
                 /\ consumer' = [phase |-> Resume(read), todo |-> read, later |-> NotHanded(found \ read)]
                 /\ givenUp' = givenUp \cup NotHanded((1 .. Len(table)) \ found)
      <4>1. PICK found, read :
              /\ consumer' = [phase |-> Resume(read), todo |-> read, later |-> NotHanded(found \ read)]
              /\ givenUp' = givenUp \cup NotHanded((1 .. Len(table)) \ found)
        BY <3>1
      <4>2. consumer'.todo = read /\ consumer'.later = NotHanded(found \ read)
        BY <4>1
      <4> QED BY <2>2, <4>1, <4>2 DEF NotHanded
    <3>2. CASE consumer' = [phase |-> "loop", todo |-> {}, later |-> NotHanded(1 .. Len(table))]
      BY <2>2, <3>2 DEF NotHanded
    <3> QED BY <1>1, <3>1, <3>2 DEF ReadUnmatched
  <2> QED BY <1>g, <2>1, <2>2 DEF OnItsWay, DoneWith
<1>2. CASE \E i \in 1 .. Len(table) : Reprocess(i)
  <2> PICK r \in 1 .. Len(table) : Reprocess(r)
    BY <1>2
  <2>1. /\ consumer'.todo = consumer.todo \ {r} /\ consumer.phase = "replay"
        /\ table[r] \in handed' \cup consumer'.later /\ UNCHANGED table
    BY ConsumerRecord DEF Reprocess, Places
  <2>2. table[r] \in OnItsWay' /\ OnItsWay \subseteq OnItsWay'
    <3>1. ~ReadUnmatched
      BY <2>1 DEF ReadUnmatched
    <3> QED BY <2>1, <3>1 DEF OnItsWay, DoneWith
  <2> QED BY <1>g, <1>i, <1>w, <2>1, <2>2
<1>3. CASE Consume
  <2>1. consumer.phase = "loop" /\ consumer'.todo = consumer.todo /\ OnItsWay \subseteq OnItsWay'
    <3>1. consumer.phase = "loop" /\ consumer'.todo = consumer.todo
      BY <1>3, ConsumerRecord DEF Consume, Leave, Places
    <3>2. ~ReadUnmatched
      BY <3>1 DEF ReadUnmatched
    <3> QED BY <3>1, <3>2
  <2>2. PICK p \in Real : p = Head(chan)
    BY <1>0, <1>3, TailElements DEF Consume, EntriesInv
  <2>3. p \in handed' \cup givenUp' \cup consumer'.later
    BY <1>3, <2>2, ConsumerRecord DEF Consume, Leave, Places
  <2>4. \A i \in 1 .. Len(table') : \/ i \in 1 .. Len(table) /\ table'[i] = table[i]
                                    \/ table'[i] = p
    BY <1>0, <1>3, <2>2, InsertLast DEF Consume
  <2> QED BY <1>g, <1>i, <1>w, <2>1, <2>3, <2>4 DEF OnItsWay, DoneWith
<1>4. CASE Drained \/ Shutdown
  <2>1. /\ consumer'.todo = consumer.todo
        /\ consumer.phase = "start" => consumer'.phase = "start"
        /\ UNCHANGED table
    BY <1>4, ConsumerRecord DEF Drained, Shutdown, Places
  <2>2. CASE consumer.phase = "start"
    BY <2>1, <2>2 DEF RowsReachTheMatcher
  <2>3. CASE consumer.phase # "start"
    <3>1. ~ReadUnmatched
      BY <2>3 DEF ReadUnmatched
    <3> QED BY <1>g, <1>i, <1>w, <2>1, <2>3, <3>1
  <2> QED BY <2>2, <2>3
<1> QED BY <1>1, <1>2, <1>3, <1>4 DEF Consumer

LEMMA RowsScanner ==
  ASSUME TypeInv, RowsReachTheMatcher, EvmScan, OnItsWay \subseteq OnItsWay'
  PROVE  RowsReachTheMatcher'
<1>0. EntriesInv /\ Len(table) \in Nat /\ Capacity \in Nat
  BY ElementTypes, PipelineAssumption DEF TypeInv, EntriesInv
<1>1. mode' = mode /\ consumer' = consumer
  BY EvmIsQuiet, QuietKeeps, RealIsPayments
<1> DEFINE Claim == consumer.phase # "start" => \A i \in 1 .. Len(table') :
                      table'[i] \in OnItsWay' \/ i \in consumer.todo \/ WillBeWithEvm(table'[i])
<1>g. Claim => RowsReachTheMatcher'
  BY <1>1 DEF RowsReachTheMatcher, OnItsWay, WillBeWithEvm
<1>i. consumer.phase # "start" =>
        \A i \in 1 .. Len(table) : table[i] \in OnItsWay \/ i \in consumer.todo \/ WithEvm(table[i])
  BY RowsReachIs
<1>2. CASE \E k \in EvmPayments : PersistTransfer(k)
  <2> PICK k \in EvmPayments : PersistTransfer(k)
    BY <1>2
  <2>1. PICK p \in Real : p = <<"evm", k>>
    BY DEF Real, Evm
  <2>2. ev.phase = "persist" /\ ev'.phase = "push" /\ ev'.hand = k
    BY EvUpdate DEF PersistTransfer
  <2>3. \A i \in 1 .. Len(table) : ~WithEvm(table[i])
    BY <2>2 DEF WithEvm, WillBeWithEvm
  <2>4. \A i \in 1 .. Len(table') : (i \in 1 .. Len(table) /\ table'[i] = table[i]) \/ table'[i] = p
    BY <1>0, <2>1, InsertLast DEF PersistTransfer
  <2>5. \A i \in 1 .. Len(table') : table'[i] = p => WillBeWithEvm(table'[i])
    BY <2>1, <2>2 DEF WithEvm, WillBeWithEvm
  <2> QED BY <1>g, <1>i, <2>3, <2>4, <2>5
<1>3. CASE PushTransfer
  <2>1. ev.phase = "push" /\ ev.hand \in EvmPayments /\ UNCHANGED table
    BY <1>3, EvmTypes DEF PushTransfer, TypeInv, EvmShape
  <2>2. PICK p \in Real : p = <<"evm", ev.hand>>
    BY <2>1 DEF Real, Evm
  <2>3. p \in OnItsWay'
    BY <1>0, <1>3, <2>2, PushQueued DEF PushTransfer, OnItsWay, DoneWith
  <2>4. \A i \in 1 .. Len(table) : WithEvm(table[i]) => table[i] = p
    BY <2>1, <2>2 DEF WithEvm, WillBeWithEvm
  <2> QED BY <1>g, <1>i, <2>1, <2>3, <2>4
<1>4. CASE EvmReturns
  <2>1. ev'.phase = "over" /\ ev'.hand = ev.hand /\ UNCHANGED table
    <3>1. ev'.phase = "over" /\ ev'.hand = ev.hand
      BY <1>4, EvUpdate DEF EvmReturns
    <3> QED BY <1>4, <3>1 DEF EvmReturns, pipe
  <2>2. \A p : WithEvm(p) => WillBeWithEvm(p)
    BY <2>1 DEF WithEvm, WillBeWithEvm
  <2> QED BY <1>g, <1>i, <2>1, <2>2
<1>5. CASE \/ \E n \in Nodes : InitCursor(n) \/ ReadTip(n) \/ FetchLogs(n)
           \/ QueryWallets \/ FetchLogsFails \/ CommitProgress
  <2>1. ev.phase \notin {"push", "over"} /\ UNCHANGED table
    BY <1>5 DEF InitCursor, ReadTip, FetchLogs, QueryWallets, FetchLogsFails, CommitProgress, pipe
  <2>2. \A i \in 1 .. Len(table) : ~WithEvm(table[i])
    BY <2>1 DEF WithEvm, WillBeWithEvm
  <2> QED BY <1>g, <1>i, <2>1, <2>2
<1> QED BY <1>2, <1>3, <1>4, <1>5 DEF EvmScan

(* A transfer on record reaches the matcher or is left behind by a line of *)
(* the code, whatever crash, stop or full channel comes in between: the    *)
(* table, not the channel, is what the pipeline loses nothing from.        *)
THEOREM RecordedReachMatcher == Spec => []RowsReachTheMatcher
<1>1. Init => RowsReachTheMatcher
  BY DEF Init, PipelineInit, AtStart, RowsReachTheMatcher
<1>2. TypeInv /\ RowsReachTheMatcher /\ [Next]_vars => RowsReachTheMatcher'
  <2> SUFFICES ASSUME TypeInv, RowsReachTheMatcher, [Next]_vars PROVE RowsReachTheMatcher'
    OBVIOUS
  <2>1. CASE UNCHANGED <<table, consumer, ev>> /\ OnItsWay \subseteq OnItsWay'
    BY <2>1 DEF RowsReachTheMatcher, OnItsWay
  <2>2. CASE UNCHANGED vars
    BY <2>1, <2>2 DEF vars, evmVars, pipe, OnItsWay, DoneWith, Queued
  <2>3. CASE Next /\ Ends
    <3>1. consumer'.phase = "start"
      BY <2>3 DEF Ends, Exit, Crash, Reboot, AtStart
    <3> QED BY <3>1 DEF RowsReachTheMatcher
  <2>4. CASE Next /\ ~Ends
    <3>1. ReadUnmatched \/ OnItsWay \subseteq OnItsWay'
      BY <2>4, WayStays
    <3>r. ReadUnmatched => consumer' # consumer
      <4> SUFFICES ASSUME ReadUnmatched  PROVE consumer' # consumer
        OBVIOUS
      <4>1. PICK p, todo, later : /\ consumer' = [phase |-> p, todo |-> todo, later |-> later]
                                /\ p \in {"loop", "replay"}
        BY DEF ReadUnmatched, Resume
      <4> QED BY <4>1 DEF ReadUnmatched
    <3>2. CASE (Consumer \/ Shutdown) /\ UNCHANGED evmVars
      BY <3>1, <3>2, RowsConsumer DEF evmVars
    <3>3. CASE EvmScan
      BY <3>1, <3>3, <3>r, RowsScanner, EvmIsQuiet, QuietKeeps, RealIsPayments
    <3>4. CASE EvmChain
      <4>1. UNCHANGED <<table, consumer, ev>>
        BY <3>4 DEF EvmChain, Mine, Reorganise, EnableWallets, NodeFails, NodeRecovers, pipe
      <4> QED BY <2>1, <3>1, <3>r, <4>1
    <3>5. CASE (SolNext \/ TronNext) /\ UNCHANGED evmVars
      BY <2>1, <3>1, <3>5, <3>r, OthersInsertNothing DEF evmVars
    <3> QED BY <2>4, <3>2, <3>3, <3>4, <3>5, StepCases DEF EvmStep
  <2> QED BY <2>2, <2>3, <2>4
<1> QED BY <1>1, <1>2, TypeInvariant, PTL DEF Spec

-------------------------------------------------------------------------------
(* The ring of nodes (doRPC). *)
LEMMA LeastElement ==
  ASSUME NEW S \in SUBSET Nat, S # {}
  PROVE  \E m \in S : \A k \in S : m <= k
<1>1. PICK R : R = OpToRel(<, Nat)
  OBVIOUS
<1>2. IsWellFoundedOn(R, Nat)
  BY <1>1, NatLessThanWellFounded
<1>3. PICK m \in S : \A k \in S : <<k, m>> \notin R
  BY <1>2, WFMin
<1>4. \A k \in S : ~(k < m)
  BY <1>1, <1>3 DEF OpToRel
<1>5. \A k \in S : k \in Nat /\ m \in Nat
  OBVIOUS
<1> QED BY <1>4, <1>5

LEMMA DistanceIs ==
  ASSUME current \in Nodes, NEW n \in Nodes
  PROVE  Distance(n) = IF n >= current THEN n - current ELSE n - current + NumNodes
<1>1. NumNodes \in Nat \ {0}
  BY EvmAssumption
<1>2. ASSUME NEW N \in Nat \ {0}, NEW a \in Int, -N < a, a < N
      PROVE  a % N = IF a >= 0 THEN a ELSE a + N
  BY <1>2
<1>3. /\ n - current \in Int /\ -NumNodes < n - current /\ n - current < NumNodes
      /\ n \in Nat /\ current \in Nat
  BY <1>1 DEF Nodes
<1>4. Distance(n) = IF n - current >= 0 THEN n - current ELSE n - current + NumNodes
  BY <1>1, <1>2, <1>3 DEF Distance
<1> QED BY <1>3, <1>4

(* A request is answered by exactly one node, the first in the ring that   *)
(* is not down, as long as one is not: it fails only when all of them do.  *)
THEOREM OneNodeAnswers ==
  ASSUME TypeOK, Answered, down # Nodes
  PROVE  \E n \in Nodes : Answers(n) /\ \A m \in Nodes : Answers(m) => m = n
<1>0. /\ current \in Nodes /\ down \subseteq Nodes
      /\ NumNodes \in Nat /\ NumNodes > 0 /\ \A n \in Nodes : n \in Nat /\ n < NumNodes
  <2>1. current \in Nodes /\ down \subseteq Nodes
    BY DEF TypeOK, EvmTypeOK
  <2> QED BY <2>1, EvmAssumption DEF Nodes
<1>1. \A n \in Nodes : Distance(n) \in Nat
  BY <1>0, DistanceIs
<1>2. \A m, n \in Nodes : Distance(m) = Distance(n) => m = n
  BY <1>0, DistanceIs
<1>3. PICK S : S = {Distance(n) : n \in Nodes \ down}
  OBVIOUS
<1>4. S \in SUBSET Nat /\ S # {}
  BY <1>0, <1>1, <1>3
<1>5. PICK d \in S : \A k \in S : d <= k
  BY <1>4, LeastElement
<1>6. PICK n \in Nodes \ down : Distance(n) = d
  BY <1>3, <1>5
<1>7. Answers(n)
  BY <1>3, <1>5, <1>6 DEF Answers
<1>8. ASSUME NEW m \in Nodes, Answers(m) PROVE m = n
  <2>1. Distance(m) <= Distance(n) /\ Distance(n) <= Distance(m)
    BY <1>6, <1>7, <1>8 DEF Answers
  <2> QED BY <1>1, <1>2, <1>6, <1>8, <2>1
<1> QED BY <1>6, <1>7, <1>8
===============================================================================
