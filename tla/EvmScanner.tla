------------------------------ MODULE EvmScanner ------------------------------
(***************************************************************************)
(* scanner/evm_scanner.go and scanner/evm_rpc_client.go: a cursor that     *)
(* follows the chain at a distance of Delay blocks in windows of Batch     *)
(* blocks, the transfers of a window persisted and then pushed one by one, *)
(* the cursor saved after them; and the client that asks the nodes in turn *)
(* until one answers.                                                      *)
(*                                                                         *)
(* Nodes stand at different heights, at most MaxLag apart.  A block is     *)
(* final once it is Delay deep; a younger one can be reorganised.          *)
(* The wallets of the chain are enabled all at once, and payments go to    *)
(* enabled wallets only.                                                   *)
(***************************************************************************)
EXTENDS TransferPipeline

CONSTANTS NumNodes,    \* the RPC URL and its backups
          EvmCount,    \* payments, <<"evm", 1>> to <<"evm", EvmCount>>
          Delay,       \* cfg.BlockDelay (5)
          Batch,       \* cfg.BatchSize (500)
          WideBatch,   \* window without wallets (500)
          StartBlock,  \* cfg.StartBlock, 0 for none
          Word,        \* uint64 counts modulo Word (2^64)
          FirstHeight, MaxHeight,  \* bound: heights of the chain
          MaxLag       \* bound: how far nodes are apart

ASSUME EvmAssumption == /\ {NumNodes, Batch, WideBatch, Delay} \subseteq Nat \ {0}
                        /\ {EvmCount, StartBlock, MaxLag, FirstHeight, MaxHeight} \subseteq Nat
                        /\ FirstHeight <= MaxHeight
                        /\ Word \in Nat /\ MaxHeight + StartBlock + Delay < Word

VARIABLES height,    \* of the chain, as each node sees it
          block,     \* the block of each payment, 0 before it is mined
          watching,  \* the chain has enabled wallets
          down,      \* nodes that do not answer
          current,   \* EvmRPCClient.currentIndex
          ev,        \* the scanner: its place in the code and its variables
          evmSaved,  \* scan_progress.last_scanned_block, 0 for no row
          unwritten  \* history: payments pushed although their insert failed

evmVars == <<height, block, watching, down, current, ev, evmSaved, unwritten>>

Nodes == 0 .. NumNodes - 1
EvmPayments == 1 .. EvmCount
Evm(S) == {<<"evm", k>> : k \in S}
Mined(a, b) == {k \in EvmPayments : block[k] # 0 /\ a <= block[k] /\ block[k] <= b}

EvmFresh == [phase |-> "init", cursor |-> 0, safe |-> 0, to |-> 0, found |-> {}, hand |-> 0]

EvmTypeOK ==
  /\ height \in [Nodes -> FirstHeight .. MaxHeight]
  /\ block \in [EvmPayments -> 0 .. MaxHeight]
  /\ watching \in BOOLEAN
  /\ down \subseteq Nodes /\ current \in Nodes
  /\ ev \in [phase : {"init", "tip", "wallets", "logs", "persist", "push", "commit", "over"},
             cursor : Nat, safe : 0 .. Word - 1, to : Nat,
             found : SUBSET EvmPayments, hand : EvmPayments \cup {0}]
  /\ evmSaved \in Nat /\ unwritten \subseteq EvmPayments

EvmInit ==
  /\ height = [n \in Nodes |-> FirstHeight]
  /\ block = [k \in EvmPayments |-> 0]
  /\ watching \in BOOLEAN
  /\ down = {} /\ current = 0
  /\ ev = EvmFresh /\ evmSaved = 0 /\ unwritten = {}

-------------------------------------------------------------------------------
(* The chain and its nodes. *)
Highest(n) == \A m \in Nodes : height[m] <= height[n]

(* A node learns of a block; the first one to do so mines payments in it.  *)
(* They are numbered in the order in which the chain has them.             *)
Mine(n) ==
  LET h == height[n] + 1 IN
  /\ h <= MaxHeight
  /\ \A m \in Nodes : h - height[m] <= MaxLag
  /\ height' = [height EXCEPT ![n] = h]
  /\ \E new \in SUBSET {k \in EvmPayments : block[k] = 0} :
       /\ new # {} => watching /\ Highest(n) /\ h + Delay <= MaxHeight
       /\ \A k \in new : \A j \in 1 .. k : block[j] # 0 \/ j \in new
       /\ block' = [k \in EvmPayments |-> IF k \in new THEN h ELSE block[k]]
  /\ UNCHANGED <<watching, down, current, ev, evmSaved, unwritten, pipe>>

(* Blocks that are not final are replaced and their payments gone.         *)
Reorganise(n) ==
  /\ Highest(n)
  /\ \E k \in EvmPayments : block[k] + Delay > height[n]
  /\ block' = [k \in EvmPayments |-> IF block[k] + Delay > height[n] THEN 0 ELSE block[k]]
  /\ UNCHANGED <<height, watching, down, current, ev, evmSaved, unwritten, pipe>>

EnableWallets ==
  /\ ~watching /\ watching' = TRUE
  /\ UNCHANGED <<height, block, down, current, ev, evmSaved, unwritten, pipe>>

(* All nodes out at once is a fault; one of several may be out at any time. *)
NodeFails(n) ==
  /\ n \notin down /\ down' = down \cup {n}
  /\ IF down' = Nodes THEN Fails ELSE Works
  /\ UNCHANGED <<height, block, watching, current, ev, evmSaved, unwritten>>
  /\ UNCHANGED <<mode, chan, table, consumer, handed, givenUp, lost, stops>>

NodeRecovers(n) ==
  /\ n \in down /\ down' = down \ {n}
  /\ UNCHANGED <<height, block, watching, current, ev, evmSaved, unwritten, pipe>>

-------------------------------------------------------------------------------
(* doRPC: the nodes in a ring, from the one that answered last.            *)
Distance(n) == (n - current) % NumNodes

\* The mutant asks the current node only.
AnswersCurrent(n) == Answered /\ n \notin down /\ n = current

Answers(n) == /\ Answered /\ n \notin down
              /\ \A m \in Nodes \ down : Distance(n) <= Distance(m)

NobodyAnswers == ~Answered \/ down = Nodes

Min2(a, b) == IF a <= b THEN a ELSE b

(* initCursor.  Where scanning starts from the tip of the chain, or a      *)
(* failed query makes it do so, what is below is left behind.              *)
StartAtTip(h) == IF h > Delay THEN h - Delay ELSE 0

Behind(cursor) == Evm(Mined(1, cursor)) \ Rows

Configured(h) == IF StartBlock > 0 THEN StartBlock - 1 ELSE StartAtTip(h)

InitCursor(n) ==
  /\ ev.phase = "init"
  /\ Answers(n) /\ current' = n
  /\ \/ /\ evmSaved > 0 /\ Works
        /\ ev' = [ev EXCEPT !.phase = "tip", !.cursor = evmSaved]
        /\ UNCHANGED givenUp
     \/ /\ IF evmSaved > 0 THEN Fails ELSE Works
        /\ ev' = [ev EXCEPT !.phase = "tip", !.cursor = Configured(height[n])]
        /\ givenUp' = givenUp \cup Behind(Configured(height[n]))
  /\ UNCHANGED <<height, block, watching, down, evmSaved, unwritten>>
  /\ UNCHANGED <<mode, chan, table, consumer, handed, lost, stops>>

\* The mutant scans up to the tip of the chain.
SafeBlockIsTip(h) == h

(* safeBlock := latestOnChain - blockDelay, in uint64 *)
SafeBlock(h) == (h - Delay) % Word

(* scanNextBlocks.  Without a new safe block it waits for the next round,  *)
(* and so it does when nobody answers.                                     *)
ReadTip(n) ==
  /\ ev.phase = "tip"
  /\ Answers(n) /\ current' = n
  /\ SafeBlock(height[n]) > ev.cursor
  /\ ev' = [ev EXCEPT !.phase = "wallets", !.safe = SafeBlock(height[n])]
  /\ UNCHANGED <<height, block, watching, down, evmSaved, unwritten, pipe>>

(* The error of the query is dropped: no answer looks like no wallets, and *)
(* the cursor moves over the window.                                       *)
QueryWallets ==
  /\ ev.phase = "wallets"
  /\ \/ /\ watching /\ Works
        /\ ev' = [ev EXCEPT !.phase = "logs", !.to = Min2(ev.cursor + Batch, ev.safe)]
        /\ UNCHANGED givenUp
     \/ /\ IF watching THEN Fails ELSE Works
        /\ ev' = [ev EXCEPT !.phase = "commit", !.to = Min2(ev.cursor + WideBatch, ev.safe)]
        /\ givenUp' = IF watching THEN givenUp \cup Behind(Min2(ev.cursor + WideBatch, ev.safe))
                                  ELSE givenUp
  /\ UNCHANGED <<height, block, watching, down, current, evmSaved, unwritten>>
  /\ UNCHANGED <<mode, chan, table, consumer, handed, lost, stops>>

NextRound(cursor) == [EvmFresh EXCEPT !.phase = "tip", !.cursor = cursor]

After(found) == IF found = {} THEN "commit" ELSE "persist"

(* GetERC20Logs: a node knows of the blocks up to its own height.          *)
FetchLogs(n) ==
  LET found == Mined(ev.cursor + 1, Min2(ev.to, height[n])) IN
  /\ ev.phase = "logs"
  /\ Answers(n) /\ current' = n
  /\ ev' = [ev EXCEPT !.phase = After(found), !.found = found]
  /\ UNCHANGED <<height, block, watching, down, evmSaved, unwritten, pipe>>

FetchLogsFails ==
  /\ ev.phase = "logs" /\ NobodyAnswers
  /\ ev' = NextRound(ev.cursor)
  /\ UNCHANGED <<height, block, watching, down, current, evmSaved, unwritten, pipe>>

\* The mutant leaves the row to the matcher.
PersistNothing(k) ==
  /\ ev.phase = "persist" /\ k \in ev.found /\ \A j \in ev.found : k <= j
  /\ ev' = [ev EXCEPT !.phase = "push", !.hand = k]
  /\ UNCHANGED <<height, block, watching, down, current, evmSaved, unwritten, pipe>>

(* Logs in the order of the chain: the row before the push; the error of   *)
(* the insert is dropped.                                                  *)
PersistTransfer(k) ==
  /\ ev.phase = "persist" /\ k \in ev.found /\ \A j \in ev.found : k <= j
  /\ ev' = [ev EXCEPT !.phase = "push", !.hand = k]
  /\ \/ Saves /\ Insert(<<"evm", k>>) /\ UNCHANGED unwritten
     \/ /\ SaveFails /\ UNCHANGED table
        /\ unwritten' = IF mode = "up" THEN unwritten \cup {k} ELSE unwritten
  /\ UNCHANGED <<height, block, watching, down, current, evmSaved>>
  /\ UNCHANGED <<mode, chan, consumer, handed, givenUp, lost, stops>>

PushTransfer ==
  LET rest == ev.found \ {ev.hand} IN
  /\ ev.phase = "push"
  /\ Push(<<"evm", ev.hand>>)
  /\ ev' = [ev EXCEPT !.phase = After(rest), !.found = rest, !.hand = 0]
  /\ UNCHANGED <<height, block, watching, down, current, evmSaved, unwritten>>
  /\ UNCHANGED <<mode, table, consumer, handed, givenUp, lost, stops, faults>>

(* commitProgress: the cursor in memory follows the one that was saved.    *)
CommitProgress ==
  /\ ev.phase = "commit"
  /\ \/ /\ Saves
        /\ evmSaved' = ev.to
        /\ ev' = NextRound(ev.to)
     \/ /\ SaveFails
        /\ ev' = NextRound(ev.cursor)
        /\ UNCHANGED evmSaved
  /\ UNCHANGED <<height, block, watching, down, current, unwritten>>
  /\ UNCHANGED <<mode, chan, table, consumer, handed, givenUp, lost, stops>>

(* Start returns where it finds the context cancelled. *)
EvmReturns ==
  /\ mode = "stopping" /\ ev.phase \in {"init", "tip", "push"}
  /\ ev' = [ev EXCEPT !.phase = "over"]
  /\ UNCHANGED <<height, block, watching, down, current, evmSaved, unwritten, pipe>>

(* What a process that ends takes with it. *)
EvmForgets ==
  /\ ev' = EvmFresh /\ current' = 0
  /\ UNCHANGED <<height, block, watching, down, evmSaved, unwritten>>

EvmScan == \/ \E n \in Nodes : InitCursor(n) \/ ReadTip(n) \/ FetchLogs(n)
           \/ QueryWallets \/ FetchLogsFails
           \/ \E k \in EvmPayments : PersistTransfer(k)
           \/ PushTransfer \/ CommitProgress \/ EvmReturns

EvmChain == \/ \E n \in Nodes : Mine(n) \/ Reorganise(n) \/ NodeFails(n) \/ NodeRecovers(n)
            \/ EnableWallets

-------------------------------------------------------------------------------
(* A payment is dealt with when it has a row, or the code has given it up; *)
(* or, if the insert failed, when it is in the channel or was lost there.  *)
EvmDone == {k \in EvmPayments : \/ <<"evm", k>> \in Rows \cup givenUp
                                \/ k \in unwritten /\ <<"evm", k>> \in Safe}

(* doc/web3.md:43: with the cursor saved after every window no payment is  *)
(* missed across restarts.  Every payment that the saved cursor has passed *)
(* is a row of chain_transfers, whatever became of the channel; unless the *)
(* code has given it up, on a failed query or a first start, or pushes it  *)
(* without a row.  Nodes that lag by more than Delay would break it.       *)
EvmNothingSkipped == Mined(1, evmSaved) \subseteq EvmDone

(* doc/web3.md:22 and 43: what the saved cursor has passed is final and    *)
(* has been dealt with before, so that nothing behind it is ever of        *)
(* interest again: no block there is replaced or filled later, whichever   *)
(* node answered and wherever the process was stopped.                     *)
EvmCursor == INSTANCE CursorStream
               WITH Items <- EvmPayments, place <- block, next <- evmSaved + 1, done <- EvmDone

EvmImplementsCursor == EvmCursor!Spec

(* The comment before the insert (evm_scanner.go:411): the row comes       *)
(* first, so that a transfer cannot be lost with the process.  Once the    *)
(* replay has read the table, no row is forgotten: it has been handed to   *)
(* the matcher, is too old, or was left for the next start by a limit or   *)
(* an error; or it waits in the channel or for its turn in the replay, or  *)
(* is the one in the hand of the scanner, which may stop there.            *)
RowsReachTheMatcher ==
  consumer.phase # "start" =>
    \A i \in 1 .. Len(table) :
      \/ table[i] \in DoneWith \cup Queued \/ i \in consumer.todo
      \/ ev.phase \in {"push", "over"} /\ table[i] = <<"evm", ev.hand>>

(* doc/web3.md:22: the distance to the tip keeps transfers that are        *)
(* reorganised away out of the table.                                      *)
EvmRecordsAreFinal ==
  \A k \in EvmPayments : <<"evm", k>> \in Rows => block[k] # 0

(* doc/web3.md:31-33: the scanner compares the two before it subtracts,    *)
(* and so the cursor saved stays the distance behind the tip.  Violated:   *)
(* on a chain of fewer than Delay blocks the code subtracts all the same,  *)
(* and the cursor runs ahead of the chain (evm_scanner.go:315).            *)
EvmCursorIsSafe ==
  evmSaved # 0 => \E n \in Nodes : evmSaved + Delay <= height[n]

(* doc/web3.md:43: nothing is missed across restarts.  The matcher catches *)
(* up with the chain, time and again: every payment in a block has been    *)
(* handed to it, while single nodes fail and lag, the process is stopped   *)
(* or dies, and the channel is full; unless the code has given it up, or   *)
(* left it for the next start, or a crash took it from the channel when it *)
(* had no row.                                                             *)
EvmCatchesUp ==
  []<>(\A k \in EvmPayments :
         block[k] # 0 => \/ <<"evm", k>> \in DoneWith
                         \/ k \in unwritten /\ <<"evm", k>> \in lost)
===============================================================================
