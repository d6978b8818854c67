--------------------------- MODULE TransferPipeline ---------------------------
(***************************************************************************)
(* The pipeline of app/app.go: the channel that every scanner pushes its   *)
(* transfers to, the goroutine that takes them out and hands them to the   *)
(* matcher, the replay at start-up and the two ways in which the process   *)
(* ends, a signal with its drain and a crash.  The scanners are modules of *)
(* their own that extend this one.                                         *)
(*                                                                         *)
(* The matcher is one step here: it writes the row in chain_transfers if   *)
(* there is none (matcher.go, ProcessTransfer) and has then been handed    *)
(* the transfer; PaymentIntents is about what it does with it, and so      *)
(* which rows get a matched_order_id is left open here.                    *)
(***************************************************************************)
EXTENDS Integers, Sequences, FiniteSets

CONSTANTS Capacity,     \* of transferChan (500)
          ReplayLimit,  \* rows that the replay reads (200)
          MaxStops,     \* bound: signals and crashes
          MaxFaults     \* bound: failures of the database and of requests

ASSUME PipelineAssumption == /\ {Capacity, ReplayLimit} \subseteq Nat \ {0}
                             /\ {MaxStops, MaxFaults} \subseteq Nat

VARIABLES mode,      \* "up", or "stopping" once the context is cancelled
          chan,      \* transferChan
          table,     \* table chain_transfers, in order of id
          consumer,  \* runPipeline: its place, the rows left to replay, and
                     \* history: payments it has left for the next start
          handed,    \* payments that the matcher has been handed
          givenUp,   \* history: payments that a line of the code leaves for good
          lost,      \* history: payments a crash took out of the channel
          stops, faults

pipe == <<mode, chan, table, consumer, handed, givenUp, lost, stops, faults>>

Payments == {"evm", "solana", "tron"} \X Nat

Rows == {table[i] : i \in 1 .. Len(table)}
Queued == {chan[i] : i \in 1 .. Len(chan)}

PipelineTypeOK ==
  /\ mode \in {"up", "stopping"}
  /\ chan \in Seq(Payments) /\ Len(chan) <= Capacity
  /\ table \in Seq(Payments)
  /\ consumer \in [phase : {"start", "replay", "loop", "gone"},
                   todo : SUBSET (1 .. Len(table)), later : SUBSET Payments]
  /\ handed \subseteq Payments /\ givenUp \subseteq Payments /\ lost \subseteq Payments
  /\ stops \in 0 .. MaxStops /\ faults \in 0 .. MaxFaults

AtStart == [phase |-> "start", todo |-> {}, later |-> {}]

PipelineInit ==
  /\ mode = "up" /\ chan = << >> /\ table = << >> /\ consumer = AtStart
  /\ handed = {} /\ givenUp = {} /\ lost = {}
  /\ stops = 0 /\ faults = 0

-------------------------------------------------------------------------------
(* What an operation on the database comes to.  A statement that is given  *)
(* the context fails once the context is cancelled.                        *)
Works == UNCHANGED faults
Fails == faults < MaxFaults /\ faults' = faults + 1
Saves == mode = "up" /\ Works
SaveFails == \/ mode = "stopping" /\ Works
             \/ mode = "up" /\ Fails

(* A request to a node is given the context, too. *)
Answered == mode = "up"
CallFails == SaveFails

(* INSERT ... ON CONFLICT (chain, tx_hash, log_index) DO NOTHING *)
Insert(p) == table' = IF p \in Rows THEN table ELSE Append(table, p)

\* The mutant has no capacity.
PushAlways(p) == chan' = Append(chan, p)

(* transferChan <- transfer *)
Push(p) == Len(chan) < Capacity /\ chan' = Append(chan, p)

-------------------------------------------------------------------------------
FirstOf(found) == {i \in found : Cardinality({j \in found : j < i}) < ReplayLimit}
NotHanded(S) == {table[i] : i \in S} \ handed

Resume(todo) == IF todo = {} THEN "loop" ELSE "replay"
Leave(p) == [consumer EXCEPT !.later = @ \cup {p}]

(* recoverUnmatchedTransfers, the query: rows without an order that are at *)
(* most 48 hours old, up to the limit.  What has been handed over may have *)
(* an order or none, and any row may have become too old while the process *)
(* was down; no start will read that one again.  Rows beyond the limit,    *)
(* and all of them when the query fails, wait for another start.           *)
ReadUnmatched ==
  /\ consumer.phase = "start"
  /\ \/ /\ Saves
        /\ \E found \in SUBSET (1 .. Len(table)) :
             LET read == FirstOf(found) IN
             /\ consumer' = [phase |-> Resume(read), todo |-> read, later |-> NotHanded(found \ read)]
             /\ givenUp' = givenUp \cup NotHanded((1 .. Len(table)) \ found)
     \/ /\ SaveFails
        /\ consumer' = [phase |-> "loop", todo |-> {}, later |-> NotHanded(1 .. Len(table))]
        /\ UNCHANGED givenUp
  /\ UNCHANGED <<mode, chan, table, handed, lost, stops>>

(* safeReprocess, in order of id; it logs an error and goes on, and the    *)
(* row waits for another start.                                            *)
Reprocess(i) ==
  LET rest == consumer.todo \ {i} IN
  /\ consumer.phase = "replay"
  /\ i \in consumer.todo /\ \A j \in consumer.todo : i <= j
  /\ \/ /\ Works
        /\ handed' = handed \cup {table[i]}
        /\ consumer' = [consumer EXCEPT !.phase = Resume(rest), !.todo = rest]
     \/ /\ Fails
        /\ consumer' = [consumer EXCEPT !.phase = Resume(rest), !.todo = rest,
                                        !.later = @ \cup {table[i]}]
        /\ UNCHANGED handed
  /\ UNCHANGED <<mode, chan, table, givenUp, lost, stops>>

(* safeProcess logs an error or a panic and goes on to the next transfer.  *)
(* One that has a row by then waits for another start; the others are gone. *)
Consume ==
  /\ consumer.phase = "loop"
  /\ chan # << >>
  /\ chan' = Tail(chan)
  /\ \/ /\ Works
        /\ Insert(Head(chan))
        /\ handed' = handed \cup {Head(chan)}
        /\ UNCHANGED <<consumer, givenUp>>
     \/ /\ Fails
        /\ Insert(Head(chan))
        /\ consumer' = Leave(Head(chan))
        /\ UNCHANGED <<handed, givenUp>>
     \/ /\ Fails /\ Head(chan) \notin Rows
        /\ givenUp' = givenUp \cup {Head(chan)}
        /\ UNCHANGED <<table, consumer, handed>>
  /\ UNCHANGED <<mode, lost, stops>>

\* The mutant stops as soon as the context is cancelled.
DrainedAtOnce ==
  /\ mode = "stopping" /\ consumer.phase = "loop"
  /\ consumer' = [consumer EXCEPT !.phase = "gone"]
  /\ UNCHANGED <<mode, chan, table, handed, givenUp, lost, stops, faults>>

(* The drain ends when it finds the channel empty. *)
Drained ==
  /\ mode = "stopping" /\ consumer.phase = "loop" /\ chan = << >>
  /\ consumer' = [consumer EXCEPT !.phase = "gone"]
  /\ UNCHANGED <<mode, chan, table, handed, givenUp, lost, stops, faults>>

(* waitForShutdown: the HTTP server is stopped, then the context cancelled *)
Shutdown ==
  /\ mode = "up" /\ stops < MaxStops
  /\ mode' = "stopping" /\ stops' = stops + 1
  /\ UNCHANGED <<chan, table, consumer, handed, givenUp, lost, faults>>

\* The mutant starts the consumer without the replay.
RebootWithoutReplay ==
  mode' = "up" /\ chan' = << >> /\ consumer' = [AtStart EXCEPT !.phase = "loop"]

Reboot == mode' = "up" /\ chan' = << >> /\ consumer' = AtStart

(* waitForShutdown waits for the consumer and for nobody else: what        *)
(* scanners push after the drain goes with the process, which is then      *)
(* started again.                                                          *)
Exit ==
  /\ mode = "stopping" /\ consumer.phase = "gone"
  /\ Reboot
  /\ UNCHANGED <<table, handed, givenUp, lost, stops, faults>>

(* The process dies, at any point, and is started again. *)
Crash ==
  /\ stops < MaxStops /\ stops' = stops + 1
  /\ Reboot
  /\ lost' = lost \cup (Queued \ Rows)
  /\ UNCHANGED <<table, handed, givenUp, faults>>

Consumer == \/ ReadUnmatched
            \/ \E i \in 1 .. Len(table) : Reprocess(i)
            \/ Consume \/ Drained
-------------------------------------------------------------------------------
(* Payments that this process has no more to do with. *)
DoneWith == handed \cup givenUp \cup consumer.later

(* A payment is accounted for when it is on record, given up or lost, or   *)
(* in the channel while somebody reads it.                                 *)
Kept == Rows \cup givenUp \cup lost
Safe == IF consumer.phase = "gone" THEN Kept ELSE Kept \cup Queued
===============================================================================
