------------------------------ MODULE TronScanner ------------------------------
(***************************************************************************)
(* scanner/tron_scanner.go for one address: TronGrid lists the transfers   *)
(* to the address not older than the cursor, newest first, in pages that   *)
(* are chained by a fingerprint.  Each transfer is pushed to the channel   *)
(* and recorded by the matcher only; the timestamp cursor moves when the   *)
(* last page is done.                                                      *)
(*                                                                         *)
(* Transfer k is the k-th that TronGrid has indexed, the payment           *)
(* <<"tron", k>>.  Several may share a timestamp.                          *)
(***************************************************************************)
EXTENDS TransferPipeline

CONSTANTS TronCount,  \* bound: transfers to the address
          Stamp,      \* block_timestamp of each
          TronPage,   \* limit of a page (50)
          TronPages   \* pages of one round (20)

ASSUME TronAssumption ==
  /\ TronCount \in Nat /\ {TronPage, TronPages} \subseteq Nat \ {0}
  /\ Stamp \in [1 .. TronCount -> Nat \ {0}]
  /\ \A j, k \in 1 .. TronCount : j <= k => Stamp[j] <= Stamp[k]

VARIABLES indexed,   \* transfers that TronGrid knows
          tron,      \* the scanner: its place in the code and its variables
          tronSaved  \* scan_progress: last_scanned_block (0 for no row), last_signature

tronVars == <<indexed, tron, tronSaved>>

Transfers == 1 .. TronCount
Stamps == {Stamp[k] : k \in Transfers}
Tron(S) == {<<"tron", k>> : k \in S}
Older(stamp) == {k \in 1 .. indexed : Stamp[k] < stamp}

(* mem is lastTimestamps[addr].  A fingerprint is the last transfer of its *)
(* page, 0 for none.                                                       *)
TronFresh == [phase |-> "idle", mem |-> 0, last |-> 0, max |-> 0, fp |-> 0, pages |-> 0,
              todo |-> {}]

TronTypeOK ==
  /\ indexed \in 0 .. TronCount
  /\ tron \in [phase : {"idle", "page", "push", "over"},
               mem : Stamps \cup {0, 1}, last : Stamps \cup {0, 1}, max : Stamps \cup {0, 1},
               fp : 0 .. TronCount, pages : 0 .. TronPages, todo : SUBSET Transfers]
  /\ tronSaved \in [ts : Stamps \cup {0, 1}, fp : 0 .. TronCount]

TronInit == indexed = 0 /\ tron = TronFresh /\ tronSaved = [ts |-> 0, fp |-> 0]

Index == /\ indexed < TronCount /\ indexed' = indexed + 1
         /\ UNCHANGED <<tron, tronSaved, pipe>>

-------------------------------------------------------------------------------
Round(last, fp) == [TronFresh EXCEPT !.phase = "page", !.mem = last, !.last = last,
                                     !.max = last, !.fp = fp]

TronRows == {p[2] : p \in {q \in Rows : q[1] = "tron"}}
Latest(k) == k \in TronRows /\ \A j \in TronRows : Stamp[j] <= Stamp[k]

(* The cursor comes from memory, from the progress table, from the latest  *)
(* transfer on record, or from the clock: half an hour ago.  A query that  *)
(* fails counts as one that found nothing.  Transfers on record have their *)
(* time in seconds, which may set the cursor back to an earlier transfer.  *)
TronStart ==
  /\ tron.phase = "idle" /\ Answered
  /\ \/ /\ tron.mem # 0 /\ Works
        /\ tron' = Round(tron.mem, 0)
        /\ UNCHANGED givenUp
     \/ /\ tron.mem = 0 /\ tronSaved.ts # 0 /\ Works
        /\ tron' = Round(tronSaved.ts, tronSaved.fp)
        /\ UNCHANGED givenUp
     \/ /\ tron.mem = 0 /\ (IF tronSaved.ts # 0 THEN Fails ELSE Works)
        /\ \E k \in TronRows, j \in 1 .. indexed :
             /\ Latest(k) /\ Stamp[j] <= Stamp[k]
             /\ tron' = Round(Stamp[j], 0)
             /\ givenUp' = givenUp \cup (Tron(Older(Stamp[j])) \ Rows)
     \/ /\ tron.mem = 0 /\ (IF tronSaved.ts # 0 \/ TronRows # {} THEN Fails ELSE Works)
        /\ \E ago \in {1} \cup {Stamp[k] : k \in 1 .. indexed} :
             /\ tron' = Round(ago, 0)
             /\ givenUp' = givenUp \cup (Tron(Older(ago)) \ Rows)
  /\ UNCHANGED <<indexed, tronSaved>>
  /\ UNCHANGED <<mode, chan, table, consumer, handed, lost, stops>>

\* The mutant asks for what is newer than the cursor.
ListedNewer(k) == k <= indexed /\ Stamp[k] > tron.last /\ (tron.fp # 0 => k < tron.fp)

(* min_timestamp is inclusive; a fingerprint goes on behind its page.      *)
Listed(k) == k <= indexed /\ Stamp[k] >= tron.last /\ (tron.fp # 0 => k < tron.fp)

AllListed == {k \in Transfers : Listed(k)}
PageOf(S) == {k \in S : Cardinality({j \in S : j > k}) < TronPage}

TronFetch ==
  /\ tron.phase = "page" /\ Answered
  /\ LET page == PageOf(AllListed)
         rest == AllListed \ page
     IN \E max \in {tron.max} \cup {Stamp[k] : k \in page} :
          /\ max >= tron.max /\ \A k \in page : Stamp[k] <= max
          /\ \E fp \in {0} \cup page :
               /\ fp = 0 => rest = {}
               /\ fp # 0 => Cardinality(page) = TronPage /\ \A k \in page : fp <= k
               /\ tron' = [tron EXCEPT !.phase = "push", !.todo = page, !.max = max, !.fp = fp,
                                       !.pages = @ + 1]
  /\ UNCHANGED <<indexed, tronSaved, pipe>>

(* A call fails or is refused (429): the round is over. *)
TronFetchFails ==
  /\ tron.phase = "page" /\ CallFails
  /\ tron' = [TronFresh EXCEPT !.mem = tron.mem]
  /\ UNCHANGED <<indexed, tronSaved>>
  /\ UNCHANGED <<mode, chan, table, consumer, handed, givenUp, lost, stops>>

TronPush(k) ==
  /\ tron.phase = "push" /\ k \in tron.todo /\ \A j \in tron.todo : j <= k
  /\ Push(<<"tron", k>>)
  /\ tron' = [tron EXCEPT !.todo = @ \ {k}]
  /\ UNCHANGED <<indexed, tronSaved>>
  /\ UNCHANGED <<mode, table, consumer, handed, givenUp, lost, stops, faults>>

(* persistTronProgress drops its error. *)
Persist(ts, fp) == \/ Saves /\ tronSaved' = [ts |-> ts, fp |-> fp]
                   \/ SaveFails /\ UNCHANGED tronSaved

\* The mutant moves the timestamp cursor with every page.
TronPageDoneEager ==
  /\ tron.phase = "push" /\ tron.todo = {} /\ tron.fp # 0
  /\ tron' = IF tron.pages < TronPages THEN [tron EXCEPT !.phase = "page"]
             ELSE [TronFresh EXCEPT !.mem = tron.mem]
  /\ Persist(tron.max, tron.fp)
  /\ UNCHANGED indexed
  /\ UNCHANGED <<mode, chan, table, consumer, handed, givenUp, lost, stops>>

(* A page with a fingerprint: saved with the old cursor; after TronPages   *)
(* pages the round is over and the fingerprint stays in the table only.    *)
TronPageDone ==
  /\ tron.phase = "push" /\ tron.todo = {} /\ tron.fp # 0
  /\ tron' = IF tron.pages < TronPages THEN [tron EXCEPT !.phase = "page"]
             ELSE [TronFresh EXCEPT !.mem = tron.mem]
  /\ Persist(tron.last, tron.fp)
  /\ UNCHANGED indexed
  /\ UNCHANGED <<mode, chan, table, consumer, handed, givenUp, lost, stops>>

TronRoundDone ==
  /\ tron.phase = "push" /\ tron.todo = {} /\ tron.fp = 0
  /\ tron' = [TronFresh EXCEPT !.mem = tron.max]
  /\ Persist(tron.max, 0)
  /\ UNCHANGED indexed
  /\ UNCHANGED <<mode, chan, table, consumer, handed, givenUp, lost, stops>>

TronReturns ==
  /\ mode = "stopping"
  /\ \/ tron.phase = "idle"
     \/ tron.phase = "push" /\ tron.todo # {}
  /\ tron' = [TronFresh EXCEPT !.phase = "over"]
  /\ UNCHANGED <<indexed, tronSaved, pipe>>

TronForgets == tron' = TronFresh /\ UNCHANGED <<indexed, tronSaved>>

TronScan == \/ TronStart \/ TronFetch \/ TronFetchFails
            \/ \E k \in Transfers : TronPush(k)
            \/ TronPageDone \/ TronRoundDone \/ TronReturns

TronNext == Index \/ TronScan
-------------------------------------------------------------------------------
(* tron_scanner.go:344: following the fingerprint, a busy wallet does not   *)
(* skip transfers between scans.  Every transfer older than the saved      *)
(* cursor is recorded or in the channel, also across a shutdown            *)
(* (doc/flow.md:427).  A crash loses what is in the channel; the code      *)
(* leaves behind what is older than the cursor it starts from when it has  *)
(* none in the table.                                                      *)
TronNothingSkipped ==
  Tron(Older(tronSaved.ts)) \subseteq Rows \cup Queued \cup givenUp \cup lost

(* tron_scanner.go:445-457: the timestamp moves after the last page only,  *)
(* over transfers that have been dealt with before, and nothing is indexed *)
(* behind it later: what starts from it need not look back.  What is       *)
(* pushed when the drain is over goes with the process and does not count. *)
TronDealtWith == {k \in Transfers : \/ <<"tron", k>> \in Rows \cup givenUp \cup lost
                                    \/ <<"tron", k>> \in Queued /\ consumer.phase # "gone"}
TronCursor == INSTANCE CursorStream
                WITH Items <- Transfers, next <- tronSaved.ts, done <- TronDealtWith,
                     place <- [k \in Transfers |-> IF k <= indexed THEN Stamp[k] ELSE 0]

TronImplementsCursor == TronCursor!Spec

(* The transfers after k fill all the pages of a round. *)
OutOfReach(k) == indexed - k >= TronPage * TronPages

(* tron_scanner.go:344 again: the matcher catches up with what is indexed, *)
(* while calls fail and are repeated, the process is stopped, and          *)
(* timestamps are shared; with the exceptions above, and unless more       *)
(* transfers follow than one round reads.                                  *)
TronCatchesUp ==
  []<>(\A k \in 1 .. indexed : \/ <<"tron", k>> \in DoneWith \cup lost
                               \/ OutOfReach(k))

(* tron_scanner.go:456: after the page limit the next round goes on from   *)
(* the page that was saved.  Violated: the fingerprint is read back only   *)
(* after a restart; without one every round starts at the first page.      *)
TronContinuesAtSavedPage ==
  [][tron.phase = "idle" /\ tron'.phase = "page" => tron'.fp = tronSaved.fp]_<<tronVars, pipe>>
===============================================================================
