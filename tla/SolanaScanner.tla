----------------------------- MODULE SolanaScanner -----------------------------
(***************************************************************************)
(* scanner/solana_scanner.go for one address: the signatures of the        *)
(* address are read newest first and in pages back to the cursor, then     *)
(* worked off oldest first, with the cursor committed after each.  A       *)
(* transfer is pushed to the channel and recorded by the matcher only.     *)
(*                                                                         *)
(* Signature i is the i-th of the address.  SolFailing have failed on      *)
(* chain, every other one is the payment <<"solana", i>>.                  *)
(***************************************************************************)
EXTENDS TransferPipeline

CONSTANTS SolCount,    \* bound: signatures of the address
          SolFailing,  \* those with an error
          SolHistory,  \* signatures older than the oldest watched order by 60 s
          SolPage,     \* limit of getSignaturesForAddress (50)
          SolMost      \* signatures that one round fetches (200)

ASSUME SolAssumption == /\ {SolCount, SolHistory} \subseteq Nat
                        /\ {SolPage, SolMost} \subseteq Nat \ {0}
                        /\ SolFailing \subseteq 1 .. SolCount

VARIABLES sigs,      \* signatures on chain
          sol,       \* the scanner: its place in the code and its variables
          solSaved,  \* scan_progress.last_signature, 0 for none
          coldSkip   \* history: signatures that a cold start has stepped over

solVars == <<sigs, sol, solSaved, coldSkip>>

Positions == 0 .. SolCount
Sol(S) == {<<"solana", i>> : i \in S}

(* mem is lastSignatures[queryAddr]; last the cursor the round started     *)
(* from; oldest .. newest what it has fetched and not yet worked off.      *)
SolFresh == [phase |-> "idle", mem |-> 0, last |-> 0, oldest |-> 0, newest |-> 0,
             cold |-> FALSE, cutoff |-> 0]

SolTypeOK ==
  /\ sigs \in Positions
  /\ sol \in [phase : {"idle", "page", "cold", "tx", "push", "commit", "over"},
              mem : Positions, last : Positions, oldest : 0 .. SolCount + 1, newest : Positions,
              cold : BOOLEAN, cutoff : {0, SolHistory}]
  /\ solSaved \in Positions
  /\ coldSkip \subseteq Positions

SolInit == sigs = 0 /\ sol = SolFresh /\ solSaved = 0 /\ coldSkip = {}

Sign == /\ sigs < SolCount /\ sigs' = sigs + 1
        /\ UNCHANGED <<sol, solSaved, coldSkip, pipe>>

-------------------------------------------------------------------------------
(* The row of chain_transfers with the highest id, if there is one. *)
SolRows == {j \in 1 .. Len(table) : table[j][1] = "solana"}
LastRow == {table[j][2] : j \in {i \in SolRows : \A k \in SolRows : k <= i}}

(* A round has refreshed the slot.  The cursor comes from memory, from the *)
(* progress table or from the last transfer; a query that fails counts as  *)
(* one that found nothing, and another cursor may leave signatures behind. *)
SolRestore ==
  /\ sol.phase = "idle" /\ Answered
  /\ \E last \in {sol.mem, solSaved, 0} \cup LastRow :
       /\ \/ sol.mem # 0 /\ last = sol.mem /\ Works
          \/ sol.mem = 0 /\ solSaved # 0 /\ last = solSaved /\ Works
          \/ sol.mem = 0 /\ last \in LastRow /\ (IF solSaved # 0 THEN Fails ELSE Works)
          \/ sol.mem = 0 /\ last = 0 /\ (IF solSaved # 0 \/ LastRow # {} THEN Fails ELSE Works)
       /\ sol' = [SolFresh EXCEPT !.phase = "page", !.mem = last, !.last = last]
       /\ givenUp' = IF sol.mem = 0 /\ solSaved \notin {0, last}
                     THEN givenUp \cup (Sol(1 .. last) \ Rows) ELSE givenUp
  /\ UNCHANGED <<sigs, solSaved, coldSkip>>
  /\ UNCHANGED <<mode, chan, table, consumer, handed, lost, stops>>

Max2(a, b) == IF a >= b THEN a ELSE b

(* getSignaturesForAddress: until = last, before = oldest.                 *)
Top == IF sol.newest = 0 THEN sigs ELSE sol.oldest - 1
Bottom == Max2(sol.last, Top - SolPage)
Newest == IF sol.newest = 0 THEN Top ELSE sol.newest

\* The mutant takes a full page for the last one.
FetchedOnePage == TRUE

(* No cursor, a page that is not full, or enough for one round. *)
FetchedEnough == \/ sol.last = 0
                 \/ Top - Bottom < SolPage
                 \/ Newest - Bottom >= SolMost

(* What does not fit into SolMost is left behind. *)
Unfetched == IF Newest - Bottom >= SolMost THEN sol.last + 1 .. Bottom ELSE {}

SolFetch ==
  /\ sol.phase = "page" /\ Answered
  /\ \/ /\ Top <= sol.last
        /\ sol' = [sol EXCEPT !.phase = IF sol.newest = 0 THEN "idle" ELSE "tx"]
        /\ UNCHANGED givenUp
     \/ /\ Top > sol.last
        /\ sol' = [sol EXCEPT !.oldest = Bottom + 1, !.newest = Newest,
                              !.phase = IF ~FetchedEnough THEN "page"
                                        ELSE IF sol.last = 0 THEN "cold" ELSE "tx"]
        /\ givenUp' = givenUp \cup Sol(Unfetched)
  /\ UNCHANGED <<sigs, solSaved, coldSkip>>
  /\ UNCHANGED <<mode, chan, table, consumer, handed, lost, stops, faults>>

Unseen == sol.oldest .. sol.newest

(* The cold start commits the newest signature before it works on any, and *)
(* takes the creation of the oldest watched order for a cutoff.  What is   *)
(* older than the page is never fetched.                                   *)
SolCold ==
  /\ sol.phase = "cold"
  /\ \E c \in {0, SolHistory} :
       sol' = [sol EXCEPT !.phase = "tx", !.mem = sol.newest, !.cold = TRUE, !.cutoff = c]
  /\ \/ Saves /\ solSaved' = sol.newest
     \/ SaveFails /\ UNCHANGED solSaved
  /\ coldSkip' = coldSkip \cup Unseen
  /\ givenUp' = givenUp \cup Sol(1 .. sol.oldest - 1)
  /\ UNCHANGED <<sigs>>
  /\ UNCHANGED <<mode, chan, table, consumer, handed, lost, stops>>

(* A failed transaction, one that the node does not find, and one that is  *)
(* older than the cutoff are passed over.                                  *)
SolPass(i) ==
  /\ sol.phase = "tx" /\ Answered /\ i = sol.oldest
  /\ \/ i \in SolFailing /\ Works /\ UNCHANGED givenUp
     \/ i \notin SolFailing /\ i <= sol.cutoff /\ Works /\ givenUp' = givenUp \cup Sol({i})
     \/ i \notin SolFailing /\ Fails /\ givenUp' = givenUp \cup Sol({i})
  /\ sol' = [sol EXCEPT !.phase = "commit"]
  /\ UNCHANGED <<sigs, solSaved, coldSkip>>
  /\ UNCHANGED <<mode, chan, table, consumer, handed, lost, stops>>

SolParse(i) ==
  /\ sol.phase = "tx" /\ Answered /\ i = sol.oldest
  /\ i \notin SolFailing /\ i > sol.cutoff
  /\ sol' = [sol EXCEPT !.phase = "push"]
  /\ UNCHANGED <<sigs, solSaved, coldSkip, pipe>>

SolPush ==
  /\ sol.phase = "push"
  /\ Push(<<"solana", sol.oldest>>)
  /\ sol' = [sol EXCEPT !.phase = "commit"]
  /\ UNCHANGED <<sigs, solSaved, coldSkip>>
  /\ UNCHANGED <<mode, table, consumer, handed, givenUp, lost, stops, faults>>

Advance(w) == IF w.oldest = w.newest THEN [SolFresh EXCEPT !.mem = w.oldest]
              ELSE [w EXCEPT !.phase = "tx", !.mem = w.oldest, !.oldest = @ + 1]

(* commitSignature: in memory, and in the table unless that fails. *)
SolCommit ==
  /\ sol.phase = "commit"
  /\ sol' = Advance(sol)
  /\ \/ /\ Saves
        /\ solSaved' = sol.oldest
        /\ coldSkip' = IF sol.cold THEN coldSkip \ Unseen ELSE coldSkip
     \/ SaveFails /\ UNCHANGED <<solSaved, coldSkip>>
  /\ UNCHANGED sigs
  /\ UNCHANGED <<mode, chan, table, consumer, handed, givenUp, lost, stops>>

\* The mutant goes on to the next signature.
SolRpcFailsGoesOn ==
  /\ sol.phase = "tx" /\ sol.oldest \notin SolFailing
  /\ CallFails
  /\ sol' = [sol EXCEPT !.phase = "commit"]
  /\ UNCHANGED <<sigs, solSaved, coldSkip>>
  /\ UNCHANGED <<mode, chan, table, consumer, handed, givenUp, lost, stops>>

(* A call fails: the round is over. *)
SolRpcFails ==
  /\ \/ sol.phase = "page"
     \/ sol.phase = "tx" /\ sol.oldest \notin SolFailing
  /\ CallFails
  /\ sol' = [SolFresh EXCEPT !.mem = sol.mem]
  /\ UNCHANGED <<sigs, solSaved, coldSkip>>
  /\ UNCHANGED <<mode, chan, table, consumer, handed, givenUp, lost, stops>>

(* scanAddressStream and Start return where they find the context cancelled. *)
SolReturns ==
  /\ mode = "stopping" /\ sol.phase \in {"idle", "tx", "push"}
  /\ sol' = [SolFresh EXCEPT !.phase = "over"]
  /\ UNCHANGED <<sigs, solSaved, coldSkip, pipe>>

SolForgets == sol' = SolFresh /\ UNCHANGED <<sigs, solSaved, coldSkip>>

SolScan == \/ SolRestore \/ SolFetch \/ SolCold
           \/ \E i \in 1 .. SolCount : SolPass(i) \/ SolParse(i)
           \/ SolPush \/ SolCommit \/ SolRpcFails \/ SolReturns

SolNext == Sign \/ SolScan
-------------------------------------------------------------------------------
(* solana_scanner.go:299 and :358: paging reaches back to the cursor, and   *)
(* a round that fails keeps what it has not processed for the next.  Every *)
(* payment that the saved cursor has passed is recorded or in the channel, *)
(* also across a shutdown (doc/flow.md:427).  A crash loses what is in the *)
(* channel; the code leaves behind what a cold start that fails at once    *)
(* has stepped over, what a burst beyond SolMost covers, and what another  *)
(* cursor is ahead of when the progress table could not be read.           *)
SolNothingSkipped ==
  \A i \in 1 .. solSaved :
    i \in SolFailing \cup coldSkip \/ <<"solana", i>> \in Rows \cup Queued \cup givenUp \cup lost

(* solana_scanner.go:358: on an error the signatures not yet processed are *)
(* kept for the next round.  Violated: a cold start has moved the cursor   *)
(* to the newest signature before it works on the oldest.                  *)
SolErrorsAreRetried ==
  \A i \in 1 .. sol.mem \ SolFailing :
    sol.phase = "idle" => <<"solana", i>> \in Rows \cup Queued \cup givenUp \cup lost

(* solana_scanner.go:299: a burst is not missed.  The matcher catches up   *)
(* with the signatures on chain, while calls fail and are repeated and the *)
(* process is stopped; with the exceptions of SolNothingSkipped.           *)
SolCatchesUp ==
  []<>(\A i \in 1 .. sigs \ SolFailing :
         \/ <<"solana", i>> \in DoneWith \cup lost
         \/ i \in coldSkip /\ ~sol.cold)
===============================================================================
