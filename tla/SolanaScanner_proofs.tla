------------------------- MODULE SolanaScanner_proofs -------------------------
(***************************************************************************)
(* The Solana scanner skips no signature, for any number of signatures,    *)
(* any page size and any number of stops and faults.                       *)
(*                                                                         *)
(* The argument: everything at or below a cursor is done, whichever of the *)
(* three cursors it is, and everything below the signature in work is done *)
(* before that is pushed (SolRoundInv).  The last transfer may serve as a  *)
(* cursor while there is no row in the progress table, because until then  *)
(* the history of cold starts only grows (SolRowsInv).                     *)
(***************************************************************************)
EXTENDS ScannerPipeline_proofs

SolIs(i, S) == <<"solana", i>> \in S
SolDone(i) == i \in SolFailing \cup coldSkip \/ SolIs(i, Safe)
SolDoneUpTo(n) == \A i \in 1 .. n : SolDone(i)

SolSavedInv == SolDoneUpTo(solSaved)
SolMemInv == mode = "up" => SolDoneUpTo(sol.mem)
SolLastInv == sol.phase = "page" => sol.last = sol.mem
SolRoundInv ==
  /\ mode = "up" /\ sol.phase \in {"tx", "commit"} => SolDoneUpTo(sol.oldest - 1)
  /\ sol.phase = "push" => SolDoneUpTo(sol.oldest - 1)
  /\ mode = "up" /\ sol.phase = "commit" => sol.oldest \in SolFailing \/ SolIs(sol.oldest, Safe)
SolRowsInv ==
  solSaved = 0 => \A j \in 1 .. SolCount : SolIs(j, Entries) => SolDoneUpTo(j - 1)

SolInv == SolSavedInv /\ SolMemInv /\ SolLastInv /\ SolRoundInv /\ SolRowsInv

-------------------------------------------------------------------------------
LEMMA SolInvInit == Init => SolInv
<1> SUFFICES ASSUME Init  PROVE SolInv
  OBVIOUS
<1>1. Rows = {} /\ Queued = {} /\ solSaved = 0 /\ sol.phase = "idle" /\ sol.mem = 0
  BY EmptySeq DEF Init, PipelineInit, SolInit, SolFresh, Rows, Queued
<1> QED BY <1>1 DEF SolInv, SolSavedInv, SolMemInv, SolLastInv, SolRoundInv, SolRowsInv,
                    SolDoneUpTo, Entries, SolIs

(* A step that leaves the scanner alone. *)
LEMMA SolFrame ==
  ASSUME SolInv, UNCHANGED <<sol, solSaved, coldSkip>>, Safe \subseteq Safe',
         \A j \in 1 .. SolCount : SolIs(j, Entries') => SolIs(j, Entries),
         mode' = "up" => mode = "up"
  PROVE  SolInv'
<1>1. \A i : SolDone(i) => SolDone(i)'
  BY DEF SolDone, SolIs
<1>2. /\ \A n : SolDoneUpTo(n) => SolDoneUpTo(n)'
  BY <1>1 DEF SolDoneUpTo
<1>3. UNCHANGED <<sol, solSaved>>
  OBVIOUS
<1>4. \A j : SolIs(j, Safe) => SolIs(j, Safe)'
  BY DEF SolIs
<1>5. SolSavedInv'
  BY <1>2, <1>3 DEF SolInv, SolSavedInv
<1>6. SolMemInv' /\ SolLastInv'
  BY <1>2, <1>3 DEF SolInv, SolMemInv, SolLastInv
<1>7. SolRoundInv'
  BY <1>2, <1>3, <1>4 DEF SolInv, SolRoundInv
<1>8. SolRowsInv'
  BY <1>2, <1>3 DEF SolInv, SolRowsInv
<1> QED BY <1>5, <1>6, <1>7, <1>8 DEF SolInv

(* What is done stays done unless the history of cold starts shrinks.      *)
LEMMA SolStays ==
  ASSUME SolInv, Safe \subseteq Safe', coldSkip \subseteq coldSkip'
  PROVE  /\ \A n : SolDoneUpTo(n) => SolDoneUpTo(n)'
         /\ solSaved' = solSaved => SolSavedInv'
         /\ (/\ solSaved' = solSaved
             /\ \A j \in 1 .. SolCount : SolIs(j, Entries') => SolIs(j, Entries)) => SolRowsInv'
<1>1. \A i : SolDone(i) => SolDone(i)'
  BY DEF SolDone, SolIs
<1>2. \A n : SolDoneUpTo(n) => SolDoneUpTo(n)'
  BY <1>1 DEF SolDoneUpTo
<1>3. ASSUME solSaved' = solSaved  PROVE SolSavedInv'
  BY <1>2, <1>3 DEF SolInv, SolSavedInv
<1>4. ASSUME solSaved' = solSaved, \A j \in 1 .. SolCount : SolIs(j, Entries') => SolIs(j, Entries)
      PROVE  SolRowsInv'
  BY <1>2, <1>4 DEF SolInv, SolRowsInv
<1> QED BY <1>2, <1>3, <1>4

LEMMA SolRestoreStep ==
  ASSUME TypeInv, SolInv, SolRestore, Safe \subseteq Safe'
  PROVE  SolInv'
<1>0. /\ mode = "up" /\ UNCHANGED <<solSaved, coldSkip, mode, chan, table, consumer, lost>>
  BY DEF SolRestore, Answered
<1>1. Entries' = Entries /\ Rows' = Rows /\ Safe' = Rows \cup givenUp' \cup lost \cup Queued
      /\ Rows \subseteq Safe
  BY <1>0 DEF Entries, Rows, Queued, Safe, Kept, TypeInv, GoneInv
<1>2. /\ \A n : SolDoneUpTo(n) => SolDoneUpTo(n)'
      /\ SolSavedInv' /\ SolRowsInv'
  BY <1>0, <1>1, SolStays
<1>3. PICK last \in {sol.mem, solSaved, 0} \cup LastRow :
        /\ \/ sol.mem # 0 /\ last = sol.mem
           \/ sol.mem = 0 /\ last \in LastRow \cup {solSaved, 0}
        /\ sol' = [SolFresh EXCEPT !.phase = "page", !.mem = last, !.last = last]
        /\ givenUp' = IF sol.mem = 0 /\ solSaved \notin {0, last}
                      THEN givenUp \cup (Sol(1 .. last) \ Rows) ELSE givenUp
  BY DEF SolRestore
<1>4. sol'.phase = "page" /\ sol'.last = last /\ sol'.mem = last
  BY <1>3 DEF SolFresh
<1>5. SolDoneUpTo(last)'
  <2>1. CASE last = sol.mem
    BY <1>0, <1>2, <2>1 DEF SolInv, SolMemInv
  <2>2. CASE last = solSaved
    BY <1>2, <2>2 DEF SolInv, SolSavedInv
  <2>3. CASE last = 0
    BY <2>3 DEF SolDoneUpTo
  <2>4. CASE last \in LastRow /\ solSaved = 0
    <3>1. last \in 1 .. SolCount /\ SolIs(last, Rows)
      BY <2>4, LastRowTypes DEF SolIs
    <3>2. SolIs(last, Entries) /\ SolDone(last)
      BY <1>1, <3>1 DEF Entries, SolIs, SolDone
    <3>3. SolDoneUpTo(last - 1)
      BY <2>4, <3>1, <3>2 DEF SolInv, SolRowsInv
    <3>4. SolDoneUpTo(last)
      BY <3>1, <3>2, <3>3 DEF SolDoneUpTo
    <3> QED BY <1>2, <3>4
  <2>5. CASE sol.mem = 0 /\ solSaved \notin {0, last}
    <3>1. Sol(1 .. last) \subseteq Safe'
      BY <1>1, <1>3, <2>5
    <3> QED BY <3>1 DEF SolDoneUpTo, SolDone, SolIs, Sol
  <2> QED BY <1>3, <2>1, <2>2, <2>3, <2>4, <2>5
<1> QED BY <1>2, <1>4, <1>5 DEF SolInv, SolMemInv, SolLastInv, SolRoundInv

LEMMA SolFetchStep ==
  ASSUME TypeInv, SolInv, SolFetch, Safe \subseteq Safe'
  PROVE  SolInv'
<1>0. /\ mode = "up" /\ UNCHANGED <<solSaved, coldSkip, mode, chan, table, consumer, lost>>
      /\ sol.phase = "page" /\ sol \in SolRecord /\ sol.last = sol.mem
      /\ sol.last \in 0 .. SolCount /\ sol.newest \in 0 .. SolCount /\ sigs \in 0 .. SolCount
      /\ SolPage \in Nat /\ SolPage > 0 /\ SolCount \in Nat
      /\ sol.newest = 0 \/ sol.oldest \in sol.last + 1 .. sol.newest
  BY SolAssumption
  DEF SolFetch, Answered, TypeInv, TypeOK, SolTypeOK, SolRecord, SolShape, SolInv, SolLastInv, Positions
<1>1. Entries' = Entries /\ Safe' = Rows \cup givenUp' \cup lost \cup Queued
  BY <1>0 DEF Entries, Rows, Queued, Safe, Kept, TypeInv, GoneInv
<1>2. /\ \A n : SolDoneUpTo(n) => SolDoneUpTo(n)'
      /\ SolSavedInv' /\ SolRowsInv'
  BY <1>0, <1>1, SolStays
<1>n. PICK n : n = sol.last
  OBVIOUS
<1>3. SolDoneUpTo(n)'
  BY <1>0, <1>2, <1>n DEF SolInv, SolMemInv
<1>4. Top \in Nat
  BY <1>0 DEF Top
<1>5. CASE Top <= sol.last
  <2>1. sol' = [sol EXCEPT !.phase = IF sol.newest = 0 THEN "idle" ELSE "tx"]
    BY <1>0, <1>4, <1>5 DEF SolFetch
  <2>2. /\ sol'.mem = n /\ sol'.oldest = sol.oldest
        /\ sol'.phase = IF sol.newest = 0 THEN "idle" ELSE "tx"
    BY <1>0, <1>n, <2>1 DEF SolRecord
  <2>3. sol.newest # 0 => sol.oldest - 1 = n
    BY <1>0, <1>n, <1>5 DEF Top
  <2> QED BY <1>0, <1>2, <1>3, <2>2, <2>3 DEF SolInv, SolMemInv, SolLastInv, SolRoundInv
<1>6. CASE Top > sol.last
  <2>0. /\ sol' = [sol EXCEPT !.oldest = Bottom + 1, !.newest = Newest,
                              !.phase = IF ~FetchedEnough THEN "page"
                                        ELSE IF sol.last = 0 THEN "cold" ELSE "tx"]
        /\ givenUp' = givenUp \cup Sol(Unfetched)
    <3>1. ~(Top <= sol.last)
      BY <1>0, <1>4, <1>6
    <3> QED BY <3>1 DEF SolFetch
  <2>b. PICK b : b = Bottom
    OBVIOUS
  <2>1. /\ sol'.mem = n /\ sol'.last = n /\ sol'.oldest = b + 1
        /\ sol'.phase = IF ~FetchedEnough THEN "page" ELSE IF sol.last = 0 THEN "cold" ELSE "tx"
    BY <1>0, <1>n, <2>0, <2>b DEF SolRecord
  <2>2. b \in Nat /\ b >= n /\ n \in Nat /\ (Top - b < SolPage => b = n)
    BY <1>0, <1>n, <1>4, <1>6, <2>b DEF Bottom, Max2
  <2>3. ASSUME FetchedEnough, sol.last # 0  PROVE \A i \in 1 .. b : SolDone(i)'
    <3>0. \A i \in 1 .. n : SolDone(i)'
      BY <1>3 DEF SolDoneUpTo
    <3>1. CASE b = n
      BY <3>0, <3>1
    <3>2. CASE b # n
      <4>1. Unfetched = n + 1 .. b
        BY <1>n, <2>b, <2>2, <2>3, <3>2 DEF FetchedEnough, Unfetched
      <4>2. \A i \in n + 1 .. b : SolIs(i, Safe')
        BY <1>1, <2>0, <4>1 DEF Sol, SolIs
      <4>3. \A i \in n + 1 .. b : SolDone(i)'
        BY <4>2 DEF SolDone, SolIs
      <4> QED BY <2>2, <3>0, <4>3
    <3> QED BY <3>1, <3>2
  <2>4. sol'.phase = "tx" => SolDoneUpTo(b)'
    BY <2>1, <2>3 DEF SolDoneUpTo
  <2>5. sol'.oldest - 1 = b
    BY <2>1, <2>2
  <2> QED BY <1>0, <1>2, <1>3, <2>1, <2>4, <2>5 DEF SolInv, SolMemInv, SolLastInv, SolRoundInv
<1> QED BY <1>0, <1>4, <1>5, <1>6

LEMMA SolColdStep ==
  ASSUME TypeInv, SolInv, SolCold, Safe \subseteq Safe'
  PROVE  SolInv'
<1>0. /\ sol.phase = "cold" /\ sol \in SolRecord /\ sol.oldest \in 1 .. sol.newest
      /\ UNCHANGED <<chan, table>> /\ solSaved' \in {solSaved, sol.newest}
      /\ coldSkip' = coldSkip \cup (sol.oldest .. sol.newest)
      /\ givenUp' = givenUp \cup Sol(1 .. sol.oldest - 1)
      /\ sol.newest \in Nat
  BY DEF SolCold, Unseen, TypeInv, TypeOK, SolTypeOK, SolRecord, SolShape, Positions
<1>n. PICK n, o : n = sol.newest /\ o = sol.oldest
  OBVIOUS
<1>1. /\ sol'.phase = "tx" /\ sol'.mem = n /\ sol'.oldest = o
  BY <1>0, <1>n DEF SolCold, SolRecord
<1>2. Entries' = Entries /\ Sol(1 .. o - 1) \subseteq Safe'
  BY <1>0, <1>n, SafeIs DEF Entries, Rows, Queued, Safe, Kept
<1>3. \A i \in 1 .. o - 1 : SolDone(i)'
  BY <1>2 DEF SolDone, SolIs, Sol
<1>4. \A i \in o .. n : SolDone(i)'
  BY <1>0, <1>n DEF SolDone
<1>5. \A i \in 1 .. n : SolDone(i)'
  BY <1>0, <1>n, <1>3, <1>4
<1>6. SolDoneUpTo(n)' /\ SolDoneUpTo(o - 1)'
  BY <1>3, <1>5 DEF SolDoneUpTo
<1>7. SolSavedInv' /\ SolRowsInv'
  <2>1. CASE solSaved' = solSaved
    BY <1>0, <1>2, <2>1, SolStays
  <2>2. CASE solSaved' = n
    BY <1>0, <1>n, <1>6, <2>2 DEF SolSavedInv, SolRowsInv
  <2> QED BY <1>0, <1>n, <2>1, <2>2
<1> QED BY <1>1, <1>6, <1>7 DEF SolInv, SolMemInv, SolLastInv, SolRoundInv

(* The signature in work is passed over, found to be a payment, or pushed. *)
LEMMA SolWorkStep ==
  ASSUME TypeInv, SolInv, Safe \subseteq Safe', Entries' \subseteq Entries \cup Sol({sol.oldest}),
         \/ \E i \in 1 .. SolCount : SolPass(i) \/ SolParse(i)
         \/ SolPush
  PROVE  SolInv'
<1>n. PICK n : n = sol.oldest
  OBVIOUS
<1>0. /\ sol \in SolRecord /\ n \in Nat /\ n >= 1
      /\ UNCHANGED <<mode, solSaved, coldSkip, consumer, lost, table>>
      /\ sol'.mem = sol.mem /\ sol'.oldest = n /\ sol'.phase \in {"push", "commit"}
      /\ sol.phase \in {"tx", "push"} /\ (sol.phase = "tx" => mode = "up")
      /\ (sol.phase = "push" => sol'.phase = "commit")
  <2>1. /\ UNCHANGED <<mode, solSaved, coldSkip, consumer, lost>>
        /\ sol.phase \in {"tx", "push"} /\ (sol.phase = "tx" => mode = "up")
        /\ sol' \in {[sol EXCEPT !.phase = "push"], [sol EXCEPT !.phase = "commit"]}
        /\ (sol.phase = "push" => sol' = [sol EXCEPT !.phase = "commit"])
    BY DEF SolPass, SolParse, SolPush, Answered, pipe
  <2>2. UNCHANGED table
    BY DEF SolPass, SolParse, SolPush, pipe
  <2>3. sol \in SolRecord /\ sol.oldest \in 1 .. sol.newest /\ sol.newest \in Nat
    BY <2>1 DEF TypeInv, TypeOK, SolTypeOK, SolRecord, SolShape, Positions
  <2> QED BY <1>n, <2>1, <2>2, <2>3 DEF SolRecord
<1>1. \A m : SolDoneUpTo(m) => SolDoneUpTo(m)'
  BY <1>0, SolStays
<1>2. SolSavedInv'
  BY <1>0, SolStays
<1>3. SolDoneUpTo(n - 1)
  BY <1>0, <1>n DEF SolInv, SolRoundInv
<1>4. SolDoneUpTo(n - 1)'
  BY <1>1, <1>3
<1>5. SolRowsInv'
  <2> SUFFICES ASSUME solSaved' = 0, NEW j \in 1 .. SolCount, SolIs(j, Entries')
               PROVE  SolDoneUpTo(j - 1)'
    BY DEF SolRowsInv, SolIs
  <2>1. SolIs(j, Entries) \/ j = n
    BY <1>n DEF SolIs, Sol
  <2>2. CASE SolIs(j, Entries)
    BY <1>0, <1>1, <2>2 DEF SolInv, SolRowsInv
  <2> QED BY <1>4, <2>1, <2>2
<1>6. ASSUME mode' = "up", sol'.phase = "commit"  PROVE n \in SolFailing \/ SolIs(n, Safe)'
  <2>0. Safe' = Rows' \cup Queued' \cup givenUp' \cup lost'
    BY <1>0, <1>6 DEF Safe, Kept, TypeInv, GoneInv
  <2>1. CASE \E i \in 1 .. SolCount : SolPass(i) /\ i \in SolFailing
    BY <1>n, <2>1 DEF SolPass
  <2>2. CASE \E i \in 1 .. SolCount : SolPass(i) /\ i \notin SolFailing
    BY <1>n, <2>0, <2>2 DEF SolPass, Sol, SolIs
  <2>3. CASE \E i \in 1 .. SolCount : SolParse(i)
    BY <1>0, <1>6, <2>3 DEF SolParse, SolRecord
  <2>4. CASE SolPush
    <3>1. SolIs(n, Real) /\ Push(<<"solana", n>>) /\ EntriesInv
      <4>1. n \in 1 .. SolCount
        BY <1>n, <2>4, SolAssumption
        DEF SolPush, TypeInv, TypeOK, SolTypeOK, SolRecord, SolShape, Positions
      <4> QED BY <1>n, <2>4, <4>1 DEF SolPush, SolIs, Real, Sol, TypeInv
    <3>2. PICK p \in Real : p = <<"solana", n>>
      BY <3>1 DEF SolIs
    <3>3. Push(p)
      BY <3>1, <3>2
    <3>4. p \in Queued'
      BY <3>1, <3>3, PushQueued, PipelineAssumption
    <3> QED BY <2>0, <3>2, <3>4 DEF SolIs
  <2> QED BY <2>1, <2>2, <2>3, <2>4
<1>7. SolMemInv' /\ SolLastInv'
  BY <1>0, <1>1 DEF SolInv, SolMemInv, SolLastInv
<1>8. SolRoundInv'
  BY <1>0, <1>4, <1>6 DEF SolRoundInv
<1> QED BY <1>2, <1>5, <1>7, <1>8 DEF SolInv

LEMMA SolCommitStep ==
  ASSUME TypeInv, SolInv, SolCommit, Safe \subseteq Safe'
  PROVE  SolInv'
<1>n. PICK n : n = sol.oldest
  OBVIOUS
<1>0. /\ sol \in SolRecord /\ sol.phase = "commit" /\ n \in Nat /\ n >= 1
      /\ UNCHANGED <<mode, chan, table>> /\ sol' = Advance(sol)
  BY <1>n DEF SolCommit, TypeInv, TypeOK, SolTypeOK, SolRecord, SolShape, Positions
<1>1. /\ sol'.mem = n /\ sol'.phase \in {"idle", "tx"}
      /\ sol'.phase = "tx" => sol'.oldest - 1 = n
  BY <1>0, <1>n DEF Advance, SolFresh, SolRecord
<1>2. Entries' = Entries
  BY <1>0 DEF Entries, Rows, Queued
<1>3. mode = "up" => SolDoneUpTo(n - 1) /\ (n \in SolFailing \/ SolIs(n, Safe))
  BY <1>0, <1>n DEF SolInv, SolRoundInv
<1>4. mode = "up" => SolDoneUpTo(n)'
  <2> SUFFICES ASSUME mode = "up", NEW i \in 1 .. n  PROVE SolDone(i)'
    BY DEF SolDoneUpTo
  <2>1. CASE i = n
    BY <1>3, <2>1 DEF SolDone, SolIs
  <2>2. CASE i # n
    <3>1. i \in 1 .. n - 1 /\ i \notin Unseen
      BY <1>0, <1>n, <2>2 DEF Unseen
    <3>2. SolDone(i)
      BY <1>3, <3>1 DEF SolDoneUpTo
    <3>3. coldSkip' = coldSkip \/ coldSkip' = coldSkip \ Unseen
      BY DEF SolCommit
    <3> QED BY <3>1, <3>2, <3>3 DEF SolDone, SolIs
  <2> QED BY <2>1, <2>2
<1>5. SolSavedInv' /\ SolRowsInv'
  <2>1. CASE mode = "up" /\ solSaved' = n
    BY <1>0, <1>4, <2>1 DEF SolSavedInv, SolRowsInv
  <2>2. CASE UNCHANGED <<solSaved, coldSkip>>
    BY <1>2, <2>2, SolStays
  <2> QED BY <1>n, <2>1, <2>2 DEF SolCommit, Saves
<1> QED BY <1>0, <1>1, <1>4, <1>5 DEF SolInv, SolMemInv, SolLastInv, SolRoundInv

(* The round is given up, or the process is over: only what is saved, and  *)
(* in the first case the cursor in memory, goes on. *)
LEMMA SolLeaves ==
  ASSUME SolInv, Safe \subseteq Safe', UNCHANGED <<solSaved, coldSkip>>,
         \A j \in 1 .. SolCount : SolIs(j, Entries') => SolIs(j, Entries),
         sol'.phase \in {"idle", "over"},
         \/ sol'.mem = 0
         \/ sol'.mem = sol.mem /\ (mode' = "up" => mode = "up")
  PROVE  SolInv'
<1>1. /\ SolSavedInv' /\ SolRowsInv'
      /\ \A n : SolDoneUpTo(n) => SolDoneUpTo(n)'
  BY SolStays
<1>2. SolMemInv'
  <2>1. CASE sol'.mem = 0
    BY <2>1 DEF SolMemInv, SolDoneUpTo
  <2>2. CASE sol'.mem = sol.mem /\ (mode' = "up" => mode = "up")
    BY <1>1, <2>2 DEF SolInv, SolMemInv
  <2> QED BY <2>1, <2>2
<1> QED BY <1>1, <1>2 DEF SolInv, SolLastInv, SolRoundInv

LEMMA SolStep == TypeInv /\ SolInv /\ [Next]_vars => SolInv'
<1> SUFFICES ASSUME TypeInv, SolInv, [Next]_vars  PROVE SolInv'
  OBVIOUS
<1>f. \A i : <<"solana", i>> \notin Evm(EvmPayments) \cup Tron(Transfers)
  BY DEF Evm, Tron
<1>1. CASE (Consumer \/ Shutdown) /\ UNCHANGED solVars
  <2>1. Safe \subseteq Safe' /\ Entries' \subseteq Entries /\ mode' \in {mode, "stopping"}
    BY <1>1, ConsumerKeeps
  <2> QED BY <1>1, <2>1, SolFrame DEF solVars, SolIs
<1>2. CASE EvmStep /\ UNCHANGED solVars
  <2>1. Safe \subseteq Safe' /\ Entries' \subseteq Entries \cup Evm(EvmPayments) /\ mode' = mode
    BY <1>2, EvmIsQuiet, QuietKeeps, RealIsPayments DEF EvmStep
  <2> QED BY <1>2, <1>f, <2>1, SolFrame DEF solVars, SolIs
<1>3. CASE TronNext /\ UNCHANGED solVars
  <2>1. Safe \subseteq Safe' /\ Entries' \subseteq Entries \cup Tron(Transfers) /\ mode' = mode
    BY <1>3, TronIsQuiet, QuietKeeps, RealIsPayments
  <2> QED BY <1>3, <1>f, <2>1, SolFrame DEF solVars, SolIs
<1>4. CASE SolNext
  <2>1. Safe \subseteq Safe' /\ mode' = mode
    BY <1>4, SolIsQuiet, QuietKeeps, RealIsPayments
  <2>2. CASE Sign
    <3>1. UNCHANGED <<sol, solSaved, coldSkip>> /\ Entries' = Entries
      BY <2>2 DEF Sign, pipe, Entries, Rows, Queued
    <3> QED BY <2>1, <3>1, SolFrame
  <2>3. CASE SolRestore \/ SolFetch \/ SolCold \/ SolCommit
    BY <2>1, <2>3, SolRestoreStep, SolFetchStep, SolColdStep, SolCommitStep
  <2>4. CASE SolPush \/ \E i \in 1 .. SolCount : SolPass(i) \/ SolParse(i)
    <3>1. Entries' \subseteq Entries \cup Sol({sol.oldest})
      <4>1. CASE \E i \in 1 .. SolCount : SolPass(i) \/ SolParse(i)
        BY <4>1 DEF SolPass, SolParse, pipe, Entries, Rows, Queued
      <4>2. CASE SolPush
        <5>1. EntriesInv /\ sol.oldest \in 1 .. SolCount
          BY <4>2, SolAssumption
          DEF SolPush, TypeInv, TypeOK, SolTypeOK, SolRecord, SolShape, Positions
        <5>2. PICK p \in Real : p = <<"solana", sol.oldest>>
          BY <5>1 DEF Real, Sol
        <5>3. Push(p) /\ Rows' = Rows
          BY <4>2, <5>2 DEF SolPush, Rows
        <5>4. Queued' = Queued \cup {p}
          BY <5>1, <5>3, PushQueued, PipelineAssumption
        <5> QED BY <5>2, <5>3, <5>4 DEF Entries, Sol
      <4> QED BY <2>4, <4>1, <4>2
    <3> QED BY <2>1, <2>4, <3>1, SolWorkStep
  <2>5. CASE SolRpcFails \/ SolReturns
    <3>1. /\ UNCHANGED <<solSaved, coldSkip>> /\ Entries' = Entries
          /\ sol' \in {[SolFresh EXCEPT !.mem = sol.mem], [SolFresh EXCEPT !.phase = "over"]}
      BY <2>5 DEF SolRpcFails, SolReturns, pipe, Entries, Rows, Queued
    <3>2. sol'.phase \in {"idle", "over"} /\ sol'.mem \in {0, sol.mem}
      BY <3>1 DEF SolFresh
    <3> QED BY <2>1, <3>1, <3>2, SolLeaves
  <2> QED BY <1>4, <2>2, <2>3, <2>4, <2>5 DEF SolNext, SolScan
<1>5. CASE Ends /\ SolForgets
  <2>1. Safe \subseteq Safe' /\ Entries' \subseteq Entries
    BY <1>5, EndsKeeps
  <2>2. UNCHANGED <<solSaved, coldSkip>> /\ sol'.phase = "idle" /\ sol'.mem = 0
    BY <1>5 DEF SolForgets, SolFresh
  <2> QED BY <2>1, <2>2, SolLeaves DEF SolIs
<1>6. CASE UNCHANGED vars
  <2>1. UNCHANGED <<sol, solSaved, coldSkip, mode>> /\ Safe' = Safe /\ Entries' = Entries
    BY <1>6 DEF vars, solVars, pipe, Safe, Kept, Entries, Rows, Queued
  <2> QED BY <2>1, SolFrame
<1> QED BY <1>1, <1>2, <1>3, <1>4, <1>5, <1>6, StepCases

(* No signature is skipped: what the saved cursor has passed is on record, *)
(* in the channel, or one of the exceptions that the property names.       *)
THEOREM SolanaNothingSkipped == Spec => []SolNothingSkipped
<1>1. SolInv => SolNothingSkipped
  BY SafeIs DEF SolInv, SolSavedInv, SolNothingSkipped, SolDoneUpTo, SolDone, SolIs
<1> QED BY <1>1, SolInvInit, TypeInvariant, SolStep, PTL DEF Spec
===============================================================================
