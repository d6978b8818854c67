-------------------------- MODULE TronScanner_proofs --------------------------
(***************************************************************************)
(* The TRON scanner skips no transfer, for any number of transfers with    *)
(* any timestamps, any page size and page limit, and any number of stops   *)
(* and faults.                                                             *)
(*                                                                         *)
(* The argument: every timestamp the scanner holds is one that TronGrid    *)
(* has indexed (TronKnownInv), so that what is indexed later is not older; *)
(* and what is older than the newest timestamp of a round is done, in the  *)
(* page in work, or behind the fingerprint (TronRoundInv).                 *)
(***************************************************************************)
EXTENDS ScannerPipeline_proofs, FiniteSetTheorems

TronIs(k, S) == <<"tron", k>> \in S
TronDone(t) == \A k \in Older(t) : TronIs(k, Safe)
Known == {0, 1} \cup {Stamp[k] : k \in 1 .. indexed}

TronKnownInv ==
  /\ {tron.mem, tron.last, tron.max, tronSaved.ts} \subseteq Known
  /\ tron.todo \subseteq 1 .. indexed
  /\ \A k \in Transfers : TronIs(k, Entries) => k <= indexed
TronSavedInv == TronDone(tronSaved.ts)
TronMemInv == mode = "up" => TronDone(tron.mem)
Covered(k) == TronIs(k, Safe) \/ k \in tron.todo \/ (tron.fp # 0 /\ k < tron.fp)
TronRoundInv == mode = "up" /\ tron.phase \in {"page", "push"} =>
                  /\ TronDone(tron.last)
                  /\ \A k \in Older(tron.max) : Covered(k)
                  /\ tron.phase = "page" => tron.todo = {}

TronInv == TronKnownInv /\ TronSavedInv /\ TronMemInv /\ TronRoundInv

-------------------------------------------------------------------------------
LEMMA StampTypes ==
  /\ TronCount \in Nat /\ Transfers = 1 .. TronCount
  /\ \A k \in 1 .. TronCount : Stamp[k] \in Nat /\ Stamp[k] >= 1
  /\ \A j, k \in 1 .. TronCount : j <= k => Stamp[j] <= Stamp[k]
BY TronAssumption DEF Transfers

LEMMA TronInvInit == Init => TronInv
<1> SUFFICES ASSUME Init  PROVE TronInv
  OBVIOUS
<1>1. /\ Rows = {} /\ Queued = {} /\ indexed = 0 /\ tronSaved.ts = 0
      /\ tron.phase = "idle" /\ tron.mem = 0 /\ tron.last = 0 /\ tron.max = 0 /\ tron.todo = {}
  BY EmptySeq DEF Init, PipelineInit, TronInit, TronFresh, Rows, Queued
<1>2. \A t : Older(t) = {}
  BY <1>1 DEF Older
<1> QED BY <1>1, <1>2 DEF TronInv, TronKnownInv, TronSavedInv, TronMemInv, TronRoundInv, TronDone,
                          Known, Entries, TronIs

(* What TronGrid indexes next is not older than a timestamp it knows.      *)
LEMMA TronStays ==
  ASSUME TronTypeOK, indexed' \in {indexed, indexed + 1}, indexed' <= TronCount, Safe \subseteq Safe'
  PROVE  /\ Known \subseteq Known' /\ indexed <= indexed' /\ indexed \in Nat /\ indexed' \in Nat
         /\ \A t \in Known : Older(t)' = Older(t)
         /\ \A t \in Known : TronDone(t) => TronDone(t)'
<1>0. indexed \in 0 .. TronCount /\ TronCount \in Nat /\ indexed' \in 0 .. TronCount
  BY StampTypes DEF TronTypeOK
<1>1. Known \subseteq Known'
  BY <1>0 DEF Known
<1>2. \A t \in Known : Older(t)' = Older(t)
  <2> TAKE t \in Known
  <2>1. \A k \in 1 .. indexed' : Stamp[k] < t => k <= indexed
    <3> SUFFICES ASSUME NEW k \in 1 .. indexed', k > indexed  PROVE ~(Stamp[k] < t)
      BY <1>0
    <3>1. CASE t \in {0, 1}
      BY <1>0, <3>1, StampTypes
    <3>2. CASE t \in {Stamp[j] : j \in 1 .. indexed}
      <4> PICK j \in 1 .. indexed : t = Stamp[j]
        BY <3>2
      <4>1. j \in 1 .. TronCount /\ k \in 1 .. TronCount /\ j <= k
        BY <1>0
      <4> QED BY <4>1, StampTypes
    <3> QED BY <3>1, <3>2 DEF Known
  <2> QED BY <1>0, <2>1 DEF Older
<1>3. \A t \in Known : TronDone(t) => TronDone(t)'
  BY <1>2 DEF TronDone, TronIs
<1> QED BY <1>0, <1>1, <1>2, <1>3

(* A step that leaves the scanner alone, or indexes a transfer. *)
LEMMA TronFrame ==
  ASSUME TronTypeOK, TronInv, UNCHANGED <<tron, tronSaved>>, Safe \subseteq Safe',
         indexed' \in {indexed, indexed + 1}, indexed' <= TronCount,
         \A k \in Transfers : TronIs(k, Entries') => TronIs(k, Entries),
         mode' = "up" => mode = "up"
  PROVE  TronInv'
<1>1. /\ Known \subseteq Known' /\ indexed <= indexed' /\ indexed \in Nat /\ indexed' \in Nat
      /\ \A t \in Known : Older(t)' = Older(t)
      /\ \A t \in Known : TronDone(t) => TronDone(t)'
  BY TronStays
<1>2. {tron.mem, tron.last, tron.max, tronSaved.ts} \subseteq Known
  BY DEF TronInv, TronKnownInv
<1>3. TronKnownInv'
  <2>1. \A k \in Transfers : k \in Nat
    BY StampTypes
  <2> QED BY <1>1, <2>1 DEF TronInv, TronKnownInv, TronIs
<1>4. TronSavedInv' /\ TronMemInv'
  BY <1>1, <1>2 DEF TronInv, TronSavedInv, TronMemInv
<1>5. \A k : Covered(k) => Covered(k)'
  BY DEF Covered, TronIs
<1>6. TronRoundInv'
  <2> SUFFICES ASSUME mode' = "up", tron.phase \in {"page", "push"}
               PROVE  /\ TronDone(tron.last)'
                      /\ \A k \in Older(tron.max)' : Covered(k)'
                      /\ tron.phase = "page" => tron.todo = {}
    BY DEF TronRoundInv
  <2> PICK l, m : l = tron.last /\ m = tron.max
    OBVIOUS
  <2>1. TronDone(l) /\ (\A k \in Older(m) : Covered(k)) /\ (tron.phase = "page" => tron.todo = {})
    BY DEF TronInv, TronRoundInv
  <2>2. TronDone(l)' /\ Older(m)' = Older(m)
    BY <1>1, <1>2, <2>1
  <2> QED BY <1>5, <2>1, <2>2
<1> QED BY <1>3, <1>4, <1>6 DEF TronInv

(* The round is over, or the process: the cursor in memory stays, if at    *)
(* all, or is a new one, and so is the one in the table.                   *)
LEMMA TronLeaves ==
  ASSUME TronTypeOK, TronInv, Safe \subseteq Safe', indexed' = indexed,
         \A k \in Transfers : TronIs(k, Entries') => TronIs(k, Entries),
         NEW t \in Known, mode' = "up" => TronDone(t),
         NEW u \in Known, TronDone(u), tronSaved'.ts = u,
         tron'.phase \in {"idle", "over"}, tron'.mem = t, tron'.last = 0, tron'.max = 0,
         tron'.todo = {}
  PROVE  TronInv'
<1>1. /\ Known \subseteq Known' /\ indexed \in Nat
      /\ \A x \in Known : TronDone(x) => TronDone(x)'
  BY TronStays DEF TronTypeOK
<1>2. TronKnownInv'
  BY <1>1 DEF TronInv, TronKnownInv, TronIs, Known
<1>3. TronSavedInv' /\ TronMemInv'
  BY <1>1 DEF TronSavedInv, TronMemInv
<1> QED BY <1>2, <1>3 DEF TronInv, TronRoundInv

(* A new round starts from a cursor below which all is done. *)
LEMMA TronStartStep ==
  ASSUME TypeInv, TronInv, TronStart, Safe \subseteq Safe'
  PROVE  TronInv'
<1>0. /\ mode = "up" /\ tron.phase = "idle" /\ TronTypeOK /\ indexed \in Nat
      /\ UNCHANGED <<indexed, tronSaved, mode, chan, table, consumer, lost>>
  BY DEF TronStart, Answered, TypeInv, TypeOK, TronTypeOK
<1>1. Entries' = Entries /\ Safe' = Rows \cup givenUp' \cup lost \cup Queued
  BY <1>0 DEF Entries, Rows, Queued, Safe, Kept, TypeInv, GoneInv
<1>2. /\ Known \subseteq Known' /\ indexed' = indexed /\ TronCount \in Nat /\ indexed <= TronCount
      /\ \A t \in Known : Older(t)' = Older(t)
      /\ \A t \in Known : TronDone(t) => TronDone(t)'
  BY <1>0, TronStays, StampTypes DEF TronTypeOK
<1>3. /\ {tron.mem, tronSaved.ts} \subseteq Known
      /\ \A k \in TronRows : k \in 1 .. indexed
      /\ \A k \in 1 .. indexed : Stamp[k] \in Known
      /\ 1 \in Known
  <2>1. \A k \in TronRows : k \in Transfers /\ TronIs(k, Rows)
    <3>1. Rows \subseteq Real
      BY ElementTypes, ElementsOf DEF TypeInv, EntriesInv
    <3> QED BY <3>1 DEF TronRows, TronIs, Real, Evm, Sol, Tron
  <2>2. \A k \in TronRows : k \in 1 .. indexed
    <3> TAKE k \in TronRows
    <3>1. k \in Transfers /\ TronIs(k, Entries)
      BY <2>1 DEF Entries, TronIs
    <3>2. k <= indexed
      BY <3>1 DEF TronInv, TronKnownInv
    <3> QED BY <1>0, <3>1, <3>2 DEF Transfers
  <2> QED BY <2>2 DEF TronInv, TronKnownInv, Known
<1>4. PICK t \in Known, fp \in 0 .. TronCount : tron' = Round(t, fp) /\ TronDone(t)'
  <2>1. ASSUME NEW x \in Known, givenUp' = givenUp \cup (Tron(Older(x)) \ Rows)
        PROVE  TronDone(x)'
    <3>1. Tron(Older(x)) \subseteq Safe'
      BY <1>1, <2>1
    <3> QED BY <1>2, <3>1 DEF TronDone, TronIs, Tron
  <2>2. CASE tron' = Round(tron.mem, 0)
    BY <1>0, <1>2, <1>3, <2>2 DEF TronInv, TronMemInv
  <2>f. tronSaved.fp \in 0 .. TronCount /\ 0 \in 0 .. TronCount
    BY <1>0, <1>2 DEF TronTypeOK
  <2>3. CASE tron' = Round(tronSaved.ts, tronSaved.fp)
    BY <1>2, <1>3, <2>3, <2>f DEF TronInv, TronSavedInv
  <2>4. CASE \E x \in Known : tron' = Round(x, 0) /\ givenUp' = givenUp \cup (Tron(Older(x)) \ Rows)
    BY <2>1, <2>4, <2>f
  <2>5. \/ tron' = Round(tron.mem, 0)
        \/ tron' = Round(tronSaved.ts, tronSaved.fp)
        \/ \E x \in Known : tron' = Round(x, 0) /\ givenUp' = givenUp \cup (Tron(Older(x)) \ Rows)
    BY <1>3 DEF TronStart
  <2> QED BY <2>2, <2>3, <2>4, <2>5
<1>5. /\ tron'.phase = "page" /\ tron'.mem = t /\ tron'.last = t /\ tron'.max = t /\ tron'.todo = {}
  BY <1>4 DEF Round, TronFresh
<1>6. TronKnownInv'
  BY <1>0, <1>1, <1>2, <1>5 DEF TronInv, TronKnownInv, TronIs
<1>7. TronSavedInv'
  BY <1>0, <1>2, <1>3 DEF TronInv, TronSavedInv
<1>8. TronMemInv' /\ TronRoundInv'
  BY <1>4, <1>5 DEF TronMemInv, TronRoundInv, TronDone, Covered
<1> QED BY <1>6, <1>7, <1>8 DEF TronInv

(* A page is the newest part of what is listed. *)
LEMMA PageIsNewest ==
  ASSUME NEW S \in SUBSET Transfers, NEW p \in PageOf(S), NEW k \in S \ PageOf(S)
  PROVE  k < p
<1>0. p \in S /\ k \in S /\ p \in Nat /\ k \in Nat /\ p # k /\ TronPage \in Nat
  <2>1. p \in S /\ k \in S /\ p # k
    BY DEF PageOf
  <2>2. \A x \in Transfers : x \in Nat
    BY StampTypes
  <2>3. TronPage \in Nat
    BY TronAssumption
  <2> QED BY <2>1, <2>2, <2>3
<1>n. \A x \in S : x \in Nat
  BY StampTypes
<1> DEFINE Above(x) == {j \in S : j > x}
<1>1. IsFiniteSet(Transfers)
  BY FS_Interval, StampTypes
<1>2. IsFiniteSet(Above(p)) /\ IsFiniteSet(Above(k))
  BY <1>1, FS_Subset
<1>3. Cardinality(Above(p)) \in Nat /\ Cardinality(Above(k)) \in Nat
  BY <1>2, FS_CardinalityType
<1>4. Cardinality(Above(p)) < TronPage /\ ~(Cardinality(Above(k)) < TronPage)
  BY DEF PageOf
<1>5. ASSUME p < k  PROVE FALSE
  <2>1. Above(k) \subseteq Above(p)
    <3>1. \A j \in S : j > k => j > p
      <4> TAKE j \in S
      <4>1. j \in Nat
        BY <1>n
      <4> QED BY <1>0, <1>5, <4>1
    <3> QED BY <3>1
  <2>2. Cardinality(Above(k)) <= Cardinality(Above(p))
    BY <1>2, <2>1, FS_Subset
  <2> HIDE DEF Above
  <2> QED BY <1>0, <1>3, <1>4, <2>2
<1> QED BY <1>0, <1>5

LEMMA TronFetchStep ==
  ASSUME TypeInv, TronInv, TronFetch, Safe \subseteq Safe'
  PROVE  TronInv'
<1> DEFINE page == PageOf(AllListed)
<1>0. /\ mode = "up" /\ tron.phase = "page" /\ tron \in TronRecord /\ tron.todo = {}
      /\ TronTypeOK /\ indexed \in Nat /\ indexed <= TronCount /\ TronCount \in Nat
      /\ UNCHANGED <<indexed, tronSaved, mode, chan, table, consumer, givenUp, lost>>
  BY StampTypes DEF TronFetch, Answered, TypeInv, TypeOK, TronTypeOK, TronRecord, Cursors, pipe,
                    TronInv, TronRoundInv
<1>1. PICK max \in {tron.max} \cup {Stamp[k] : k \in page}, fp \in {0} \cup page :
        /\ fp = 0 => AllListed \ page = {}
        /\ fp # 0 => \A k \in page : fp <= k
        /\ tron' = [tron EXCEPT !.phase = "push", !.todo = page, !.max = max, !.fp = fp,
                                !.pages = @ + 1]
  BY DEF TronFetch
<1>2. /\ tron'.phase = "push" /\ tron'.todo = page /\ tron'.max = max /\ tron'.fp = fp
      /\ tron'.mem = tron.mem /\ tron'.last = tron.last
  <2> HIDE DEF page
  <2> QED BY <1>0, <1>1 DEF TronRecord
<1>3. AllListed \subseteq 1 .. indexed /\ AllListed \subseteq Transfers /\ page \subseteq AllListed
  BY StampTypes DEF AllListed, Listed, PageOf
<1>4. Safe' = Safe /\ Entries' = Entries /\ indexed' = indexed
  BY <1>0 DEF Safe, Kept, Entries, Rows, Queued
<1>5. \A t : Older(t)' = Older(t) /\ (TronDone(t) => TronDone(t)')
  BY <1>4 DEF Older, TronDone, TronIs
<1>6. TronKnownInv'
  <2>1. max \in Known
    BY <1>3 DEF TronInv, TronKnownInv, Known
  <2>2. Known' = Known
    BY <1>4 DEF Known
  <2> QED BY <1>0, <1>2, <1>3, <1>4, <2>1, <2>2 DEF TronInv, TronKnownInv, TronIs
<1>7. TronSavedInv'
  BY <1>0, <1>5 DEF TronInv, TronSavedInv
<1>8. TronMemInv'
  BY <1>0, <1>2, <1>5 DEF TronInv, TronMemInv
<1>9. ASSUME NEW k \in Older(max)
      PROVE  TronIs(k, Safe) \/ k \in page \/ (fp # 0 /\ k < fp)
  <2>1. k \in 1 .. indexed /\ k \in 1 .. TronCount /\ k \in Nat /\ Stamp[k] < max
    BY <1>0, <1>9 DEF Older
  <2>2. TronIs(k, Safe) \/ k \in AllListed
    <3>1. CASE Stamp[k] < tron.last
      BY <1>0, <2>1, <3>1 DEF TronInv, TronRoundInv, TronDone, Older
    <3>2. CASE ~(Stamp[k] < tron.last)
      <4>0. Stamp[k] >= tron.last
        <5>1. tron.last \in Nat /\ Stamp[k] \in Nat
          BY <1>0, <2>1, StampTypes DEF TronRecord, Cursors, Stamps
        <5> QED BY <3>2, <5>1
      <4>1. CASE max = tron.max
        <5>1. Covered(k)
          BY <1>0, <1>9, <4>1 DEF TronInv, TronRoundInv
        <5> QED BY <1>0, <2>1, <4>0, <5>1, StampTypes DEF Covered, AllListed, Listed
      <4>2. CASE max \in {Stamp[j] : j \in page}
        <5> PICK j \in page : max = Stamp[j]
          BY <4>2
        <5>1. j \in AllListed /\ j \in 1 .. TronCount /\ j \in Nat
          <6>1. j \in AllListed
            BY <1>3
          <6>2. j \in 1 .. indexed
            BY <1>3, <6>1
          <6> QED BY <1>0, <6>1, <6>2
        <5>2. k < j
          <6>1. Stamp[k] \in Nat /\ Stamp[j] \in Nat
            BY <2>1, <5>1, StampTypes
          <6>2. j <= k => Stamp[j] <= Stamp[k]
            BY <2>1, <5>1, StampTypes
          <6> QED BY <2>1, <5>1, <6>1, <6>2
        <5>3. tron.fp # 0 => k < tron.fp
          <6>1. tron.fp \in Nat
            BY <1>0 DEF TronRecord
          <6> QED BY <2>1, <5>1, <5>2, <6>1 DEF AllListed, Listed
        <5> QED BY <2>1, <4>0, <5>3, StampTypes DEF AllListed, Listed
      <4> QED BY <1>1, <4>1, <4>2
    <3> QED BY <3>1, <3>2
  <2>3. CASE k \in AllListed \ page
    <3>1. fp \in page
      BY <1>1, <2>3
    <3>2. fp # 0
      BY <1>1, <2>3
    <3>3. k < fp
      BY <1>3, <2>3, <3>1, PageIsNewest
    <3> QED BY <3>2, <3>3
  <2> QED BY <2>2, <2>3
<1>10. TronRoundInv'
  <2>1. \A k \in Older(max)' : Covered(k)'
    BY <1>2, <1>4, <1>5, <1>9 DEF Covered, TronIs
  <2>2. PICK l : l = tron.last
    OBVIOUS
  <2>3. TronDone(l)'
    BY <1>0, <1>5, <2>2 DEF TronInv, TronRoundInv
  <2> QED BY <1>2, <2>1, <2>2, <2>3 DEF TronRoundInv
<1> QED BY <1>6, <1>7, <1>8, <1>10 DEF TronInv

LEMMA TronPushStep ==
  ASSUME TypeInv, TronInv, NEW n \in Transfers, TronPush(n), Safe \subseteq Safe'
  PROVE  TronInv'
<1>0. /\ tron.phase = "push" /\ tron \in TronRecord /\ n \in tron.todo /\ n \in Nat
      /\ indexed \in Nat /\ tron' = [tron EXCEPT !.todo = @ \ {n}]
      /\ UNCHANGED <<indexed, tronSaved, mode, table, consumer, givenUp, lost>>
  BY StampTypes DEF TronPush, TypeInv, TypeOK, TronTypeOK, TronRecord, Cursors
<1>1. /\ tron'.phase = "push" /\ tron'.mem = tron.mem /\ tron'.last = tron.last
      /\ tron'.max = tron.max /\ tron'.fp = tron.fp /\ tron'.todo = tron.todo \ {n}
  BY <1>0 DEF TronRecord
<1>2. Rows' = Rows /\ Queued' = Queued \cup {<<"tron", n>>}
  <2>1. PICK p \in Real : p = <<"tron", n>>
    BY DEF Real, Tron
  <2>2. Push(p) /\ EntriesInv
    BY <2>1 DEF TronPush, TypeInv
  <2>3. Queued' = Queued \cup {p}
    BY <2>2, PushQueued, PipelineAssumption
  <2> QED BY <1>0, <2>1, <2>3 DEF Rows
<1>3. \A t : Older(t)' = Older(t) /\ (TronDone(t) => TronDone(t)')
  BY <1>0 DEF Older, TronDone, TronIs
<1>4. TronKnownInv'
  <2>1. Known' = Known
    BY <1>0 DEF Known
  <2>2. n <= indexed
    BY <1>0 DEF TronInv, TronKnownInv
  <2> QED BY <1>0, <1>1, <1>2, <2>1, <2>2 DEF TronInv, TronKnownInv, TronIs, Entries
<1>5. TronSavedInv' /\ TronMemInv'
  BY <1>0, <1>1, <1>3 DEF TronInv, TronSavedInv, TronMemInv
<1>6. TronRoundInv'
  <2> SUFFICES ASSUME mode = "up"  PROVE TronDone(tron.last)' /\ \A k \in Older(tron.max)' : Covered(k)'
    BY <1>0, <1>1 DEF TronRoundInv
  <2> PICK l, m : l = tron.last /\ m = tron.max
    OBVIOUS
  <2>1. Safe' = Safe \cup {<<"tron", n>>}
    BY <1>0, <1>2 DEF Safe, Kept, TypeInv, GoneInv
  <2>2. TronDone(l) /\ \A k \in Older(m) : Covered(k)
    BY <1>0 DEF TronInv, TronRoundInv
  <2>3. \A k : Covered(k) => Covered(k)'
    BY <1>1, <2>1 DEF Covered, TronIs
  <2> QED BY <1>1, <1>3, <2>2, <2>3
<1> QED BY <1>4, <1>5, <1>6 DEF TronInv

LEMMA TronDoneStep ==
  ASSUME TypeInv, TronInv, TronPageDone \/ TronRoundDone, Safe \subseteq Safe'
  PROVE  TronInv'
<1>0. /\ tron.phase = "push" /\ tron \in TronRecord /\ tron.todo = {} /\ TronTypeOK
      /\ UNCHANGED <<indexed, mode, chan, table, consumer, lost>>
      /\ indexed \in Nat
  BY DEF TronPageDone, TronRoundDone, TypeInv, TypeOK, TronTypeOK, TronRecord, Cursors
<1>1. Entries' = Entries
  BY <1>0 DEF Entries, Rows, Queued
<1>2. {tron.mem, tron.last, tron.max, tronSaved.ts} \subseteq Known
  BY DEF TronInv, TronKnownInv
<1>3. CASE TronPageDone /\ tron.pages < TronPages
  <2>1. tron' = [tron EXCEPT !.phase = "page"]
    BY <1>3 DEF TronPageDone
  <2>2. /\ tron'.phase = "page" /\ tron'.mem = tron.mem /\ tron'.last = tron.last
        /\ tron'.max = tron.max /\ tron'.fp = tron.fp /\ tron'.todo = {}
    BY <1>0, <2>1 DEF TronRecord
  <2>3. \A t : Older(t)' = Older(t) /\ (TronDone(t) => TronDone(t)')
    BY <1>0 DEF Older, TronDone, TronIs
  <2>4. PICK u : u = tronSaved'.ts
    OBVIOUS
  <2>5. u \in Known /\ TronDone(u)
    <3>1. \/ mode = "up" /\ tronSaved' = [ts |-> tron.last, fp |-> tron.fp]
          \/ tronSaved' = tronSaved
      BY <1>3 DEF TronPageDone, Persist, Saves
    <3> QED BY <1>0, <1>2, <2>4, <3>1 DEF TronInv, TronRoundInv, TronSavedInv
  <2>6. Known' = Known
    BY <1>0 DEF Known
  <2>7. TronKnownInv'
    BY <1>0, <1>1, <1>2, <2>2, <2>4, <2>5, <2>6 DEF TronInv, TronKnownInv, TronIs
  <2>8. TronSavedInv' /\ TronMemInv'
    BY <1>0, <2>2, <2>3, <2>4, <2>5 DEF TronInv, TronSavedInv, TronMemInv
  <2>9. TronRoundInv'
    <3> SUFFICES ASSUME mode = "up"  PROVE TronDone(tron.last)' /\ \A k \in Older(tron.max)' : Covered(k)'
      BY <1>0, <2>2 DEF TronRoundInv
    <3> PICK l, m : l = tron.last /\ m = tron.max
      OBVIOUS
    <3>1. TronDone(l) /\ \A k \in Older(m) : Covered(k)
      BY <1>0 DEF TronInv, TronRoundInv
    <3>2. \A k : Covered(k) => Covered(k)'
      BY <1>0, <2>2 DEF Covered, TronIs
    <3> QED BY <2>2, <2>3, <3>1, <3>2
  <2> QED BY <2>7, <2>8, <2>9 DEF TronInv
<1>4. CASE TronPageDone /\ ~(tron.pages < TronPages)
  <2>1. tron' = [TronFresh EXCEPT !.mem = tron.mem]
    BY <1>4 DEF TronPageDone
  <2>2. \/ mode = "up" /\ tronSaved' = [ts |-> tron.last, fp |-> tron.fp]
        \/ tronSaved' = tronSaved
    BY <1>4 DEF TronPageDone, Persist, Saves
  <2>3. PICK u \in Known : tronSaved'.ts = u /\ TronDone(u)
    BY <1>0, <1>2, <2>2 DEF TronInv, TronRoundInv, TronSavedInv
  <2>4. /\ tron'.phase = "idle" /\ tron'.mem = tron.mem /\ tron'.last = 0 /\ tron'.max = 0
        /\ tron'.todo = {}
    BY <2>1 DEF TronFresh
  <2>5. mode' = "up" => TronDone(tron.mem)
    BY <1>0 DEF TronInv, TronMemInv
  <2> QED BY <1>0, <1>1, <1>2, <2>3, <2>4, <2>5, TronLeaves
<1>5. CASE TronRoundDone
  <2>1. tron' = [TronFresh EXCEPT !.mem = tron.max] /\ tron.fp = 0
    BY <1>5 DEF TronRoundDone
  <2>2. \/ mode = "up" /\ tronSaved' = [ts |-> tron.max, fp |-> 0]
        \/ tronSaved' = tronSaved
    BY <1>5 DEF TronRoundDone, Persist, Saves
  <2>3. mode = "up" => TronDone(tron.max)
    BY <1>0, <2>1 DEF TronInv, TronRoundInv, Covered, TronDone
  <2>4. PICK u \in Known : tronSaved'.ts = u /\ TronDone(u)
    BY <1>2, <2>2, <2>3 DEF TronInv, TronSavedInv
  <2>5. /\ tron'.phase = "idle" /\ tron'.mem = tron.max /\ tron'.last = 0 /\ tron'.max = 0
        /\ tron'.todo = {}
    BY <2>1 DEF TronFresh
  <2> QED BY <1>0, <1>1, <1>2, <2>3, <2>4, <2>5, TronLeaves
<1> QED BY <1>3, <1>4, <1>5

LEMMA TronStep == TypeInv /\ TronInv /\ [Next]_vars => TronInv'
<1> SUFFICES ASSUME TypeInv, TronInv, [Next]_vars  PROVE TronInv'
  OBVIOUS
<1>0. /\ TronTypeOK /\ indexed \in Nat /\ indexed <= TronCount /\ TronSavedInv
      /\ {0, tron.mem, tronSaved.ts} \subseteq Known
  BY StampTypes DEF TypeInv, TypeOK, TronTypeOK, TronInv, TronKnownInv, Known
<1>f. \A k : <<"tron", k>> \notin Evm(EvmPayments) \cup Sol(1 .. SolCount)
  BY DEF Evm, Sol
<1>1. CASE (Consumer \/ Shutdown) /\ UNCHANGED tronVars
  <2>1. Safe \subseteq Safe' /\ Entries' \subseteq Entries /\ mode' \in {mode, "stopping"}
    BY <1>1, ConsumerKeeps
  <2> QED BY <1>0, <1>1, <2>1, TronFrame DEF tronVars, TronIs
<1>2. CASE EvmStep /\ UNCHANGED tronVars
  <2>1. Safe \subseteq Safe' /\ Entries' \subseteq Entries \cup Evm(EvmPayments) /\ mode' = mode
    BY <1>2, EvmIsQuiet, QuietKeeps, RealIsPayments DEF EvmStep
  <2> QED BY <1>0, <1>2, <1>f, <2>1, TronFrame DEF tronVars, TronIs
<1>3. CASE SolNext /\ UNCHANGED tronVars
  <2>1. Safe \subseteq Safe' /\ Entries' \subseteq Entries \cup Sol(1 .. SolCount) /\ mode' = mode
    BY <1>3, SolIsQuiet, QuietKeeps, RealIsPayments
  <2> QED BY <1>0, <1>3, <1>f, <2>1, TronFrame DEF tronVars, TronIs
<1>4. CASE TronNext
  <2>1. Safe \subseteq Safe' /\ mode' = mode
    BY <1>4, TronIsQuiet, QuietKeeps, RealIsPayments
  <2>2. CASE Index
    <3>1. UNCHANGED <<tron, tronSaved>> /\ Entries' = Entries /\ indexed' = indexed + 1
          /\ indexed' <= TronCount
      BY <1>0, <2>2, StampTypes DEF Index, pipe, Entries, Rows, Queued
    <3> QED BY <1>0, <2>1, <3>1, TronFrame
  <2>3. CASE TronStart \/ TronFetch \/ TronPageDone \/ TronRoundDone
    BY <2>1, <2>3, TronStartStep, TronFetchStep, TronDoneStep
  <2>4. CASE \E k \in Transfers : TronPush(k)
    BY <2>1, <2>4, TronPushStep
  <2>5. CASE TronFetchFails \/ TronReturns
    <3>1. /\ UNCHANGED <<indexed, tronSaved>> /\ Entries' = Entries
          /\ tron' \in {[TronFresh EXCEPT !.mem = tron.mem], [TronFresh EXCEPT !.phase = "over"]}
      BY <2>5 DEF TronFetchFails, TronReturns, pipe, Entries, Rows, Queued
    <3>2. /\ tron'.phase \in {"idle", "over"} /\ tron'.mem \in {0, tron.mem} /\ tron'.last = 0
          /\ tron'.max = 0 /\ tron'.todo = {}
      BY <3>1 DEF TronFresh
    <3>3. mode' = "up" => TronDone(tron'.mem)
      <4>1. TronDone(0)
        BY <1>0, StampTypes DEF TronDone, Older
      <4> QED BY <2>1, <3>2, <4>1 DEF TronInv, TronMemInv
    <3> QED BY <1>0, <2>1, <3>1, <3>2, <3>3, TronLeaves DEF TronSavedInv
  <2> QED BY <1>4, <2>2, <2>3, <2>4, <2>5 DEF TronNext, TronScan
<1>5. CASE Ends /\ TronForgets
  <2>1. Safe \subseteq Safe' /\ Entries' \subseteq Entries
    BY <1>5, EndsKeeps
  <2>2. /\ UNCHANGED <<indexed, tronSaved>> /\ tron'.phase = "idle" /\ tron'.mem = 0
        /\ tron'.last = 0 /\ tron'.max = 0 /\ tron'.todo = {}
    BY <1>5 DEF TronForgets, TronFresh
  <2>3. TronDone(0)
    BY <1>0, StampTypes DEF TronDone, Older
  <2> QED BY <1>0, <2>1, <2>2, <2>3, TronLeaves DEF TronIs, TronSavedInv
<1>6. CASE UNCHANGED vars
  <2>1. /\ UNCHANGED <<indexed, tron, tronSaved, mode>> /\ Safe' = Safe /\ Entries' = Entries
    BY <1>6 DEF vars, tronVars, pipe, Safe, Kept, Entries, Rows, Queued
  <2> QED BY <1>0, <2>1, TronFrame
<1> QED BY <1>1, <1>2, <1>3, <1>4, <1>5, <1>6, StepCases

(* No transfer is skipped: what is older than the saved cursor is on       *)
(* record, in the channel, or one of the exceptions that the property      *)
(* names.                                                                  *)
THEOREM TronNoTransferSkipped == Spec => []TronNothingSkipped
<1>1. TronInv => TronNothingSkipped
  BY SafeIs DEF TronInv, TronSavedInv, TronNothingSkipped, TronDone, TronIs, Tron
<1> QED BY <1>1, TronInvInit, TypeInvariant, TronStep, PTL DEF Spec

-------------------------------------------------------------------------------
(* The cursor as CursorStream describes it.  The timestamp that is saved   *)
(* is one that is known (TronKnownInv), so that nothing is indexed behind  *)
(* it; it moves when a round is over, over what is done then.              *)
LEMMA DealtWithIsSafe == TronDealtWith = {k \in Transfers : TronIs(k, Safe)}
BY DEF TronDealtWith, TronIs, Safe, Kept

LEMMA TronStreamMoves ==
  ASSUME TypeInv, TronInv, UNCHANGED tronSaved, Safe \subseteq Safe',
         indexed' \in {indexed, indexed + 1}, indexed' <= TronCount
  PROVE  TronCursor!Stream
<1> PICK t : t = tronSaved.ts
  OBVIOUS
<1>0. /\ t \in Known /\ indexed \in Nat /\ indexed' \in Nat /\ indexed <= indexed'
      /\ Older(t)' = Older(t)
  BY TronStays DEF TypeInv, TypeOK, TronInv, TronKnownInv
<1>1. ASSUME NEW k \in Transfers
      PROVE  LET here == IF k <= indexed THEN Stamp[k] ELSE 0
                 after == IF k <= indexed' THEN Stamp[k] ELSE 0
             IN TronCursor!Passed(here, t) \/ TronCursor!Passed(after, t) => after = here
  <2>1. k \in Nat /\ k >= 1 /\ Stamp[k] \in Nat
    BY StampTypes
  <2>2. k \in Older(t)' => k \in Older(t)
    BY <1>0
  <2> QED BY <1>0, <2>1, <2>2 DEF Older, TronCursor!Passed
<1>2. TronDealtWith \subseteq TronDealtWith'
  <2>1. \A k \in Transfers : TronIs(k, Safe) => TronIs(k, Safe')
    BY DEF TronIs
  <2>2. TronDealtWith' = {k \in Transfers : TronIs(k, Safe')}
    BY DEF TronDealtWith, TronIs, Safe, Kept
  <2> QED BY <2>1, <2>2, DealtWithIsSafe
<1> QED BY <1>1, <1>2 DEF TronCursor!Stream

LEMMA TronCursorMaps ==
  ASSUME TypeInv, TronInv, [Next]_vars
  PROVE  [TronCursor!Next]_(TronCursor!vars)
<1> USE DEF TronCursor!Next
<1>0. /\ indexed \in Nat /\ indexed <= TronCount /\ indexed \in {indexed, indexed + 1}
      /\ TronInv'
  BY StampTypes, TronStep DEF TypeInv, TypeOK, TronTypeOK
<1>1. CASE UNCHANGED tronVars /\ Safe \subseteq Safe'
  BY <1>0, <1>1, TronStreamMoves DEF tronVars
<1>2. CASE TronNext
  <2>1. Safe \subseteq Safe'
    BY <1>2, TronIsQuiet, QuietKeeps, RealIsPayments
  <2>2. CASE tronSaved' = tronSaved
    <3>1. TronScan => indexed' = indexed
      BY DEF TronScan, TronStart, TronFetch, TronFetchFails, TronPush, TronPageDone,
             TronRoundDone, TronReturns
    <3>2. Index => indexed' = indexed + 1 /\ indexed' <= TronCount
      BY <1>0, StampTypes DEF Index
    <3> QED BY <1>0, <1>2, <2>1, <2>2, <3>1, <3>2, TronStreamMoves DEF TronNext
  <2>3. CASE tronSaved' # tronSaved
    <3>1. TronPageDone \/ TronRoundDone
      BY <1>2, <2>3
      DEF TronNext, TronScan, Index, TronStart, TronFetch, TronFetchFails, TronPush, TronReturns
    <3>2. UNCHANGED <<indexed, chan, table, consumer, givenUp, lost>>
      BY <3>1 DEF TronPageDone, TronRoundDone
    <3>3. PICK t : t = tronSaved'.ts
      OBVIOUS
    <3>4. TronDealtWith' = TronDealtWith /\ Older(t)' = Older(t) /\ Safe' = Safe
      BY <3>2 DEF TronDealtWith, Older, Rows, Queued, Safe, Kept
    <3>5. \A k \in Older(t) : TronIs(k, Safe)
      BY <1>0, <3>3, <3>4 DEF TronInv, TronSavedInv, TronDone
    <3>6. ASSUME NEW k \in Transfers, TronCursor!Passed(IF k <= indexed THEN Stamp[k] ELSE 0, t)
          PROVE  k \in TronDealtWith
      <4>1. k \in Older(t)
        BY <1>0, <3>6, StampTypes DEF TronCursor!Passed, Older
      <4> QED BY <3>5, <4>1, DealtWithIsSafe
    <3> QED BY <3>2, <3>3, <3>4, <3>6 DEF TronCursor!Move
  <2> QED BY <2>2, <2>3
<1>3. CASE Next
  <2>1. CASE (Consumer \/ Shutdown) /\ UNCHANGED tronVars
    BY <1>1, <2>1, ConsumerKeeps
  <2>2. CASE EvmStep /\ UNCHANGED tronVars
    BY <1>1, <2>2, EvmIsQuiet, QuietKeeps, RealIsPayments DEF EvmStep
  <2>3. CASE SolNext /\ UNCHANGED tronVars
    BY <1>1, <2>3, SolIsQuiet, QuietKeeps, RealIsPayments
  <2>4. CASE Ends /\ TronForgets
    <3>1. Safe \subseteq Safe' /\ UNCHANGED <<indexed, tronSaved>>
      BY <2>4, EndsKeeps DEF TronForgets
    <3> QED BY <1>0, <3>1, TronStreamMoves
  <2> QED BY <1>2, <1>3, <2>1, <2>2, <2>3, <2>4, StepCases
<1>4. CASE UNCHANGED vars
  <2>1. UNCHANGED tronVars /\ Safe' = Safe
    BY <1>4 DEF vars, pipe, Safe, Kept, Rows, Queued
  <2> QED BY <1>1, <2>1
<1> QED BY <1>3, <1>4

(* What the saved timestamp has passed was dealt with before, and nothing  *)
(* is indexed there later, so that a process that starts from it need not  *)
(* look back.                                                              *)
THEOREM TronCursorIsKept == Spec => TronImplementsCursor
<1>1. Init => TronCursor!Init
  <2> SUFFICES ASSUME Init PROVE TronCursor!Init
    OBVIOUS
  <2>1. indexed = 0 /\ tronSaved.ts = 0 /\ Rows = {} /\ Queued = {} /\ givenUp = {} /\ lost = {}
    BY EmptySeq DEF Init, TronInit, PipelineInit, Rows, Queued
  <2>2. TronDealtWith = {}
    BY <2>1 DEF TronDealtWith
  <2>3. \A k \in Transfers : ~(k <= indexed)
    BY <2>1, StampTypes
  <2> QED BY <2>1, <2>2, <2>3 DEF TronCursor!Init
<1> QED
  BY <1>1, TronInvInit, TypeInvariant, TronStep, TronCursorMaps, PTL
  DEF Spec, TronImplementsCursor, TronCursor!Spec
===============================================================================
