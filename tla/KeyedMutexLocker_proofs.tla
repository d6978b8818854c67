------------------------ MODULE KeyedMutexLocker_proofs ------------------------
(***************************************************************************)
(* The keyed locker is a mutex for any number of goroutines and keys.      *)
(*                                                                         *)
(* MutualExclusion is not inductive alone: a waiter could find a token in  *)
(* a second entry of its key.  The strengthening says that every           *)
(* registered call refers to the entry stored under its key, that two keys *)
(* never share an entry, that reference counts are exact (so an entry is   *)
(* deleted only after its last call) and that a token is missing exactly   *)
(* while somebody holds the key.                                           *)
(***************************************************************************)
EXTENDS KeyedMutexLocker, FiniteSetTheorems, TLAPS

(* What a goroutine's locals are in each phase. *)
Locals == \A t \in Threads :
            IF pc[t] = "idle" THEN ent[t] = NoEntry
                              ELSE key[t] \in Keys /\ ent[t] \in Entries

DistinctEntries ==
  \A j, k \in Keys : locks[j] = locks[k] /\ locks[j] # NoEntry => j = k

IInv == /\ TypeOK
        /\ Locals
        /\ DistinctEntries
        /\ EntryOwnership
        /\ TokenConservation
        /\ MutualExclusion

-------------------------------------------------------------------------------
(* Counting the callers of a key: one joins, one leaves. *)
LEMMA CallersFinite == \A k \in Keys : IsFiniteSet(Callers(k)) /\ Cardinality(Callers(k)) \in Nat
<1>1. ASSUME NEW k \in Keys PROVE IsFiniteSet(Callers(k))
  BY FiniteAssumption, FS_Subset DEF Callers
<1> QED BY <1>1, FS_CardinalityType

LEMMA InitIInv == Init => IInv
<1> SUFFICES ASSUME Init PROVE IInv
  OBVIOUS
<1>1. TypeOK BY DEF Init, TypeOK, Phases, Entry
<1>2. Locals BY DEF Init, Locals
<1>3. DistinctEntries BY DEF Init, DistinctEntries
<1>4. EntryOwnership BY DEF Init, EntryOwnership, Callers, Registered
<1>5. TokenConservation BY DEF Init, TokenConservation
<1>6. MutualExclusion BY DEF Init, MutualExclusion
<1> QED BY <1>1, <1>2, <1>3, <1>4, <1>5, <1>6 DEF IInv

LEMMA RegisterIInv == ASSUME IInv, NEW t \in Threads, NEW k \in Keys, NEW e \in Entries,
                             Register(t, k, e)
                      PROVE  IInv'
<1> USE NilAssumption DEF IInv
<1>1. /\ pc[t] = "idle" /\ pc' = [pc EXCEPT ![t] = "select"]
      /\ key' = [key EXCEPT ![t] = k] /\ ent' = [ent EXCEPT ![t] = e]
      /\ locks' = [locks EXCEPT ![k] = e]
  BY DEF Register
<1>2. /\ Callers(k)' = Callers(k) \cup {t} /\ t \notin Callers(k)
      /\ \A j \in Keys \ {k} : Callers(j)' = Callers(j)
  BY <1>1 DEF Callers, Registered, TypeOK
<1>3. IsFiniteSet(Callers(k)) /\ Cardinality(Callers(k)') = Cardinality(Callers(k)) + 1
  BY <1>2, CallersFinite, FS_AddElement
<1>4. \/ /\ locks[k] = NoEntry /\ Unreferenced(e)
         /\ heap' = [heap EXCEPT ![e] = [token |-> TRUE, ref |-> 1]]
      \/ /\ locks[k] = e
         /\ heap' = [heap EXCEPT ![e] = [token |-> heap[e].token, ref |-> heap[e].ref + 1]]
  BY DEF Register, TypeOK, Entry
<1>5. TypeOK'
  <2>1. heap' \in [Entries -> Entry]
    <3>1. CASE locks[k] = NoEntry
      <4>1. heap' = [heap EXCEPT ![e] = [token |-> TRUE, ref |-> 1]]
        BY <3>1, <1>4
      <4>2. [token |-> TRUE, ref |-> 1] \in Entry
        BY DEF Entry
      <4> QED BY <4>1, <4>2 DEF TypeOK
    <3>2. CASE locks[k] # NoEntry
      <4>1. heap' = [heap EXCEPT ![e] = [token |-> heap[e].token, ref |-> heap[e].ref + 1]]
        BY <3>2, <1>4
      <4>2. [token |-> heap[e].token, ref |-> heap[e].ref + 1] \in Entry
        BY DEF Entry, TypeOK
      <4> QED BY <4>1, <4>2 DEF TypeOK
    <3> QED BY <3>1, <3>2
  <2>2. /\ locks' \in [Keys -> Entries \cup {NoEntry}]
        /\ key' \in [Threads -> Keys \cup {NoKey}]
        /\ ent' \in [Threads -> Entries \cup {NoEntry}]
    BY <1>1 DEF TypeOK
  <2>3. pc' \in [Threads -> Phases]
    BY <1>1 DEF TypeOK, Phases
  <2> QED BY <2>1, <2>2, <2>3 DEF TypeOK
<1>6. Locals'
  BY <1>1 DEF Locals, TypeOK
<1>7. \A j \in Keys \ {k} : locks[j] # e
  BY <1>4 DEF Unreferenced, DistinctEntries
<1>8. DistinctEntries'
  BY <1>1, <1>7 DEF DistinctEntries, TypeOK
<1>9. \A j \in Keys \ {k} : locks'[j] # NoEntry => heap'[locks'[j]] = heap[locks[j]]
  BY <1>1, <1>4, <1>7 DEF TypeOK
<1>10. /\ heap'[e].ref = Cardinality(Callers(k)')
       /\ heap'[e].token = IF locks[k] = NoEntry THEN TRUE ELSE heap[e].token
  <2>1. CASE locks[k] = NoEntry
    <3>1. Cardinality(Callers(k)) = 0
      BY <2>1, FS_EmptySet DEF EntryOwnership
    <3>2. heap' = [heap EXCEPT ![e] = [token |-> TRUE, ref |-> 1]]
      BY <2>1, <1>4
    <3>3. heap'[e].ref = 1 /\ heap'[e].token = TRUE
      BY <3>2 DEF TypeOK
    <3>4. Cardinality(Callers(k)') = 1
      BY <1>3, <3>1
    <3> QED BY <2>1, <3>3, <3>4
  <2>2. CASE locks[k] # NoEntry
    <3>1. locks[k] = e /\ heap'[e].ref = heap[e].ref + 1 /\ heap'[e].token = heap[e].token
      BY <2>2, <1>4 DEF TypeOK
    <3>2. heap[e].ref = Cardinality(Callers(k))
      BY <2>2, <3>1 DEF EntryOwnership
    <3> QED BY <2>2, <1>3, <3>1, <3>2
  <2> QED BY <2>1, <2>2
<1>11. EntryOwnership'
  <2>1. \A u \in Threads : Registered(u)' => locks'[key'[u]] = ent'[u]
    <3> SUFFICES ASSUME NEW u \in Threads, Registered(u)' PROVE locks'[key'[u]] = ent'[u]
      OBVIOUS
    <3>1. CASE u = t BY <3>1, <1>1 DEF TypeOK
    <3>2. CASE u # t
      <4>1. Registered(u) /\ key'[u] = key[u] /\ ent'[u] = ent[u]
        BY <3>2, <1>1 DEF Registered, TypeOK
      <4>2. locks[key[u]] = ent[u] /\ key[u] \in Keys /\ ent[u] \in Entries
        BY <4>1 DEF EntryOwnership, Locals, Registered
      <4>3. CASE key[u] = k BY <4>1, <4>2, <4>3, <1>1, <1>4 DEF TypeOK
      <4>4. CASE key[u] # k BY <4>1, <4>2, <4>4, <1>1 DEF TypeOK
      <4> QED BY <4>3, <4>4
    <3> QED BY <3>1, <3>2
  <2>2. ASSUME NEW j \in Keys
        PROVE  IF locks'[j] = NoEntry
                 THEN Callers(j)' = {}
                 ELSE heap'[locks'[j]].ref = Cardinality(Callers(j)') /\ Callers(j)' # {}
    <3>1. CASE j = k BY <3>1, <1>1, <1>2, <1>10 DEF TypeOK
    <3>2. CASE j # k BY <3>2, <1>1, <1>2, <1>9 DEF EntryOwnership, TypeOK
    <3> QED BY <3>1, <3>2
  <2> QED BY <2>1, <2>2 DEF EntryOwnership
<1>12. \A u \in Threads, j \in Keys :
         (pc'[u] = "held" /\ key'[u] = j) <=> (pc[u] = "held" /\ key[u] = j)
  BY <1>1 DEF TypeOK
<1>13. TokenConservation'
  <2> SUFFICES ASSUME NEW j \in Keys, locks'[j] # NoEntry
               PROVE  heap'[locks'[j]].token
                        <=> \A u \in Threads : ~(pc'[u] = "held" /\ key'[u] = j)
    BY DEF TokenConservation
  <2>1. CASE j # k
    <3>1. locks[j] = locks'[j] /\ heap'[locks'[j]] = heap[locks[j]]
      BY <2>1, <1>1, <1>9 DEF TypeOK
    <3> QED BY <3>1, <1>12 DEF TokenConservation
  <2>2. CASE j = k /\ locks[k] = NoEntry
    <3>1. heap'[locks'[j]].token = TRUE
      BY <2>2, <1>1, <1>10 DEF TypeOK
    <3>2. Callers(k) = {}
      BY <2>2 DEF EntryOwnership
    <3>3. \A u \in Threads : ~(pc[u] = "held" /\ key[u] = k)
      BY <3>2 DEF Callers, Registered
    <3> QED BY <2>2, <3>1, <3>3, <1>12
  <2>3. CASE j = k /\ locks[k] # NoEntry
    <3>1. locks[k] = e /\ locks'[k] = e /\ heap'[e].token = heap[e].token
      BY <2>3, <1>1, <1>4, <1>10 DEF TypeOK
    <3> QED BY <2>3, <3>1, <1>12 DEF TokenConservation
  <2> QED BY <2>1, <2>2, <2>3
<1>14. MutualExclusion'
  BY <1>1 DEF MutualExclusion, TypeOK
<1> QED BY <1>5, <1>6, <1>8, <1>11, <1>13, <1>14

-------------------------------------------------------------------------------
(* The token of a key goes to a waiter, or comes back: entries, counts and *)
(* pointers stay.                                                          *)
LEMMA TokenMoves == ASSUME IInv, NEW t \in Threads, NEW p \in Phases, NEW b \in BOOLEAN,
                           Registered(t), p \in {"select", "held", "unlocking", "leaving"},
                           pc' = [pc EXCEPT ![t] = p],
                           heap' = [heap EXCEPT ![ent[t]].token = b],
                           UNCHANGED <<locks, key, ent>>
                    PROVE  /\ TypeOK' /\ Locals' /\ DistinctEntries' /\ EntryOwnership'
                           /\ \A j \in Keys : locks[j] # NoEntry =>
                                heap'[locks[j]].token = IF j = key[t] THEN b ELSE heap[locks[j]].token
<1> USE NilAssumption DEF IInv
<1>1. key[t] \in Keys /\ ent[t] \in Entries /\ locks[key[t]] = ent[t]
  BY DEF Locals, Registered, EntryOwnership
<1>2. TypeOK'
  <2>1. [heap[ent[t]] EXCEPT !.token = b] \in Entry
    BY <1>1 DEF TypeOK, Entry
  <2> QED BY <1>1, <2>1 DEF TypeOK
<1>3. Locals'
  BY DEF Locals, Registered, TypeOK
<1>4. DistinctEntries'
  BY DEF DistinctEntries
<1>5. \A u \in Threads : Registered(u)' <=> Registered(u)
  BY DEF Registered, TypeOK
<1>6. \A j \in Keys : Callers(j)' = Callers(j)
  BY <1>5 DEF Callers
<1>7. \A f \in Entries : heap'[f].ref = heap[f].ref
  BY <1>1 DEF TypeOK, Entry
<1>8. EntryOwnership'
  BY <1>5, <1>6, <1>7 DEF EntryOwnership, TypeOK
<1>9. ASSUME NEW j \in Keys, locks[j] # NoEntry
      PROVE  heap'[locks[j]].token = IF j = key[t] THEN b ELSE heap[locks[j]].token
  <2>1. CASE j = key[t] BY <1>1, <2>1 DEF TypeOK, Entry
  <2>2. CASE j # key[t]
    <3>1. locks[j] # ent[t] /\ locks[j] \in Entries
      BY <1>1, <1>9, <2>2 DEF DistinctEntries, TypeOK
    <3> QED BY <1>1, <2>2, <3>1 DEF TypeOK
  <2> QED BY <2>1, <2>2
<1> QED BY <1>2, <1>3, <1>4, <1>8, <1>9

LEMMA TakeTokenIInv == ASSUME IInv, NEW t \in Threads, TakeToken(t) PROVE IInv'
<1> USE DEF IInv
<1>1. /\ Registered(t) /\ pc[t] = "select" /\ pc' = [pc EXCEPT ![t] = "held"]
      /\ heap' = [heap EXCEPT ![ent[t]].token = FALSE]
      /\ UNCHANGED <<locks, key, ent>>
  BY DEF TakeToken, Registered
<1>2. /\ TypeOK' /\ Locals' /\ DistinctEntries' /\ EntryOwnership'
      /\ \A j \in Keys : locks[j] # NoEntry =>
           heap'[locks[j]].token = IF j = key[t] THEN FALSE ELSE heap[locks[j]].token
  <2>1. "held" \in Phases BY DEF Phases
  <2> QED BY <1>1, <2>1, TokenMoves
<1>3. \A u \in Threads : ~(pc[u] = "held" /\ key[u] = key[t])
  BY <1>1, NilAssumption DEF TakeToken, TokenConservation, EntryOwnership, Locals, TypeOK
<1>4. TokenConservation'
  BY <1>1, <1>2 DEF TokenConservation, TypeOK
<1>5. MutualExclusion'
  BY <1>1, <1>3 DEF MutualExclusion, TypeOK
<1> QED BY <1>2, <1>4, <1>5

LEMMA UnlockIInv == ASSUME IInv, NEW t \in Threads, Unlock(t) PROVE IInv'
<1> USE DEF IInv
<1>1. /\ Registered(t) /\ pc[t] = "held" /\ pc' = [pc EXCEPT ![t] = "unlocking"]
      /\ heap' = [heap EXCEPT ![ent[t]].token = TRUE]
      /\ UNCHANGED <<locks, key, ent>>
  BY DEF Unlock, OnceRuns, Registered
<1>2. /\ TypeOK' /\ Locals' /\ DistinctEntries' /\ EntryOwnership'
      /\ \A j \in Keys : locks[j] # NoEntry =>
           heap'[locks[j]].token = IF j = key[t] THEN TRUE ELSE heap[locks[j]].token
  <2>1. "unlocking" \in Phases BY DEF Phases
  <2> QED BY <1>1, <2>1, TokenMoves
<1>3. MutualExclusion'
  BY <1>1 DEF MutualExclusion, TypeOK
<1>4. \A u \in Threads : pc[u] = "held" /\ key[u] = key[t] => u = t
  BY <1>1 DEF MutualExclusion
<1>5. TokenConservation'
  <2> SUFFICES ASSUME NEW j \in Keys, locks[j] # NoEntry
               PROVE  heap'[locks[j]].token
                        <=> \A u \in Threads : ~(pc'[u] = "held" /\ key[u] = j)
    BY <1>1 DEF TokenConservation
  <2>1. CASE j = key[t]
    BY <2>1, <1>1, <1>2, <1>4 DEF TypeOK
  <2>2. CASE j # key[t]
    <3>1. heap'[locks[j]].token = heap[locks[j]].token
      BY <2>2, <1>2
    <3>2. \A u \in Threads : (pc'[u] = "held" /\ key[u] = j) <=> (pc[u] = "held" /\ key[u] = j)
      BY <2>2, <1>1 DEF TypeOK
    <3> QED BY <3>1, <3>2 DEF TokenConservation
  <2> QED BY <2>1, <2>2
<1> QED BY <1>2, <1>3, <1>5

LEMMA GiveUpIInv == ASSUME IInv, NEW t \in Threads, GiveUp(t) PROVE IInv'
<1> USE DEF IInv
<1>1. /\ pc[t] = "select" /\ pc' = [pc EXCEPT ![t] = "leaving"]
      /\ UNCHANGED <<locks, heap, key, ent>>
  BY DEF GiveUp
<1>2. \A u \in Threads : /\ Registered(u)' <=> Registered(u)
                         /\ pc'[u] = "held" <=> pc[u] = "held"
  BY <1>1 DEF Registered, TypeOK
<1>3. \A j \in Keys : Callers(j)' = Callers(j)
  BY <1>1, <1>2 DEF Callers
<1>4. TypeOK' BY <1>1 DEF TypeOK, Phases
<1>5. Locals' BY <1>1 DEF Locals, TypeOK
<1>6. DistinctEntries' BY <1>1 DEF DistinctEntries
<1>7. EntryOwnership' BY <1>1, <1>2, <1>3 DEF EntryOwnership
<1>8. TokenConservation' BY <1>1, <1>2 DEF TokenConservation
<1>9. MutualExclusion' BY <1>1, <1>2 DEF MutualExclusion
<1> QED BY <1>4, <1>5, <1>6, <1>7, <1>8, <1>9

LEMMA DropClosureIInv == ASSUME IInv, NEW t \in Threads, DropClosure(t) PROVE IInv'
<1> USE DEF IInv
<1>1. /\ pc[t] = "released" /\ pc' = [pc EXCEPT ![t] = "idle"]
      /\ key' = [key EXCEPT ![t] = NoKey] /\ ent' = [ent EXCEPT ![t] = NoEntry]
      /\ UNCHANGED <<locks, heap>>
  BY DEF DropClosure
<1>2. ~Registered(t) /\ ~Registered(t)'
  BY <1>1 DEF Registered, TypeOK
<1>3. \A u \in Threads \ {t} : pc'[u] = pc[u] /\ key'[u] = key[u] /\ ent'[u] = ent[u]
  BY <1>1 DEF TypeOK
<1>4. \A j \in Keys : Callers(j)' = Callers(j)
  BY <1>2, <1>3 DEF Callers, Registered
<1>5. TypeOK' BY <1>1 DEF TypeOK, Phases
<1>6. Locals' BY <1>1 DEF Locals, TypeOK
<1>7. DistinctEntries' BY <1>1 DEF DistinctEntries
<1>8. EntryOwnership' BY <1>1, <1>2, <1>3, <1>4 DEF EntryOwnership, Registered
<1>9. TokenConservation' BY <1>1, <1>3 DEF TokenConservation, TypeOK
<1>10. MutualExclusion' BY <1>1 DEF MutualExclusion, TypeOK
<1> QED BY <1>5, <1>6, <1>7, <1>8, <1>9, <1>10

-------------------------------------------------------------------------------
(* releaseRef: the count goes down, and the entry goes with its last call. *)
LEMMA ReleaseRefIInv == ASSUME IInv, NEW t \in Threads, ReleaseRef(t) PROVE IInv'
<1> USE NilAssumption DEF IInv
<1>0. key[t] \in Keys
  BY DEF ReleaseRef, Locals
<1> PICK k \in Keys : k = key[t]
  BY <1>0
<1> PICK e : e = locks[k]
  OBVIOUS
<1>1. /\ Registered(t) /\ pc[t] # "held" /\ pc[t] # "idle"
      /\ Decrement(k)
      /\ \A u \in Threads \ {t} : pc'[u] = pc[u] /\ key'[u] = key[u] /\ ent'[u] = ent[u]
      /\ \/ pc'[t] = "released" /\ key'[t] = key[t] /\ ent'[t] = ent[t]
         \/ pc'[t] = "idle" /\ key'[t] = NoKey /\ ent'[t] = NoEntry
  BY DEF ReleaseRef, Registered, TypeOK
<1>2. k \in Keys /\ e \in Entries /\ e # NoEntry
  BY <1>1 DEF Locals, EntryOwnership
<1>3. /\ ~Registered(t)'
      /\ \A u \in Threads \ {t} : Registered(u)' <=> Registered(u)
  BY <1>1 DEF Registered
<1>4. /\ Callers(k)' = Callers(k) \ {t} /\ t \in Callers(k)
      /\ \A j \in Keys \ {k} : Callers(j)' = Callers(j)
  BY <1>1, <1>3 DEF Callers
<1>5. /\ IsFiniteSet(Callers(k)) /\ Cardinality(Callers(k)) \in Nat
      /\ Cardinality(Callers(k)') = Cardinality(Callers(k)) - 1
      /\ (Cardinality(Callers(k)') = 0) <=> (Callers(k)' = {})
  <2>1. IsFiniteSet(Callers(k)) /\ Cardinality(Callers(k)) \in Nat
    BY <1>2, CallersFinite
  <2>2. Cardinality(Callers(k) \ {t}) = Cardinality(Callers(k)) - 1
    BY <2>1, <1>4, FS_RemoveElement
  <2>3. IsFiniteSet(Callers(k) \ {t})
    BY <2>1, FS_Subset
  <2>4. (Cardinality(Callers(k) \ {t}) = 0) <=> (Callers(k) \ {t} = {})
    BY <2>3, FS_EmptySet
  <2> QED BY <2>1, <2>2, <2>4, <1>4
<1>6. heap[e].ref = Cardinality(Callers(k)) /\ Callers(k) # {}
  BY <1>2 DEF EntryOwnership
<1>7. /\ heap' = [heap EXCEPT ![e].ref = heap[e].ref - 1]
      /\ locks' = IF heap[e].ref - 1 <= 0 THEN [locks EXCEPT ![k] = NoEntry] ELSE locks
  BY <1>1, <1>2 DEF Decrement
<1>8. heap[e].ref - 1 \in Nat /\ (heap[e].ref - 1 <= 0 <=> Callers(k)' = {})
  <2>1. Cardinality(Callers(k)) # 0
    BY <1>5, <1>6, FS_EmptySet
  <2> QED BY <2>1, <1>5, <1>6
<1>9. /\ heap'[e].ref = Cardinality(Callers(k)') /\ heap'[e].token = heap[e].token
      /\ \A f \in Entries \ {e} : heap'[f] = heap[f]
  BY <1>2, <1>5, <1>6, <1>7 DEF TypeOK, Entry
<1>10. \A j \in Keys \ {k} : locks'[j] = locks[j] /\ locks[j] # e
  BY <1>2, <1>7 DEF TypeOK, DistinctEntries
<1>11. locks'[k] = IF Callers(k)' = {} THEN NoEntry ELSE e
  BY <1>2, <1>7, <1>8 DEF TypeOK
<1>12. TypeOK'
  <2>1. [heap[e] EXCEPT !.ref = heap[e].ref - 1] \in Entry
    BY <1>2, <1>8 DEF TypeOK, Entry
  <2>2. heap' \in [Entries -> Entry]
    BY <2>1, <1>2, <1>7 DEF TypeOK
  <2>3. locks' \in [Keys -> Entries \cup {NoEntry}]
    BY <1>7 DEF TypeOK
  <2>4. /\ pc' \in [Threads -> Phases] /\ key' \in [Threads -> Keys \cup {NoKey}]
        /\ ent' \in [Threads -> Entries \cup {NoEntry}]
    BY DEF ReleaseRef, TypeOK, Phases
  <2> QED BY <2>2, <2>3, <2>4 DEF TypeOK
<1>13. Locals'
  BY <1>1 DEF Locals
<1>14. DistinctEntries'
  BY <1>10, <1>11 DEF DistinctEntries
<1>15. EntryOwnership'
  <2>1. ASSUME NEW u \in Threads, Registered(u)' PROVE locks'[key'[u]] = ent'[u]
    <3>1. u # t /\ Registered(u) /\ key'[u] = key[u] /\ ent'[u] = ent[u] /\ key[u] \in Keys
      BY <2>1, <1>1, <1>3 DEF Locals, Registered
    <3>2. locks[key[u]] = ent[u]
      BY <3>1 DEF EntryOwnership
    <3>3. key[u] = k => u \in Callers(k)'
      BY <3>1, <1>4 DEF Callers
    <3> QED BY <3>1, <3>2, <3>3, <1>10, <1>11
  <2>2. ASSUME NEW j \in Keys
        PROVE  IF locks'[j] = NoEntry
                 THEN Callers(j)' = {}
                 ELSE heap'[locks'[j]].ref = Cardinality(Callers(j)') /\ Callers(j)' # {}
    <3>1. CASE j = k BY <3>1, <1>2, <1>9, <1>11
    <3>2. CASE j # k
      <4>1. locks'[j] = locks[j] /\ Callers(j)' = Callers(j) /\ locks[j] # e
        BY <3>2, <1>4, <1>10
      <4>2. locks[j] # NoEntry => heap'[locks[j]] = heap[locks[j]]
        BY <4>1, <1>9 DEF TypeOK
      <4> QED BY <4>1, <4>2 DEF EntryOwnership
    <3> QED BY <3>1, <3>2
  <2> QED BY <2>1, <2>2 DEF EntryOwnership
<1>16. \A u \in Threads, j \in Keys :
         (pc'[u] = "held" /\ key'[u] = j) <=> (pc[u] = "held" /\ key[u] = j)
  BY <1>1
<1>17. TokenConservation'
  <2> SUFFICES ASSUME NEW j \in Keys, locks'[j] # NoEntry
               PROVE  heap'[locks'[j]].token
                        <=> \A u \in Threads : ~(pc'[u] = "held" /\ key'[u] = j)
    BY DEF TokenConservation
  <2>1. locks[j] = locks'[j] /\ heap'[locks[j]].token = heap[locks[j]].token
    BY <1>2, <1>9, <1>10, <1>11 DEF TypeOK
  <2> QED BY <2>1, <1>16 DEF TokenConservation
<1>18. MutualExclusion'
  BY <1>1 DEF MutualExclusion
<1> QED BY <1>12, <1>13, <1>14, <1>15, <1>17, <1>18

-------------------------------------------------------------------------------
LEMMA NextIInv == IInv /\ [Next]_vars => IInv'
<1> SUFFICES ASSUME IInv, [Next]_vars PROVE IInv'
  OBVIOUS
<1>1. ASSUME NEW t \in Threads, NEW k \in Keys, NEW e \in Entries, Register(t, k, e)
      PROVE  IInv'
  BY <1>1, RegisterIInv
<1>2. ASSUME NEW t \in Threads, TakeToken(t) PROVE IInv'
  BY <1>2, TakeTokenIInv
<1>3. ASSUME NEW t \in Threads, GiveUp(t) PROVE IInv'
  BY <1>3, GiveUpIInv
<1>4. ASSUME NEW t \in Threads, Unlock(t) PROVE IInv'
  BY <1>4, UnlockIInv
<1>5. ASSUME NEW t \in Threads, ReleaseRef(t) PROVE IInv'
  BY <1>5, ReleaseRefIInv
<1>6. ASSUME NEW t \in Threads, DropClosure(t) PROVE IInv'
  BY <1>6, DropClosureIInv
<1>7. CASE UNCHANGED vars
  <2>1. /\ locks' = locks /\ heap' = heap /\ pc' = pc /\ key' = key /\ ent' = ent
        /\ \A t \in Threads : Registered(t)' = Registered(t)
        /\ \A k \in Keys : Callers(k)' = Callers(k)
    BY <1>7 DEF vars, Callers, Registered
  <2> USE DEF IInv
  <2>2. TypeOK' /\ Locals' /\ DistinctEntries'
    BY <2>1 DEF TypeOK, Locals, DistinctEntries
  <2>3. EntryOwnership'
    BY <2>1 DEF EntryOwnership
  <2>4. TokenConservation' /\ MutualExclusion'
    BY <2>1 DEF TokenConservation, MutualExclusion
  <2> QED BY <2>2, <2>3, <2>4
<1> QED BY <1>1, <1>2, <1>3, <1>4, <1>5, <1>6, <1>7 DEF Next

LEMMA LockerInvariant == Spec => []IInv
BY InitIInv, NextIInv, PTL DEF Spec

(* The variables keep their types: no count ever goes negative. *)
THEOREM LockerTypeOK == Spec => []TypeOK
<1>1. IInv => TypeOK BY DEF IInv
<1> QED BY <1>1, LockerInvariant, PTL

(* No two goroutines ever hold the same key, for any number of goroutines, *)
(* keys and re-used heap objects, whoever times out or is cancelled.       *)
THEOREM LockerMutualExclusion == Spec => []MutualExclusion
<1>1. IInv => MutualExclusion BY DEF IInv
<1> QED BY <1>1, LockerInvariant, PTL

(* Reference counts are exact: no entry outlives its calls or dies before. *)
THEOREM LockerEntryOwnership == Spec => []EntryOwnership
<1>1. IInv => EntryOwnership BY DEF IInv
<1> QED BY <1>1, LockerInvariant, PTL

(* The token is out exactly while the key is held: an unlock never blocks. *)
THEOREM LockerTokenConservation == Spec => []TokenConservation
<1>1. IInv => TokenConservation BY DEF IInv
<1> QED BY <1>1, LockerInvariant, PTL

(* Every step of the locker is a step of the promised mutex or a stutter. *)
THEOREM LockerImplementsMutex == Spec => ImplementsMutex
<1> USE NilAssumption
<1>1. Init => Mutex!Init
  BY DEF Init, Mutex!Init, absPhase, absWant
<1>2. IInv /\ [Next]_vars => [Mutex!Next]_(Mutex!vars)
  <2> SUFFICES ASSUME IInv, [Next]_vars PROVE [Mutex!Next]_(Mutex!vars)
    OBVIOUS
  <2> USE DEF IInv, Mutex!vars
  <2>1. ASSUME NEW t \in Threads, NEW k \in Keys, NEW e \in Entries, Register(t, k, e)
        PROVE  Mutex!Request(t, k)
    BY <2>1 DEF Register, Mutex!Request, absPhase, absWant, TypeOK
  <2>2. ASSUME NEW t \in Threads, TakeToken(t) PROVE Mutex!Grant(t)
    <3>1. /\ pc[t] = "select" /\ pc' = [pc EXCEPT ![t] = "held"] /\ key' = key
          /\ key[t] \in Keys
      BY <2>2 DEF TakeToken, Locals
    <3>2. \A u \in Threads : ~(pc[u] = "held" /\ key[u] = key[t])
      BY <2>2, <3>1 DEF TakeToken, TokenConservation, EntryOwnership, Registered, Locals, TypeOK
    <3>3. Mutex!Free(absWant[t])
      BY <3>1, <3>2 DEF Mutex!Free, absPhase, absWant
    <3>4. absPhase[t] = "waiting" /\ absPhase' = [absPhase EXCEPT ![t] = "holding"]
      BY <3>1 DEF absPhase, TypeOK
    <3>5. absWant' = absWant
      BY <3>1 DEF absWant, TypeOK
    <3> QED BY <3>3, <3>4, <3>5 DEF Mutex!Grant
  <2>3. ASSUME NEW t \in Threads, GiveUp(t) PROVE Mutex!Leave(t)
    BY <2>3 DEF GiveUp, Mutex!Leave, absPhase, absWant, TypeOK
  <2>4. ASSUME NEW t \in Threads, Unlock(t) PROVE Mutex!Leave(t)
    BY <2>4 DEF Unlock, OnceRuns, Mutex!Leave, absPhase, absWant, TypeOK
  <2>5. ASSUME NEW t \in Threads, ReleaseRef(t) PROVE UNCHANGED Mutex!vars
    BY <2>5 DEF ReleaseRef, absPhase, absWant, TypeOK
  <2>6. ASSUME NEW t \in Threads, DropClosure(t) PROVE UNCHANGED Mutex!vars
    BY <2>6 DEF DropClosure, absPhase, absWant, TypeOK
  <2>7. CASE UNCHANGED vars
    BY <2>7 DEF vars, absPhase, absWant
  <2> QED BY <2>1, <2>2, <2>3, <2>4, <2>5, <2>6, <2>7 DEF Next, Mutex!Next
<1> QED BY <1>1, <1>2, LockerInvariant, PTL DEF Spec, ImplementsMutex, Mutex!Spec
===============================================================================
