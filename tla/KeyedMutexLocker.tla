--------------------------- MODULE KeyedMutexLocker ---------------------------
(***************************************************************************)
(* internal/lock/locker.go: the keyed mutex the intent service and the     *)
(* micro-amount allocator each own an instance of.                         *)
(*                                                                         *)
(* The map holds one entry per key in use.  An entry is a heap object: a   *)
(* channel of capacity one that holds the token, and a count of the calls  *)
(* that refer to it.  An unlock closure keeps the entry it was created     *)
(* for, while releaseRef looks the entry up again by key, so the two must  *)
(* stay the same object for as long as anybody is registered.              *)
(*                                                                         *)
(* One action per critical section of l.mu and one per channel operation:  *)
(* between them any other goroutine may run.                               *)
(***************************************************************************)
EXTENDS Integers, FiniteSets

CONSTANTS Threads,   \* goroutines that call Acquire
          Keys,      \* lock keys
          Entries,   \* heap objects of type entry (addresses, reused after collection)
          NoEntry,   \* nil
          NoKey      \* the key of a goroutine outside the locker

ASSUME NilAssumption == NoEntry \notin Entries /\ NoKey \notin Keys
ASSUME FiniteAssumption == IsFiniteSet(Threads)

VARIABLES locks,     \* l.locks: the entry stored under each key, or nil
          heap,      \* the entries: token in e.ch, and e.ref
          pc,        \* where each goroutine is in Acquire or in its unlock closure
          key,       \* the key argument of its call
          ent        \* its local e, captured by the closure

vars == <<locks, heap, pc, key, ent>>

Phases == {"idle",       \* not in the locker
           "select",     \* registered, waiting in the select of Acquire
           "held",       \* returned from Acquire with the token
           "unlocking",  \* the closure returned the token, releaseRef not yet run
           "leaving",    \* ctx.Done or the timer won the select, releaseRef not yet run
           "released"}   \* the closure ran once and is still referenced

Entry == [token : BOOLEAN, ref : Nat]

TypeOK == /\ locks \in [Keys -> Entries \cup {NoEntry}]
          /\ heap \in [Entries -> Entry]
          /\ pc \in [Threads -> Phases]
          /\ key \in [Threads -> Keys \cup {NoKey}]
          /\ ent \in [Threads -> Entries \cup {NoEntry}]

Init == /\ locks = [k \in Keys |-> NoEntry]
        /\ heap = [e \in Entries |-> [token |-> FALSE, ref |-> 0]]
        /\ pc = [t \in Threads |-> "idle"]
        /\ key = [t \in Threads |-> NoKey]
        /\ ent = [t \in Threads |-> NoEntry]

\* No pointer to e is left: neither the map nor a goroutine refers to it.
Unreferenced(e) == /\ \A k \in Keys : locks[k] # e
                   /\ \A t \in Threads : ent[t] # e

-------------------------------------------------------------------------------
\* The mutant counts a call only when it finds the entry.
RegisterUncounted(t, k, e) ==
  /\ pc[t] = "idle"
  /\ IF locks[k] = NoEntry
       THEN /\ Unreferenced(e)
            /\ heap' = [heap EXCEPT ![e] = [token |-> TRUE, ref |-> 0]]
       ELSE /\ e = locks[k]
            /\ heap' = [heap EXCEPT ![e].ref = @ + 1]
  /\ locks' = [locks EXCEPT ![k] = e]
  /\ pc' = [pc EXCEPT ![t] = "select"]
  /\ key' = [key EXCEPT ![t] = k]
  /\ ent' = [ent EXCEPT ![t] = e]

\* The mutant creates a fresh entry whenever the current one is handed out.
RegisterFresh(t, k, e) ==
  /\ pc[t] = "idle"
  /\ IF locks[k] = NoEntry \/ ~heap[locks[k]].token
       THEN /\ Unreferenced(e)
            /\ heap' = [heap EXCEPT ![e] = [token |-> TRUE, ref |-> 1]]
       ELSE /\ e = locks[k]
            /\ heap' = [heap EXCEPT ![e].ref = @ + 1]
  /\ locks' = [locks EXCEPT ![k] = e]
  /\ pc' = [pc EXCEPT ![t] = "select"]
  /\ key' = [key EXCEPT ![t] = k]
  /\ ent' = [ent EXCEPT ![t] = e]

(* Acquire, the section under l.mu: find or create the entry, count the call. *)
Register(t, k, e) ==
  /\ pc[t] = "idle"
  /\ IF locks[k] = NoEntry
       THEN /\ Unreferenced(e)
            /\ heap' = [heap EXCEPT ![e] = [token |-> TRUE, ref |-> 1]]
       ELSE /\ e = locks[k]
            /\ heap' = [heap EXCEPT ![e].ref = @ + 1]
  /\ locks' = [locks EXCEPT ![k] = e]
  /\ pc' = [pc EXCEPT ![t] = "select"]
  /\ key' = [key EXCEPT ![t] = k]
  /\ ent' = [ent EXCEPT ![t] = e]

(* The three cases of the select.  Go picks any case that is ready; a context *)
(* can be cancelled and a timer can fire whenever the call is waiting.        *)
TakeToken(t) == /\ pc[t] = "select"
                /\ heap[ent[t]].token
                /\ heap' = [heap EXCEPT ![ent[t]].token = FALSE]
                /\ pc' = [pc EXCEPT ![t] = "held"]
                /\ UNCHANGED <<locks, key, ent>>

\* The mutant returns from the timeout case without its releaseRef.
GiveUpForgetsRef(t) == /\ pc[t] = "select"
                       /\ pc' = [pc EXCEPT ![t] = "idle"]
                       /\ key' = [key EXCEPT ![t] = NoKey]
                       /\ ent' = [ent EXCEPT ![t] = NoEntry]
                       /\ UNCHANGED <<locks, heap>>

GiveUp(t) == /\ pc[t] = "select"
             /\ pc' = [pc EXCEPT ![t] = "leaving"]
             /\ UNCHANGED <<locks, heap, key, ent>>

\* sync.Once: only the first call of a closure runs its body.
OnceRuns(p) == p = "held"

\* Mutants of the closure: without its sync.Once, and forgetting the token.
UnlockEveryCall(t) == /\ pc[t] \in {"held", "released"}
                      /\ heap' = [heap EXCEPT ![ent[t]].token = TRUE]
                      /\ pc' = [pc EXCEPT ![t] = "unlocking"]
                      /\ UNCHANGED <<locks, key, ent>>

UnlockKeepsToken(t) == /\ OnceRuns(pc[t])
                       /\ pc' = [pc EXCEPT ![t] = "unlocking"]
                       /\ UNCHANGED <<locks, heap, key, ent>>

(* The closure returns the token; a send on a full channel would block. *)
Unlock(t) == /\ OnceRuns(pc[t])
             /\ ~heap[ent[t]].token
             /\ heap' = [heap EXCEPT ![ent[t]].token = TRUE]
             /\ pc' = [pc EXCEPT ![t] = "unlocking"]
             /\ UNCHANGED <<locks, key, ent>>

(* releaseRef: the entry is looked up by key, never through the closure's e. *)
Decrement(k) ==
  IF locks[k] = NoEntry
    THEN UNCHANGED <<locks, heap>>
    ELSE /\ heap' = [heap EXCEPT ![locks[k]].ref = @ - 1]
         /\ locks' = IF heap[locks[k]].ref - 1 <= 0
                       THEN [locks EXCEPT ![k] = NoEntry]
                       ELSE locks

ReleaseRef(t) ==
  \/ /\ pc[t] = "unlocking"
     /\ Decrement(key[t])
     /\ pc' = [pc EXCEPT ![t] = "released"]
     /\ UNCHANGED <<key, ent>>
  \/ /\ pc[t] = "leaving"
     /\ Decrement(key[t])
     /\ pc' = [pc EXCEPT ![t] = "idle"]
     /\ key' = [key EXCEPT ![t] = NoKey]
     /\ ent' = [ent EXCEPT ![t] = NoEntry]

(* The caller forgets its closure; until then it may call it again in vain. *)
DropClosure(t) == /\ pc[t] = "released"
                  /\ pc' = [pc EXCEPT ![t] = "idle"]
                  /\ key' = [key EXCEPT ![t] = NoKey]
                  /\ ent' = [ent EXCEPT ![t] = NoEntry]
                  /\ UNCHANGED <<locks, heap>>

Next == \E t \in Threads :
          \/ \E k \in Keys, e \in Entries : Register(t, k, e)
          \/ TakeToken(t) \/ GiveUp(t)
          \/ Unlock(t) \/ ReleaseRef(t) \/ DropClosure(t)

Spec == Init /\ [][Next]_vars

(***************************************************************************)
(* Every caller in the repository unlocks by defer, so a holder eventually *)
(* calls its closure.  The runtime queues the goroutines parked on a       *)
(* channel and hands a sent token to the first of them: a waiter for whom  *)
(* the token is available again and again gets it.  Nothing is assumed of  *)
(* timeouts.                                                               *)
(***************************************************************************)
FairSpec == /\ Spec
            /\ \A t \in Threads : /\ SF_vars(TakeToken(t))
                                  /\ WF_vars(Unlock(t))
                                  /\ WF_vars(ReleaseRef(t))

-------------------------------------------------------------------------------
Registered(t) == pc[t] \in {"select", "held", "unlocking", "leaving"}
Callers(k) == {t \in Threads : Registered(t) /\ key[t] = k}

(* Two goroutines that hold the same key are the same goroutine: Acquire's *)
(* select (locker.go:61-70) hands out the one token of the key's one entry. *)
MutualExclusion ==
  \A t, u \in Threads : pc[t] = "held" /\ pc[u] = "held" /\ key[t] = key[u] => t = u

(* The entry a call captured stays the one stored under its key until its  *)
(* releaseRef has run, and the map keeps an entry exactly while somebody   *)
(* is registered on its key, with the count of them: neither a leaked      *)
(* entry nor one deleted under a waiter (locker.go:40-51 and 83-93).       *)
EntryOwnership ==
  /\ \A t \in Threads : Registered(t) => locks[key[t]] = ent[t]
  /\ \A k \in Keys : IF locks[k] = NoEntry
                       THEN Callers(k) = {}
                       ELSE /\ heap[locks[k]].ref = Cardinality(Callers(k))
                            /\ Callers(k) # {}

(* The closure's send (locker.go:75) finds the channel empty: unlocking     *)
(* never blocks, and a token is out exactly while somebody holds the key.  *)
TokenConservation ==
  \A k \in Keys : locks[k] # NoEntry =>
    (heap[locks[k]].token <=> \A t \in Threads : ~(pc[t] = "held" /\ key[t] = k))

(* A call of Acquire that never times out and is never cancelled still     *)
(* leaves the select: the token comes back and it gets its turn.           *)
EveryWaiterLeaves == \A t \in Threads : (pc[t] = "select") ~> (pc[t] # "select")

(* The locker implements the mutex its interface promises.                 *)
absPhase == [t \in Threads |-> CASE pc[t] = "select" -> "waiting"
                                 [] pc[t] = "held" -> "holding"
                                 [] OTHER -> "idle"]
absWant == [t \in Threads |-> IF pc[t] \in {"select", "held"} THEN key[t] ELSE NoKey]

Mutex == INSTANCE KeyedMutex WITH phase <- absPhase, want <- absWant
ImplementsMutex == Mutex!Spec
===============================================================================
