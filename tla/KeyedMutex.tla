------------------------------ MODULE KeyedMutex ------------------------------
(***************************************************************************)
(* What lock.Locker promises its callers: a call of Acquire waits for one  *)
(* key, is granted that key only while nobody else holds it, or gives up;  *)
(* a holder releases.  No entries, tokens or reference counts: those are   *)
(* how KeyedMutexLocker keeps the promise.                                 *)
(***************************************************************************)
CONSTANTS Threads,   \* goroutines that call the locker
          Keys,      \* lock keys ("alloc:<chain>:<token>", "order:<id>")
          NoKey      \* the key of a thread that asked for none

VARIABLES phase,     \* what each thread is doing
          want       \* the key it waits for or holds

vars == <<phase, want>>

Init == /\ phase = [t \in Threads |-> "idle"]
        /\ want = [t \in Threads |-> NoKey]

Request(t, k) == /\ phase[t] = "idle"
                 /\ phase' = [phase EXCEPT ![t] = "waiting"]
                 /\ want' = [want EXCEPT ![t] = k]

Free(k) == \A u \in Threads : ~(phase[u] = "holding" /\ want[u] = k)

Grant(t) == /\ phase[t] = "waiting"
            /\ Free(want[t])
            /\ phase' = [phase EXCEPT ![t] = "holding"]
            /\ UNCHANGED want

\* A timeout or a cancelled context (from "waiting") and an unlock (from
\* "holding") both leave the thread with nothing.
Leave(t) == /\ phase[t] \in {"waiting", "holding"}
            /\ phase' = [phase EXCEPT ![t] = "idle"]
            /\ want' = [want EXCEPT ![t] = NoKey]

Next == \E t \in Threads : \/ \E k \in Keys : Request(t, k)
                           \/ Grant(t)
                           \/ Leave(t)

Spec == Init /\ [][Next]_vars
===============================================================================
