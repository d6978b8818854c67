-------------------------- MODULE MCKeyedMutexLocker --------------------------
(* Three goroutines over two keys: two can wait while one holds, and a key *)
(* can empty and be re-created while the other is in use.                  *)
EXTENDS KeyedMutexLocker
===============================================================================
