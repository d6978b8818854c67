-------------------------- MODULE MCScannerPipeline --------------------------
(* Each configuration enables one kind of scanner; pairs of transfers on   *)
(* TRON share a timestamp.                                                 *)
EXTENDS ScannerPipeline, TLC

OneChain == {{"evm"}, {"solana"}, {"tron"}}
EvmOnly == {{"evm"}}
SolOnly == {{"solana"}}
TronOnly == {{"tron"}}
Pairs == [k \in 1 .. TronCount |-> (k + 1) \div 2]
===============================================================================
