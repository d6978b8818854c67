---------------------------- MODULE ScannerPipeline ----------------------------
(***************************************************************************)
(* The process of app/app.go from the chains to the matcher: one scanner   *)
(* for each chain that is configured, the channel they share, and the      *)
(* consumer.  A signal or a crash ends all of them at once, wherever they  *)
(* are, and the process is started again.                                  *)
(***************************************************************************)
EXTENDS EvmScanner, SolanaScanner, TronScanner

CONSTANT Configs  \* sets of chains that a configuration may enable

VARIABLE chains   \* those of this one

vars == <<chains, evmVars, solVars, tronVars, pipe>>

TypeOK == PipelineTypeOK /\ EvmTypeOK /\ SolTypeOK /\ TronTypeOK /\ chains \in Configs

Init == chains \in Configs /\ EvmInit /\ SolInit /\ TronInit /\ PipelineInit

ByEvm(A) == "evm" \in chains /\ A /\ UNCHANGED <<chains, solVars, tronVars>>
BySol(A) == "solana" \in chains /\ A /\ UNCHANGED <<chains, evmVars, tronVars>>
ByTron(A) == "tron" \in chains /\ A /\ UNCHANGED <<chains, evmVars, solVars>>
ByPipeline(A) == A /\ UNCHANGED <<chains, evmVars, solVars, tronVars>>

Stops(A) == A /\ EvmForgets /\ SolForgets /\ TronForgets /\ UNCHANGED chains

Next == \/ ByPipeline(Consumer \/ Shutdown)
        \/ ByEvm(EvmScan \/ EvmChain)
        \/ BySol(SolNext)
        \/ ByTron(TronNext)
        \/ Stops(Exit \/ Crash)

Spec == Init /\ [][Next]_vars

(* Goroutines run, the supervisor (Restart=always) starts the process      *)
(* again, one node or another comes back, and the chain grows.  Nothing    *)
(* makes a signal, a crash, a fault or a payment happen; faults are finite *)
(* in number, so that a call that is repeated is answered in the end.      *)
Fairness ==
  /\ WF_vars(ByPipeline(Consumer)) /\ WF_vars(Stops(Exit))
  /\ WF_vars(ByEvm(EvmScan)) /\ WF_vars(BySol(SolScan)) /\ WF_vars(ByTron(TronScan))
  /\ WF_vars(ByEvm(\E n \in Nodes : Mine(n)))
  /\ WF_vars(ByEvm(\E n \in Nodes : NodeRecovers(n)))

FairSpec == Spec /\ Fairness

(* app.go:104 and doc/flow.md:427: a signal loses nothing.  What has been  *)
(* accounted for stays so, from whichever scanner it came: the consumer    *)
(* records what it takes out, and it stops, with the scanners still        *)
(* pushing, on a channel that it has worked off.                           *)
DrainLosesNothing == [][Safe \subseteq Safe']_vars
===============================================================================
