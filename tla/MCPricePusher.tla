--------------------------- MODULE MCPricePusher ---------------------------
(***************************************************************************)
(* Small instances for TLC of what a price pusher publishes with: the      *)
(* pusher of Starknet and its monitor (PricePusher), and the client of     *)
(* Miden (MidenClient). They share no state, so a behaviour is one of the  *)
(* part chosen in its first state.                                         *)
(***************************************************************************)
EXTENDS PricePusher, MidenClient

CONSTANTS n1, n2, n3, custom, Parts

VARIABLE part

PublishersInit ==
  /\ part \in Parts
  /\ Init /\ MidenInit
  /\ part = "starknet" => config

PublishersNext ==
  /\ UNCHANGED part
  /\ \/ part = "starknet" /\ Next /\ UNCHANGED miden_vars
     \/ part = "miden" /\ MidenNext /\ UNCHANGED vars

PublishersSpec == PublishersInit /\ [][PublishersNext]_<<part, vars, miden_vars>>

\* The fairness of each module, for the part that runs.
FairPublishersSpec ==
  /\ PublishersSpec
  /\ WF_vars(part = "starknet" /\ ~crashed /\ MonitorStep)
  /\ WF_vars(part = "starknet" /\ ~crashed /\ PusherStep)
  /\ WF_miden_vars(part = "miden" /\ TimesOut)
=============================================================================
