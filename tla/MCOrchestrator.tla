--------------------------- MODULE MCOrchestrator ---------------------------
(* Small instances of Orchestrator for TLC. *)
EXTENDS Orchestrator, TLC

CONSTANTS l1, l2, a, b, s, t, perp, dated

\* Two groups of pairs that share an asset.
Overlapping == (l1 :> <<a, b>>) @@ (l2 :> <<b>>)
\* Two groups of the same single asset.
Shared == (l1 :> <<a>>) @@ (l2 :> <<a>>)
\* One group.
OneAsset == (l1 :> <<a>>)

=============================================================================
