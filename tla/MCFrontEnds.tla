----------------------------- MODULE MCFrontEnds -----------------------------
(* Bounded instance of FrontEnds, and with it of ProviderExecutor. *)
EXTENDS FrontEnds

\* Every combination the classification rules tell apart.
MCSdkErrors ==
  [named : {"timeout", "authentication", "rate_limit", "other"},
   status : {0, 400, 401, 429, 500}]
=============================================================================
