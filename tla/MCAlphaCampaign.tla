--------------------------- MODULE MCAlphaCampaign ---------------------------
(* Small instances of AlphaCampaign for TLC.                               *)
EXTENDS AlphaCampaign, TLC

MCProtocols == {"native", "governed", "delegated"}

=============================================================================
