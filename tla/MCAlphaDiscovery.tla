-------------------------- MODULE MCAlphaDiscovery --------------------------
(* Small instances of AlphaDiscovery for TLC.                              *)
EXTENDS AlphaDiscovery

=============================================================================
