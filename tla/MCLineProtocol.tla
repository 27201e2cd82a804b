--------------------------- MODULE MCLineProtocol ---------------------------
(* Instance of LineProtocol for TLC: all its constants are in lines.cfg.   *)
EXTENDS LineProtocol
=============================================================================
