---------------------------- MODULE MCSocksProxy ----------------------------
(* Small instances of SocksProxy.                                          *)
EXTENDS SocksProxy
=============================================================================
