----------------------------- MODULE MCWifiConn -----------------------------
(* WifiConn for TLC: two routers, four commands, two scans per wifi_scan.  *)
EXTENDS WifiConn
=============================================================================
