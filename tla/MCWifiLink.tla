---------------------------- MODULE MCWifiLink ----------------------------
(* The network of the first boot and another one the user may enter.        *)
EXTENDS WifiLink
CONSTANTS home, other
=============================================================================
