---------------------------- MODULE MCWifiConnect ----------------------------
(***************************************************************************)
(* WifiConnect with the network the unit knows, another one, and one whose *)
(* password was mistyped.                                                  *)
(***************************************************************************)
EXTENDS WifiConnect

CONSTANTS home, typo

AllNetworks == {home, typo}
Good == {home}

==============================================================================
