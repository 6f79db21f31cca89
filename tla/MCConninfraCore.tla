--------------------------- MODULE MCConninfraCore ---------------------------
(***************************************************************************)
(* Instances of ConninfraCore with three types: BT, WIFI and CONNINFRA.    *)
(***************************************************************************)
EXTENDS ConninfraCore

BT == 0
WIFI == 1

OnCalls == {<<"on", BT>>, <<"on", WIFI>>, <<"access", WIFI>>}
WifiCalls == {<<"on", WIFI>>, <<"off", WIFI>>, <<"access", WIFI>>}
AllCalls == OnCalls \cup WifiCalls

NoRadio == {}
WifiOnly == {WIFI}
BothRadios == {BT, WIFI}
=============================================================================
