---------------------------- MODULE MCAppLifecycle ----------------------------
(* AppLifecycle with every configuration and the default times.            *)
EXTENDS AppLifecycle
=============================================================================
