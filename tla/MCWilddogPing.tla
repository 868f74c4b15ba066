---------------------------- MODULE MCWilddogPing ----------------------------
(* The keep-alive with the constants of wilddog_conn.c: 19 s, 8 s, 165 s.  *)
EXTENDS WilddogPing
===============================================================================
