--------------------------- MODULE MCEventLoop ---------------------------
(***************************************************************************)
(* Small instances of EventLoop for TLC.  The suffixes give the number of  *)
(* workers in each pool.                                                   *)
(***************************************************************************)
EXTENDS EventLoop

CONSTANTS w1, w2, w3, reactor, service

Workers1 == {w1}
Workers2 == {w1, w2}
Workers3 == {w1, w2, w3}

OnePool == <<reactor>>
TwoPools == <<reactor, service>>

PoolOf2 == [w \in Workers2 |-> reactor]
PoolOf11 == [w \in Workers2 |-> IF w = w1 THEN reactor ELSE service]
PoolOf21 == [w \in Workers3 |-> IF w = w3 THEN service ELSE reactor]
=============================================================================
