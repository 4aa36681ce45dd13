---------------------------- MODULE MCPushServer ----------------------------
(* Small instances of PushServer, and what the comments of the code say    *)
(* that the code does not do.                                              *)
EXTENDS PushServer

\* An order number that is also a connection id and one that is not, so that a
\* mix-up shows.
MCOrderNo == {4, 7}

Holds(s, type) == \E i \in DOMAIN out[s] : out[s][i].type = type

\* MsgDefine.h: S2W_TEST_ORDER_SYN goes to the web server.
OrdersGoToWeb == \A c \in Client : ~Holds(c, "S2W_ORDER")
=============================================================================
