----------------------------- MODULE MCPushUsers -----------------------------
(* The push server and the user records, which it keeps and uses only in   *)
(* part: a behaviour is one of the server or one of the records, as        *)
(* subject says from the start.                                            *)
EXTENDS MCPushServer, UserRecords

VARIABLE subject

MCInit == Init /\ RecordsInit /\ subject \in {"server", "records"}

MCNext ==
    \/ subject = "server"  /\ Next /\ UNCHANGED <<recordVars, subject>>
    \/ subject = "records" /\ RecordsNext /\ UNCHANGED <<vars, subject>>

MCSpec == MCInit /\ [][MCNext]_<<vars, recordVars, subject>>
=============================================================================
