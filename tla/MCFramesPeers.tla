---------------------------- MODULE MCFramesPeers ----------------------------
(* The server's reader of messages, on streams of any lengths, and the     *)
(* streams the three programs really exchange: a behaviour is about the    *)
(* one or the other, as subject says from the start, and the other rests   *)
(* in one initial state.                                                   *)
EXTENDS MCFrameReader, PeerStreams

VARIABLE subject

MCInit ==
    /\ Init /\ StreamsInit
    /\ \/ subject = "reader" /\ peer = "web"
       \/ subject = "peers" /\ sent = <<0>>

MCNext ==
    \/ subject = "reader" /\ Next /\ UNCHANGED <<streamVars, subject>>
    \/ subject = "peers" /\ StreamsNext /\ UNCHANGED <<vars, subject>>

MCSpec == MCInit /\ [][MCNext]_<<vars, streamVars, subject>> /\ Fairness
=============================================================================
