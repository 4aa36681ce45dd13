----------------------------- MODULE PeerStreams -----------------------------
(***************************************************************************)
(* Three programs write and read the same messages: the push server (C++   *)
(* structs), the Android client (byte arrays) and the web server (pack and *)
(* one socket_read for each field).  Here is the stream of bytes between   *)
(* the server and one of the two, in both directions: who writes how much, *)
(* what the header says of it, and in which portions it is read.           *)
(*                                                                         *)
(* A byte is its position in the stream.  A reader that takes a header or  *)
(* the type of a message from anywhere but its place is lost.              *)
(***************************************************************************)
EXTENDS Naturals, Sequences

SeqExt == INSTANCE SequencesExt

CONSTANT MaxOrders      \* bound: the orders the server passes to the web server

HeaderBytes == 4        \* PACKET_HEADER_LENGTH

Dir == {"in", "out"}    \* to the server, from the server

-----------------------------------------------------------------------------
(* The three tables of layouts: the sizes of the fields of a message, in   *)
(* order, the two bytes of its category and protocol first.                *)

\* The packed structs of MsgStruct_CS.h and MsgStruct_WS.h.
LayoutCS ==
    [SVR_READY |-> <<1, 1, 2, 2, 4, 32>>,
     AUTH_SYN  |-> <<1, 1, 20, 24>>,
     AUTH_ACK  |-> <<1, 1, 1>>]

LayoutWS ==
    [WSCONNECTED  |-> <<1, 1>>,
     PUSHSVR_AUTH |-> <<1, 1, 32>>,
     AUTH_RESULT  |-> <<1, 1, 1>>,
     NEWORDERBRD  |-> <<1, 1, 4, 4, 11, 128>>,
     S2W_ORDER    |-> <<1, 1, 1, 4, 4, 4, 4, 11, 168>>]

Layout(type) == IF type \in DOMAIN LayoutCS THEN LayoutCS[type] ELSE LayoutWS[type]

\* The sum of the first n numbers of s.
SumTo(s, n) ==
    LET Of[i \in 0 .. n] == IF i = 0 THEN 0 ELSE Of[i - 1] + s[i] IN Of[n]

Sum(s) == SumTo(s, Len(s))

\* What the peers write: the value of the header, and the bytes that follow it.  The
\* 46 of the Android client counts its header.
AndroidWrites == [AUTH_SYN |-> [length |-> 46, bytes |-> 46 - HeaderBytes]]

\* Mutant: the header of AUTH_RESULT counts a byte that is not packed.
WebWritesResult4 ==
    [WSCONNECTED |-> [length |-> 2,  bytes |-> 2],
     AUTH_RESULT |-> [length |-> 4,  bytes |-> 3],
     NEWORDERBRD |-> [length |-> 10, bytes |-> 10]]

WebWrites ==
    [WSCONNECTED |-> [length |-> 2,  bytes |-> Sum(<<1, 1>>)],
     AUTH_RESULT |-> [length |-> 3,  bytes |-> Sum(<<1, 1, 1>>)],
     NEWORDERBRD |-> [length |-> 10, bytes |-> Sum(<<1, 1, 4, 4>>)]]

\* Mutant: the telephone number is one digit longer.
WebReadsPhone12 ==
    [PUSHSVR_AUTH |-> <<1, 1, 32>>, S2W_ORDER |-> <<1, 1, 1, 4, 4, 4, 4, 12, 168>>]

\* What the web server reads of a message, a socket_read for each.
WebReads ==
    [PUSHSVR_AUTH |-> <<1, 1, 32>>,
     S2W_ORDER    |-> <<1, 1, 1, 4, 4, 4, 4, 11, 168>>]

Writes(type) ==
    IF type \in DOMAIN AndroidWrites THEN AndroidWrites[type]
    ELSE IF type \in DOMAIN WebWrites THEN WebWrites[type]
    ELSE [length |-> Sum(Layout(type)), bytes |-> Sum(Layout(type))]

-----------------------------------------------------------------------------
VARIABLES
    peer,           \* who is at the other end
    written,        \* the messages written to each direction
    taken,          \* the bytes read from each direction
    reader,         \* what each reading program is about to read
    handled,        \* the types of the messages that reached a handler
    missed,         \* history: a read has returned fewer bytes than it asked for
    alive           \* whether the peer still runs

streamVars == <<peer, written, taken, reader, handled, missed, alive>>

\* Where the messages of a direction begin.
Sizes(d) == [j \in DOMAIN written[d] |-> HeaderBytes + Writes(written[d][j].type).bytes]

Begin(d, i) == SumTo(Sizes(d), i - 1)

Unread(d) == Begin(d, Len(written[d]) + 1) - taken[d]

\* The message whose header, or whose body, begins at p.
At(d, p)     == {written[d][i] : i \in {j \in DOMAIN written[d] : Begin(d, j) = p}}
BodyAt(d, p) == {written[d][i] : i \in {j \in DOMAIN written[d] : Begin(d, j) + HeaderBytes = p}}

Header == [at |-> "header", fields |-> <<HeaderBytes>>, body |-> 0]
Lost   == [at |-> "lost", fields |-> <<>>, body |-> 0]

StreamsInit ==
    /\ peer \in {"android", "web"}
    /\ written = [d \in Dir |-> <<>>]
    /\ taken   = [d \in Dir |-> 0]
    /\ reader  = [d \in Dir |-> Header]
    /\ handled = [d \in Dir |-> <<>>]
    /\ missed  = [d \in Dir |-> FALSE]
    /\ alive   = TRUE

\* junk: the upper half of the header, copied from beside a two-byte length, is not 0.
\* nought: the message has a byte "0" (48) in a field of one byte.
Message(type, junk, nought) == [type |-> type, junk |-> junk, nought |-> nought]

PeerSends(type) == written' = [written EXCEPT !["in"] = Append(@, Message(type, FALSE, FALSE))]

ServerSends(type) ==
    \E junk, nought \in BOOLEAN :
        /\ nought => type = "S2W_ORDER"
        /\ junk => peer = "android"      \* the web server does not use the length
        /\ written' = [written EXCEPT !["out"] = Append(@, Message(type, junk, nought))]

\* ClientAcceptor::OnAccept, ConfirmConnect: one side speaks first.
Greet ==
    /\ written = [d \in Dir |-> <<>>]
    /\ \/ peer = "android" /\ ServerSends("SVR_READY")
       \/ peer = "web" /\ PeerSends("WSCONNECTED")
    /\ UNCHANGED <<peer, taken, reader, handled, missed, alive>>

\* Orders of clients are passed on.
PassOrder ==
    /\ peer = "web" /\ written["in"] # <<>>
    /\ Len(SelectSeq(written["out"], LAMBDA m : m.type = "S2W_ORDER")) < MaxOrders
    /\ ServerSends("S2W_ORDER")
    /\ UNCHANGED <<peer, taken, reader, handled, missed, alive>>

-----------------------------------------------------------------------------
(* Reading.  next is what the program reads after this, replies what it    *)
(* sends.                                                                  *)

\* A read of n bytes, of which k come.
Take(d, n, k, next) ==
    /\ taken' = [taken EXCEPT ![d] = @ + k]
    /\ missed' = [missed EXCEPT ![d] = @ \/ k < n]
    /\ reader' = [reader EXCEPT ![d] = next]
    /\ UNCHANGED peer

\* The read waits for all n bytes.
Whole(d, n, next) == n <= Unread(d) /\ Take(d, n, n, next)

\* The read returns as soon as there is something.
Some(d, n, next) ==
    \E k \in {1, n - 1, n, Unread(d)} \cap 1 .. n :
        k <= Unread(d) /\ Take(d, n, k, next)

Handle(d, type) == handled' = [handled EXCEPT ![d] = Append(@, type)]

\* Session: the header, of which the lower half counts.  (A receive of the server that
\* falls short is FrameReader's.)
ServerReadsHeader ==
    /\ reader["in"].at = "header"
    /\ Whole("in", HeaderBytes,
             IF At("in", taken["in"]) = {} THEN Lost
             ELSE LET m == CHOOSE m \in At("in", taken["in"]) : TRUE IN
                  [at |-> "body", fields |-> <<Writes(m.type).length>>,
                   body |-> taken["in"] + HeaderBytes])
    /\ UNCHANGED <<written, handled, alive>>

\* The body, and the handler of the message (AUTH_SYN of another length: a kick).
ServerReadsBody ==
    LET n == Head(reader["in"].fields) IN
    /\ reader["in"].at = "body"
    /\ Whole("in", n, Header)
    /\ \E m \in BodyAt("in", reader["in"].body) :
          /\ Handle("in", m.type)
          /\ IF m.type = "AUTH_SYN" /\ n = Sum(Layout("AUTH_SYN")) THEN ServerSends("AUTH_ACK")
             ELSE IF m.type = "WSCONNECTED" THEN ServerSends("PUSHSVR_AUTH")
             ELSE UNCHANGED written
    /\ UNCHANGED alive

\* ReadPackHead: four reads of a byte each.  With junk the length is far beyond the
\* 4096 bytes of the array: an exception that nothing catches.
AndroidReadsHeader ==
    /\ peer = "android" /\ alive /\ reader["out"].at = "header"
    /\ LET at == At("out", taken["out"])
           m  == CHOOSE x \in at : TRUE
       IN  /\ Whole("out", HeaderBytes,
                    IF at = {} \/ m.junk THEN Lost
                    ELSE [at |-> "body", fields |-> <<Writes(m.type).length>>,
                          body |-> taken["out"] + HeaderBytes])
           /\ alive' = ~(at # {} /\ m.junk)
    /\ UNCHANGED <<written, handled>>

\* HandleMsg: one read for the body, and the handler.
AndroidReadsBody ==
    /\ peer = "android" /\ alive /\ reader["out"].at = "body"
    /\ Some("out", Head(reader["out"].fields), Header)
    /\ \E m \in BodyAt("out", reader["out"].body) :
          IF taken'["out"] = taken["out"] + 1 THEN UNCHANGED <<written, handled>>
          ELSE /\ Handle("out", m.type)
               /\ IF m.type = "SVR_READY" THEN PeerSends("AUTH_SYN") ELSE UNCHANGED written
    /\ UNCHANGED alive

\* msg_handler: the length is read and not used.
WebReadsHeader ==
    /\ peer = "web" /\ alive /\ reader["out"].at = "header"
    /\ Some("out", HeaderBytes,
            [at |-> "type", fields |-> <<1, 1>>, body |-> taken["out"] + HeaderBytes])
    /\ UNCHANGED <<written, handled, alive>>

\* _ReadPack: the category and the protocol, which say what is read next.
WebReadsType ==
    LET at == BodyAt("out", taken["out"]) IN
    /\ peer = "web" /\ alive /\ reader["out"].at = "type"
    /\ Whole("out", 2, IF at = {} THEN Lost
                       ELSE [at |-> "fields", body |-> taken["out"],
                             fields |-> Tail(Tail(WebReads[(CHOOSE m \in at : TRUE).type]))])
    /\ UNCHANGED <<written, handled, alive>>

\* The constructor of the message reads a field.  "0" is false: or die.
WebReadsField ==
    /\ peer = "web" /\ alive /\ reader["out"].at = "fields"
    /\ LET fs == reader["out"].fields IN
       /\ fs # <<>>
       /\ Some("out", Head(fs),
               [at |-> "fields", fields |-> Tail(fs), body |-> reader["out"].body])
       /\ alive' = \A m \in BodyAt("out", reader["out"].body) :
                       ~(m.nought /\ taken["out"] = reader["out"].body + 2)
    /\ UNCHANGED <<written, handled>>

\* Handler_S2W_PUSHSVRAUTH_SYN, Handler_S2W_TEST_ORDER_SYN
WebHandles ==
    /\ peer = "web" /\ alive /\ reader["out"].at = "fields" /\ reader["out"].fields = <<>>
    /\ \E m \in BodyAt("out", reader["out"].body) :
          /\ Handle("out", m.type)
          /\ PeerSends(IF m.type = "PUSHSVR_AUTH" THEN "AUTH_RESULT" ELSE "NEWORDERBRD")
    /\ reader' = [reader EXCEPT !["out"] = Header]
    /\ UNCHANGED <<peer, taken, missed, alive>>

Reads ==
    \/ ServerReadsHeader \/ ServerReadsBody
    \/ AndroidReadsHeader \/ AndroidReadsBody
    \/ WebReadsHeader \/ WebReadsType \/ WebReadsField \/ WebHandles

StreamsNext == Greet \/ PassOrder \/ Reads

StreamsSpec == StreamsInit /\ [][StreamsNext]_streamVars

-----------------------------------------------------------------------------
Types(d) == [i \in DOMAIN written[d] |-> written[d][i].type]

InStep(d) == ~missed[d] /\ (d = "out" => alive)

\* The tables of the three programs agree: as long as every read brings what it asked
\* for, and the peer lives, each program handles the messages of the other in order,
\* each from its first byte to its last, and never takes a part of one for another.
HandledAsSent ==
    \A d \in Dir : InStep(d) => reader[d] # Lost /\ SeqExt!IsPrefix(handled[d], Types(d))

\* When all is read, all is handled -- but for the Android client's AUTH_SYN, four
\* bytes shorter than it says: the server waits for them, and AUTH_ACK never comes.
NothingLeft ==
    \A d \in Dir :
        (InStep(d) /\ ~ENABLED Reads) => \/ handled[d] = Types(d)
                                         \/ peer = "android" /\ Types(d) = <<"AUTH_SYN">>
=============================================================================
