---------------------------- MODULE MCContainers ----------------------------
(* The parts of the library that hold things and tell the time, each on    *)
(* its own: a behaviour is about a pool used by any callers, a list and    *)
(* its pool, an array, a line buffer, a timer, an event, a byte buffer, a  *)
(* string or a pair of ciphers, as subject says from the start, and the    *)
(* others rest.                                                            *)
EXTENDS PoolList, Arrays, LineBuffer, Timers, ByteBuffers, Strings, Ciphers

VARIABLE subject

\* Among them a string that holds the byte that ends it, and a list one too long.
MCValues ==
    {Number(2, 6), String(<<2>>), String(<<0>>),
     List(<< <<1>> >>), List(<< <<>>, <<>> >>), Map(<< <<3, <<>> >> >>)}

MCBlocks == {<<1, 0>>}

\* "/", ".a", a backslash and a character beyond ASCII.
MCPieces == {<<>>, <<47>>, <<46, 97>>, <<92, 233>>}

MCCharSets == {{47}, {97, 46}}

\* At the beginning, where the places come round, and where each of the conditions holds.
MCStarts == {<<0, 0>>, <<254, 0>>, <<255, 255>>, <<3, 1>>, <<12, 2>>, <<35, 64>>, <<100, 14>>}

MCMessages == {<<0, 255>>, <<90>>}

poolListVars == <<vars, listVars>>
otherVars    == <<arrayVars, lineVars, timerVars, bufferVars, stringVars, cipherVars>>
allVars      == <<poolListVars, otherVars, subject>>

MCInit ==
    /\ Init /\ ListInit /\ ArraysInit /\ LinesInit /\ TimersInit
    /\ BufferInit /\ StringsInit /\ CiphersInit
    /\ subject \in {"pool", "list", "array", "lines", "timer", "event", "bytes", "string", "cipher"}
    /\ subject = "cipher" \/ sender = <<0, 0>>

MCNext ==
    /\ \/ subject = "pool" /\ Next /\ UNCHANGED <<listVars, otherVars>>
       \/ subject = "list" /\ ListNext /\ UNCHANGED otherVars
       \/ subject = "array" /\ ArraysNext
          /\ UNCHANGED <<poolListVars, lineVars, timerVars, bufferVars, stringVars, cipherVars>>
       \/ subject = "lines" /\ LinesNext
          /\ UNCHANGED <<poolListVars, arrayVars, timerVars, bufferVars, stringVars, cipherVars>>
       \/ subject = "timer" /\ TimerNext
          /\ UNCHANGED <<poolListVars, arrayVars, lineVars, bufferVars, stringVars, cipherVars>>
       \/ subject = "event" /\ EventNext
          /\ UNCHANGED <<poolListVars, arrayVars, lineVars, bufferVars, stringVars, cipherVars>>
       \/ subject = "bytes" /\ BufferNext
          /\ UNCHANGED <<poolListVars, arrayVars, lineVars, timerVars, stringVars, cipherVars>>
       \/ subject = "string" /\ StringsNext
          /\ UNCHANGED <<poolListVars, arrayVars, lineVars, timerVars, bufferVars, cipherVars>>
       \/ subject = "cipher" /\ CiphersNext
          /\ UNCHANGED <<poolListVars, arrayVars, lineVars, timerVars, bufferVars, stringVars>>
    /\ UNCHANGED subject

MCSpec == MCInit /\ [][MCNext]_allVars
=============================================================================
