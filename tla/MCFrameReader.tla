--------------------------- MODULE MCFrameReader ---------------------------
(* Small instances of FrameReader: a header of four bytes, as in the code, *)
(* and a buffer of five, with lengths on both sides of every limit.        *)
EXTENDS FrameReader

\* Empty, one byte, as long as a header, the buffer exactly, just over it, and
\* more than twice the buffer.
MCLengths == {0, 1, 4, 5, 6, 11}

\* handle_read_sp: a receive that brought nothing ends the session (its test of
\* bytes_transferred), and Acceptor.h: OnClose reports a connection that closed.
EofEndsSession == []<>(pos = total => status = "shut")
=============================================================================
