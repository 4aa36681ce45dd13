------------------------------ MODULE Ciphers ------------------------------
(***************************************************************************)
(* MessageEncrypt: the objects at the two ends of a connection, one that   *)
(* encrypts and one that decrypts.  Both go through two tables with a      *)
(* place in each, the second place moving on as the first comes round, and *)
(* never say where they are: what one has encrypted the other must decrypt *)
(* from the same place on, in pieces of its own, and may look at first     *)
(* (bMove false).                                                          *)
(***************************************************************************)
EXTENDS Integers, Sequences, Bitwise

LOCAL SeqExt == INSTANCE SequencesExt

CONSTANTS
    Starts,         \* where both ends may have come to
    Messages,
    MaxSent         \* bound: the bytes that are sent

ASSUME CiphersAssumption == Starts \subseteq (0 .. 255) \X (0 .. 255) /\ MaxSent \in Nat

VARIABLES
    sender, receiver,   \* m_nPos1 and m_nPos2 of either end
    wire,               \* what has been encrypted and not yet decrypted
    plain,              \* history: the same before it was encrypted
    sent,               \* history: the bytes sent
    opened              \* history: what Decrypt has given last, and what had been encrypted

cipherVars == <<sender, receiver, wire, plain, sent, opened>>

-----------------------------------------------------------------------------
(* The tables                                                              *)

\* InitKey: each element from the one before it.
Quadratic(a, b, c, first) ==
    LET With(t, i) == Append(t, (a * t[i] * t[i] + b * t[i] + c) % 256)
    IN SeqExt!FoldLeft(With, <<first>>, [i \in 1 .. 255 |-> i])

\* push_stack: count elements of t, four apart, each with the one of u two behind it.
Stacked(t, u, from, count) ==
    LET At(s, i) == LET k == from + 4 * i + 1 IN [s EXCEPT ![k] = @ ^^ u[k + 2]]
    IN SeqExt!FoldLeft(At, t, [i \in 1 .. count |-> i - 1])

m_bufEncrypt2 == Quadratic(161, 136, 18, 252)

\* push_stack3 takes back what push_stack2 has done.
m_bufEncrypt1 ==
    LET first  == Stacked(Quadratic(90, 36, 17, 254), m_bufEncrypt2, 1, 10)
        second == Stacked(first, m_bufEncrypt2, 50, 5)
    IN Stacked(second, m_bufEncrypt2, 50, 5)

-----------------------------------------------------------------------------
(* A byte at a place                                                       *)

\* What a byte is xored with, term by term and in both directions; what is divided by
\* 0x233fedf comes to 0.
MaskTerms(p1, p2) ==
    LET a == m_bufEncrypt1[p1 + 1]
        b == m_bufEncrypt2[p2 + 1]
        When(condition, terms) == IF condition THEN terms ELSE <<>>
    IN <<a, a * 831, b, a * b, (a * b) \div 9183, a + b + 217070, p1, p2>>
       \o When((p2 & 49) # 0, <<a * 213567, p1 * 2344, a * b, a + b + 3424238, p1, p2>>)
       \o When((p1 & 3) # 0, <<a * 213551, p1 + p2 + 9034, 2 * a * b, a + b + 3424238, p2>>)
       \o When((p1 & 19) = 0, <<a * 213551, p1 + 33, 2 * a * b, a + b + 3424238, p2>>)
       \o When((p1 * b) % 9 = 1, <<a * 13359, p1 + 31, 2 * a * b, a + b + 3424238, p2>>)

Mask(p) == SeqExt!FoldLeft(LAMBDA x, y : x ^^ (y % 256), 0, MaskTerms(p[1], p[2]))

Turn(p) == (m_bufEncrypt1[p[1] + 1] + m_bufEncrypt2[p[2] + 1] + 217070) % 8

rotate_left_char(c, n)  == ((c * 2 ^ n) % 256) + (c \div 2 ^ (8 - n))
rotate_right_char(c, n) == (c \div 2 ^ n) + ((c * 2 ^ (8 - n)) % 256)

Moved(p, n) ==
    LET place == p[1] + 256 * p[2] + n IN <<place % 256, (place \div 256) % 256>>

Encrypted(bytes, p) ==
    [i \in DOMAIN bytes |->
        LET q == Moved(p, i - 1) IN rotate_left_char(bytes[i] ^^ Mask(q), Turn(q))]

Decrypted(bytes, p) ==
    [i \in DOMAIN bytes |->
        LET q == Moved(p, i - 1) IN rotate_right_char(bytes[i], Turn(q)) ^^ Mask(q)]

-----------------------------------------------------------------------------
CiphersInit ==
    /\ sender \in Starts /\ receiver = sender
    /\ wire = <<>> /\ plain = <<>>
    /\ sent = 0
    /\ opened = [got |-> <<>>, was |-> <<>>]

Encrypt(m) ==
    /\ sent + Len(m) <= MaxSent
    /\ wire' = wire \o Encrypted(m, sender)
    /\ sender' = Moved(sender, Len(m))
    /\ plain' = plain \o m /\ sent' = sent + Len(m)
    /\ UNCHANGED <<receiver, opened>>

Decrypts(n) ==
    opened' = [got |-> Decrypted(SubSeq(wire, 1, n), receiver), was |-> SubSeq(plain, 1, n)]

Decrypt(n) ==
    /\ Decrypts(n)
    /\ receiver' = Moved(receiver, n)
    /\ wire' = SubSeq(wire, n + 1, Len(wire))
    /\ plain' = SubSeq(plain, n + 1, Len(plain))
    /\ UNCHANGED <<sender, sent>>

\* Mutant: the places are not put back.
DecryptHereMoves(n) ==
    /\ Decrypts(n)
    /\ receiver' = Moved(receiver, n)
    /\ UNCHANGED <<sender, wire, plain, sent>>

\* With bMove false.
DecryptHere(n) ==
    /\ Decrypts(n)
    /\ UNCHANGED <<sender, receiver, wire, plain, sent>>

CiphersNext ==
    \/ \E m \in Messages : Encrypt(m)
    \/ \E n \in 1 .. Len(wire) : Decrypt(n) \/ DecryptHere(n)

CiphersSpec == CiphersInit /\ [][CiphersNext]_cipherVars

-----------------------------------------------------------------------------
\* Whatever piece of the stream is decrypted or looked at, and wherever the two ends have
\* come to in their tables, it is what was encrypted.
Deciphered == opened.got = opened.was

\* Where the ends are is apart by what is under way, over the end of the tables and
\* whatever has been looked at on the way.
EndsInStep == sender = Moved(receiver, Len(wire))

\* The two ends understand each other, however the stream is cut into pieces.
CiphersAgree == Deciphered /\ EndsInStep
=============================================================================
