------------------------------ MODULE Strings ------------------------------
(***************************************************************************)
(* nString: a string that lies in the object while it is short and on the  *)
(* heap otherwise, with its length kept beside it.  What shortens the      *)
(* string in place writes a 0 into it and leaves the length as it was, so  *)
(* that Length() is the length of the text only until then; what appends,  *)
(* trims, extracts or searches goes by Length(), by the 0, or by both.     *)
(*                                                                         *)
(* Characters are bytes.  Callers keep to what the code asserts, pass no   *)
(* part of a string to itself, extract ranges of the text only, keep below *)
(* the 65535 characters strLen holds, and leave out the calls that touch   *)
(* memory which is not the string's: what cuts or converts by Length() in  *)
(* a cleared string, whose length is not 0 but whose text is the literal   *)
(* "", and TrimRight of nothing but characters of the set where that lies  *)
(* on the heap.                                                            *)
(***************************************************************************)
EXTENDS Integers, Sequences

LOCAL SeqExt == INSTANCE SequencesExt

CONSTANTS
    Pieces,             \* the strings callers have
    CharSets,           \* the sets of characters callers name
    LOCALSTRINGSIZE,
    Junk,               \* what memory from malloc may hold
    MaxLength           \* bound: the characters of a string

ASSUME StringsAssumption ==
    /\ LOCALSTRINGSIZE \in Nat \ {0} /\ MaxLength \in Nat
    /\ Pieces \subseteq Seq(1 .. 255) /\ Junk \subseteq 0 .. 255

VARIABLES
    str,        \* whether string is used, its memory as far as it is written, and strLen
    content,    \* history: what a string holds after the same calls
    strayed,    \* history: a call since the last that set the whole string did not do
                \* what it says, and content is not followed
    walk        \* GetFirstToken and GetNextToken: strtok's place in the string, 0 for none,
                \* and as history the tokens there were to begin with and those given

stringVars == <<str, content, strayed, walk>>

Dot == 46
Separators == <<47, 92, 58>>            \* slash, backslash and colon
Question == 63

\* The place of the first character of s of set, and of the last; 0 when there is none.
First(s, set) == SeqExt!SelectInSeq(s, LAMBDA c : c \in set)
Final(s, set) == SeqExt!SelectLastInSeq(s, LAMBDA c : c \in set)

Before(s, i) == SubSeq(s, 1, i - 1)
Behind(s, i) == SubSeq(s, i + 1, Len(s))

CString(mem) == Before(mem, First(mem, {0}))

Get(s) == CString(s.mem)

\* IsEmpty
Bare(s) == s.mem[1] = 0

\* Set, of characters that may include a 0; the constructors and operator= as well.
SetTo(chars) == [mem |-> Append(chars, 0), heap |-> Len(chars) >= LOCALSTRINGSIZE, len |-> Len(chars)]

\* Delete, and Clear: strLen stays.
Deleted(s) == [mem |-> <<0>>, heap |-> FALSE, len |-> s.len]

\* AppendRange: memory for the length as it is kept, the text up to the 0 and chars.
AppendedRange(s, chars, junk) ==
    LET tlen  == s.len + Len(chars)
        new   == Get(s) \o Append(chars, 0)
        stays == ~s.heap /\ tlen < LOCALSTRINGSIZE
    IN IF chars = <<>> THEN s
       ELSE IF ~s.heap /\ Bare(s) THEN SetTo(chars)
       ELSE [mem |-> [i \in 1 .. tlen + 1 |-> IF i <= Len(new) THEN new[i]
                                              ELSE IF stays /\ i <= Len(s.mem) THEN s.mem[i] ELSE junk],
             heap |-> ~stays, len |-> tlen]

CutAt(s, i) == [s EXCEPT !.mem[i] = 0]

\* The characters of s in place, up to the 0.
InPlace(s, chars) ==
    [s EXCEPT !.mem = [i \in DOMAIN @ |-> IF i <= Len(chars) THEN chars[i]
                                          ELSE IF i = Len(chars) + 1 THEN 0 ELSE @[i]]]

-----------------------------------------------------------------------------
(* What is read out of a string                                            *)

\* GetLastSlash: slashes before backslashes before colons, 0 when there is none.
LastSlash(s) ==
    LET found == SelectSeq([i \in DOMAIN Separators |-> Final(s, {Separators[i]})], LAMBDA p : p > 0)
    IN IF found = <<>> THEN 0 ELSE found[1]

\* The place of the dot before GetExtension, 0 when there is no extension.
ExtensionDot(s) == LET dot == Final(s, {Dot}) IN IF dot = Len(s) THEN 0 ELSE dot

GetExtension(s) == IF ExtensionDot(s) = 0 THEN <<>> ELSE Behind(s, ExtensionDot(s))

ExtractToLastSlash(s) == SubSeq(s, 1, LastSlash(s))

ExtractFileName(s) == Behind(s, LastSlash(s))

\* A separator at the end of a path does not count.
Unslashed(s) == IF s # <<>> /\ LastSlash(s) = Len(s) THEN Before(s, Len(s)) ELSE s

ExtractDirName(s) ==
    LET path == Unslashed(s) IN
    IF LastSlash(path) = 0 THEN path ELSE ExtractToLastSlash(path)

ExtractLastDirName(s) ==
    LET path == Unslashed(s)
        dirs == Before(path, LastSlash(path))
    IN IF LastSlash(path) = 0 \/ LastSlash(dirs) = 0 THEN <<>> ELSE Behind(dirs, LastSlash(dirs))

\* TrimLeft goes by Length() and takes the text from where it stops.
TrimLeft(s, set) ==
    LET Stop[i \in 0 .. s.len] == IF i < s.len /\ s.mem[i + 1] \in set THEN Stop[i + 1] ELSE i
    IN IF Bare(s) THEN <<>> ELSE CString(Behind(s.mem, Stop[0]))

\* TrimRight goes by Length() only.  In the object the byte before the first is one of
\* the null pointer string, and stops it.
TrimRight(s, set) ==
    LET Stop[i \in -1 .. s.len] == IF i >= 0 /\ s.mem[i + 1] \in set THEN Stop[i - 1] ELSE i
    IN IF Bare(s) THEN <<>> ELSE SubSeq(s.mem, 1, Stop[s.len - 1] + 1)

TrimStays(s, set) == s.heap /\ ~Bare(s) => \E i \in 1 .. s.len : s.mem[i] \notin set

IsPrefixAt(v, s, i) == i + Len(v) - 1 <= Len(s) /\ SubSeq(s, i, i + Len(v) - 1) = v

\* Mutant: it stops a place early.
IndexOfShort(s, v, startIndex) ==
    LET Try[i \in startIndex .. s.len] ==
            IF s.len - i <= Len(v) THEN -1
            ELSE IF IsPrefixAt(v, s.mem, i + 1) THEN i ELSE Try[i + 1]
    IN Try[startIndex]

\* IndexOf goes by Length() and compares up to the 0.
IndexOf(s, v, startIndex) ==
    LET Try[i \in startIndex .. s.len] ==
            IF s.len - i < Len(v) THEN -1
            ELSE IF IsPrefixAt(v, s.mem, i + 1) THEN i ELSE Try[i + 1]
    IN Try[startIndex]

\* The places where match begins in s.
Matches(s, match) == {i \in DOMAIN s : IsPrefixAt(match, s, i)}

Least(places) == CHOOSE i \in places : \A j \in places : i <= j

\* Mutant: it goes on one character behind the match it has replaced.
SubstitutedSkips(s, match, subst) ==
    LET Go[rest \in Seq(0 .. 255), dest \in [heap : BOOLEAN, mem : Seq(0 .. 255), len : Nat]] ==
            LET i == Least(Matches(rest, match)) IN
            IF Matches(rest, match) = {} THEN AppendedRange(dest, rest, 0)
            ELSE Go[Behind(rest, i + Len(match)),
                    AppendedRange(AppendedRange(dest, Before(rest, i), 0), subst, 0)]
    IN Go[Get(s), SetTo(<<>>)]

\* Substitute puts dest together piece by piece.
Substituted(s, match, subst) ==
    LET Go[rest \in Seq(0 .. 255), dest \in [heap : BOOLEAN, mem : Seq(0 .. 255), len : Nat]] ==
            LET i == Least(Matches(rest, match)) IN
            IF Matches(rest, match) = {} THEN AppendedRange(dest, rest, 0)
            ELSE Go[Behind(rest, i + Len(match) - 1),
                    AppendedRange(AppendedRange(dest, Before(rest, i), 0), subst, 0)]
    IN Go[Get(s), SetTo(<<>>)]

\* By the text alone: the first match replaced, and then those behind it.
Replaced(t, match, subst) ==
    LET From[rest \in Seq(0 .. 255)] ==
            LET i == Least(Matches(rest, match)) IN
            IF Matches(rest, match) = {} THEN rest
            ELSE Before(rest, i) \o subst \o From[Behind(rest, i + Len(match) - 1)]
    IN From[t]

\* ANSItoUTF8
Encoded(s) ==
    SeqExt!FlattenSeq([i \in DOMAIN s |->
        IF s[i] < 128 THEN <<s[i]>> ELSE <<192 + (s[i] \div 64), 128 + (s[i] % 64)>>])

\* The bytes a first byte announces.
SequenceLength(c) ==
    CASE c \in 192 .. 223 -> 2 [] c \in 224 .. 239 -> 3 [] c \in 240 .. 247 -> 4
      [] c \in 248 .. 251 -> 5 [] c \in 252 .. 253 -> 6 [] OTHER -> 1

\* UTF8toANSI
Decoded(s) ==
    LET From[i \in 1 .. Len(s) + 6] ==
            IF i > Len(s) THEN <<>>
            ELSE LET n    == SequenceLength(s[i])
                     wide == (s[i] % 32) * 64 + (s[i + 1] % 64)
                 IN <<IF n = 1 THEN s[i] ELSE IF n = 2 /\ wide <= 255 THEN wide ELSE Question>> \o From[i + n]
    IN From[1]

\* No sequence of bytes runs over the end.
Complete(s) ==
    LET From[i \in 1 .. Len(s) + 6] ==
            IF i > Len(s) THEN i = Len(s) + 1 ELSE From[i + SequenceLength(s[i])]
    IN From[1]

-----------------------------------------------------------------------------
(* The calls that change a string                                          *)

NotWalking == [at |-> 0, set |-> {}, all |-> <<>>, given |-> <<>>]

\* The string becomes s; a sequence under the same call becomes t.
StringBecomes(s, t) ==
    /\ s.len <= MaxLength
    /\ str' = s /\ content' = IF strayed THEN <<>> ELSE t
    /\ walk' = NotWalking
    /\ UNCHANGED strayed

\* A call that sets the whole string.
StringSet(s, t) ==
    /\ s.len <= MaxLength
    /\ str' = s /\ content' = t
    /\ walk' = NotWalking
    /\ strayed' = FALSE

\* A call that leaves the string other than what it says.
StringStrays(s) ==
    /\ s.len <= MaxLength
    /\ str' = s /\ content' = <<>>
    /\ walk' = NotWalking
    /\ strayed' = TRUE

\* Set, SetInt, SetFloat, the constructors and the assignments
SetString(chars) == StringSet(SetTo(chars), chars)

ClearString == StringSet(Deleted(str), <<>>)

\* Append and operator+=, of strings, ranges and numbers; operator+ appends to a copy.
AppendString(chars) ==
    \E junk \in Junk, copied \in BOOLEAN :
        LET s == IF copied THEN SetTo(Get(str)) ELSE str IN
        StringBecomes(AppendedRange(s, chars, junk), content \o chars)

\* The text if a 0 is put in place i, which is no longer in the text if it was cut.
TextBefore(i) == IF i \in DOMAIN content THEN Before(content, i) ELSE content

\* Whether the text is in memory of the string, even if the text is empty.
Own == str.heap \/ ~Bare(str)

\* Strip
StripAt(set) ==
    LET i == First(Get(str), set) IN
    i > 0 /\ StringBecomes(CutAt(str, i), Before(content, i))

\* An index behind a 0 that has been put in already is below Length() and changes nothing.
TerminateAtIndex(index) ==
    /\ Own /\ index < str.len
    /\ StringBecomes(CutAt(str, index + 1), TextBefore(index + 1))

Exact == str.len = Len(Get(str))

EndsOnSlash(s) == s # <<>> /\ s[Len(s)] \in {Separators[1], Separators[2]}

\* "Strips last slash, if the path name ends on a slash": but it looks where the last
\* character was when the length was right, and leaves the slash a cut string ends on.
StripTrailingSlash ==
    LET stripped == IF str.mem[str.len] \in {Separators[1], Separators[2]} THEN CutAt(str, str.len) ELSE str
    IN  /\ Own /\ str.len > 0
        /\ IF ~Exact /\ EndsOnSlash(Get(str)) THEN StringStrays(stripped)
           ELSE StringBecomes(stripped, IF EndsOnSlash(content) THEN Before(content, Len(content)) ELSE content)

StripExtension ==
    LET dot == ExtensionDot(Get(str)) IN
    dot > 0 /\ StringBecomes(CutAt(str, dot), Before(content, dot))

Each(s, F(_)) == [i \in DOMAIN s |-> F(s[i])]

ToLower(c) == IF c \in 65 .. 90 THEN c + 32 ELSE c
ToUpper(c) == IF c \in 97 .. 122 THEN c - 32 ELSE c
Slashed(c) == IF c = Separators[2] THEN Separators[1] ELSE c

\* ToLower and ToUpper stop at the 0, ConvertBackslashes goes by Length().
ChangeCharacters ==
    /\ Own
    /\ \/ StringBecomes(InPlace(str, Each(Get(str), ToLower)), Each(content, ToLower))
       \/ StringBecomes(InPlace(str, Each(Get(str), ToUpper)), Each(content, ToUpper))
       \/ StringBecomes([str EXCEPT !.mem = [i \in DOMAIN @ |-> IF i <= str.len + 1 THEN Slashed(@[i]) ELSE @[i]]],
                  Each(content, Slashed))

ANSItoUTF8 == ~Bare(str) /\ StringBecomes(SetTo(Encoded(Get(str))), Encoded(content))

UTF8toANSI == Own /\ Complete(Get(str)) /\ StringBecomes(InPlace(str, Decoded(Get(str))), Decoded(content))

\* The string is assigned what one of these makes of it.  By the text alone a trim keeps
\* what lies between the first and the last character that is not in the set; but of a
\* string that was cut TrimRight strips nothing.
AssignTrimmed(set) ==
    LET Left(s)  == SubSeq(s, SeqExt!SelectInSeq(Append(s, 0), LAMBDA c : c \notin set), Len(s))
        Right(s) == SubSeq(s, 1, SeqExt!SelectLastInSeq(s, LAMBDA c : c \notin set))
        left     == SetTo(TrimLeft(str, set))
        right    == CString(Append(TrimRight(str, set), 0))
    IN \/ StringBecomes(left, Left(content))
       \/ /\ TrimStays(str, set)
          /\ IF ~Exact /\ Right(Get(str)) # Get(str) THEN StringStrays(SetTo(right))
             ELSE StringBecomes(SetTo(right), Right(content))
       \/ StringBecomes(SetTo(TrimRight(left, set)), Right(Left(content)))

AssignSubstituted(match, subst) ==
    /\ match # <<>>                         \* it would find "" for ever
    /\ StringBecomes(Substituted(str, match, subst), Replaced(content, match, subst))

AssignExtracted ==
    \/ StringBecomes(SetTo(ExtractFileName(Get(str))), ExtractFileName(content))
    \/ StringBecomes(SetTo(ExtractDirName(Get(str))), ExtractDirName(content))
    \/ StringBecomes(SetTo(ExtractLastDirName(Get(str))), ExtractLastDirName(content))
    \/ StringBecomes(SetTo(ExtractToLastSlash(Get(str))), ExtractToLastSlash(content))
    \/ \E from, num \in 0 .. Len(Get(str)) :
          /\ from + num <= Len(Get(str))
          /\ StringBecomes(SetTo(SubSeq(str.mem, from + 1, from + num)), SubSeq(content, from + 1, from + num))

-----------------------------------------------------------------------------
(* Tokens                                                                  *)

\* strtok from a place: where the token begins (0 for none), and the place behind it.
Token(mem, at, set) ==
    LET rest == CString(Behind(mem, at - 1))
        from == SeqExt!SelectInSeq(rest, LAMBDA c : c \notin set)
        tail == Behind(rest, from - 1)
        ends == First(tail, set)
    IN IF from = 0 THEN [token |-> <<>>, cut |-> 0, next |-> at + Len(rest)]
       ELSE IF ends = 0 THEN [token |-> tail, cut |-> 0, next |-> at + Len(rest)]
       ELSE LET cut == at + from + ends - 2 IN [token |-> Before(tail, ends), cut |-> cut, next |-> cut + 1]

\* Tokenize, of a copy of the string
Tokenize(s, set) ==
    LET Next[at \in 1 .. Len(s) + 2] ==
            LET t == Token(Append(s, 0), at, set) IN
            IF t.token = <<>> THEN <<>> ELSE <<t.token>> \o Next[t.next]
    IN Next[1]

\* By the text alone: the longest runs of characters that are not in set.
Runs(s, set) ==
    LET starts == SelectSeq([i \in DOMAIN s |-> i], LAMBDA i : s[i] \notin set /\ (i = 1 \/ s[i - 1] \in set))
    IN [k \in DOMAIN starts |->
            LET rest == Behind(s, starts[k] - 1)
                ends == First(rest, set)
            IN IF ends = 0 THEN rest ELSE Before(rest, ends)]

\* Mutant: strtok is asked for a place behind the one it knows.
TakeTokenLate(w) ==
    LET t == Token(str.mem, IF w.at = 1 \/ str.mem[w.at] = 0 THEN w.at ELSE w.at + 1, w.set) IN
    /\ str' = IF t.cut = 0 THEN str ELSE CutAt(str, t.cut)
    /\ content' = TextBefore(t.cut) /\ UNCHANGED strayed
    /\ walk' = [w EXCEPT !.at = t.next, !.given = IF t.token = <<>> THEN @ ELSE Append(@, t.token)]

\* strtok puts a 0 behind the token and remembers the place behind that.
TakeToken(w) ==
    LET t == Token(str.mem, w.at, w.set) IN
    /\ str' = IF t.cut = 0 THEN str ELSE CutAt(str, t.cut)
    /\ content' = TextBefore(t.cut) /\ UNCHANGED strayed
    /\ walk' = [w EXCEPT !.at = t.next, !.given = IF t.token = <<>> THEN @ ELSE Append(@, t.token)]

GetFirstToken(set) == Own /\ TakeToken([at |-> 1, set |-> set, all |-> Runs(Get(str), set), given |-> <<>>])

\* As long as nothing else was done with the string, or with strtok.
GetNextToken == walk.at > 0 /\ TakeToken(walk)

StringsInit ==
    /\ str = [mem |-> <<0>>, heap |-> FALSE, len |-> 0]
    /\ content = <<>> /\ strayed = FALSE
    /\ walk = NotWalking

StringsNext ==
    \/ ClearString \/ StripTrailingSlash \/ StripExtension \/ ChangeCharacters
    \/ ANSItoUTF8 \/ UTF8toANSI \/ AssignExtracted \/ GetNextToken
    \/ \E chars \in Pieces :
          \/ SetString(chars) \/ AppendString(chars)
          \/ \E match \in Pieces : AssignSubstituted(match, chars)
    \/ \E set \in CharSets : StripAt(set) \/ AssignTrimmed(set) \/ GetFirstToken(set)
    \/ \E index \in 0 .. MaxLength - 1 : TerminateAtIndex(index)

StringsSpec == StringsInit /\ [][StringsNext]_stringVars

-----------------------------------------------------------------------------
\* Whatever has been appended, cut, cleared and replaced, in the object or on the heap and
\* across the two, with a length that is right or one that is not, the text is that of a
\* sequence under the same calls.  Two calls of a string that was cut, whose length is no
\* longer right, do not do what they say: StripTrailingSlash leaves the slash the text
\* ends on, and TrimRight the characters of the set.  What such a call leaves is not
\* followed until the string is set or cleared.
HoldsText == ~strayed => Get(str) = content

\* The text never runs over the length the string believes it has, nor the length over the
\* memory, unless the string was cleared: what goes by Length() stays inside.
WithinMemory ==
    /\ Own => Len(Get(str)) <= str.len /\ str.len < Len(str.mem)
    /\ ~str.heap => Len(str.mem) <= LOCALSTRINGSIZE

\* The text is what it should be, and within what was allocated for it.
TextHeld == HoldsText /\ WithinMemory

\* Of a string that was not cut, IndexOf gives the first place it is asked for.
FindsFirst ==
    Exact => \A v \in Pieces \ {<<>>}, start \in 0 .. str.len - 1 :
        LET at == {i \in Matches(Get(str), v) : i > start} IN
        IndexOf(str, v, start) = IF at = {} THEN -1 ELSE Least(at) - 1

\* A path is what is up to its last separator, and the file name, and its last directory is
\* the end of its directory, whichever separators it uses.
PathSplits ==
    LET text == Get(str)
        dir  == ExtractDirName(text)
        last == ExtractLastDirName(text) IN
    /\ ExtractToLastSlash(text) \o ExtractFileName(text) = text
    /\ last # <<>> => SubSeq(dir, Len(dir) - Len(last), Len(dir) - 1) = last

\* What was put into UTF-8 comes out of it again.
RoundTrip == Complete(Encoded(Get(str))) /\ Decoded(Encoded(Get(str))) = Get(str)

\* The functions that look into a text agree with what is there, for every text the calls
\* have put together.
TextRead == FindsFirst /\ PathSplits /\ RoundTrip

\* Tokenize gives the runs of characters between the separators, and so do GetFirstToken
\* and GetNextToken, although they write into the string they read: one after the other,
\* and then no more.
TokensInTurn ==
    /\ \A set \in CharSets : Tokenize(Get(str), set) = Runs(Get(str), set)
    /\ walk.at > 0 =>
          /\ walk.given = SubSeq(walk.all, 1, Len(walk.given))
          /\ str.mem[walk.at] = 0 => walk.given = walk.all
=============================================================================
