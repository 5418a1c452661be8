------------------------------- MODULE Names --------------------------------
(***************************************************************************)
(* What becomes of the bytes of a file name: how the listing shows them    *)
(* (DisplayCodec), and what the system's text dialog gets and gives back   *)
(* (WideFromUtf8, Utf8FromWide).  A name is a sequence of bytes.           *)
(***************************************************************************)
EXTENDS Integers, Sequences

IsContinuation(byte) == byte \in 128..191
IsControl(byte) == byte < 32 \/ byte = 127

\* The parts from the i-th on, one after the other; next says which one follows.
Joined(parts, next) ==
    LET from[i \in 1..(Len(parts) + 1)] ==
            IF i > Len(parts) THEN <<>> ELSE parts[i] \o from[next[i]]
    IN  from
Concat(parts) == Joined(parts, [i \in 1..Len(parts) |-> i + 1])[1]

IsValidBytes(name) ==
    /\ name \notin {<<>>, <<46>>, <<46, 46>>}           \* "", "." and ".."
    /\ \A i \in DOMAIN name : name[i] \notin {0, 47}    \* NUL and "/"

(***************************************************************************)
(* DisplayCodec::DecodeBytes(), which takes well-formed sequences only.    *)
(***************************************************************************)
\* The bytes that may follow a first byte.
\* Mutant: the surrogates, ED A0..BF, are taken for characters.
MutSeconds(first) ==
    CASE first = 224 -> 160..191 [] first = 240 -> 144..191
      [] first = 244 -> 128..143 [] OTHER -> 128..191
Seconds(first) ==
    CASE first = 224 -> 160..191        \* E0, else overlong
      [] first = 237 -> 128..159        \* ED, else a surrogate
      [] first = 240 -> 144..191        \* F0, else overlong
      [] first = 244 -> 128..143        \* F4, else beyond U+10FFFF
      [] OTHER       -> 128..191

StrictLength(first) ==
    CASE first \in 194..223 -> 2 [] first \in 224..239 -> 3
      [] first \in 240..244 -> 4 [] OTHER -> 1

DecodeStrictUtf8(name, i) ==
    LET n == StrictLength(name[i])
    IN  IF n = 1 THEN name[i] <= 127
        ELSE /\ i + n - 1 <= Len(name)
             /\ name[i + 1] \in Seconds(name[i])
             /\ \A k \in 2..(n - 1) : IsContinuation(name[i + k])

\* What is shown of the byte at i: a character as it is, any other byte as an
\* escape, \xNN.
Shown(name, i) ==
    IF DecodeStrictUtf8(name, i) /\ ~IsControl(name[i])
    THEN [bytes |-> SubSeq(name, i, i + StrictLength(name[i]) - 1), escaped |-> FALSE]
    ELSE [bytes |-> <<name[i]>>, escaped |-> TRUE]

DisplayFrom(name) ==
    Joined([i \in 1..Len(name) |-> <<Shown(name, i)>>],
           [i \in 1..Len(name) |-> i + Len(Shown(name, i).bytes)])
Display(name) == DisplayFrom(name)[1]

Lossy(name) == \E i \in DOMAIN Display(name) : Display(name)[i].escaped

(***************************************************************************)
(* TextRenderer::Truncate().  A text is the sequence of its characters;    *)
(* what is cut off is replaced by three dots.                              *)
(***************************************************************************)
Hex(digit) == IF digit < 10 THEN 48 + digit ELSE 55 + digit
IsHexDigit(char) == char \in 48..57 \cup 65..70 \cup 97..102
Escape(byte) == <<92, 120, Hex(byte \div 16), Hex(byte % 16)>>    \* \xNN

\* Where an escape begins that the cut after so many characters would split.
\* Mutant: only two characters are looked back.
MutSplitEscapes(text, cut) ==
    {start \in (cut - 2)..(cut - 1) :
        /\ start >= 0 /\ start + 4 <= Len(text)
        /\ text[start + 1] = 92 /\ text[start + 2] = 120
        /\ IsHexDigit(text[start + 3]) /\ IsHexDigit(text[start + 4])}
SplitEscapes(text, cut) ==
    {start \in (cut - 3)..(cut - 1) :
        /\ start >= 0 /\ start + 4 <= Len(text)
        /\ text[start + 1] = 92 /\ text[start + 2] = 120
        /\ IsHexDigit(text[start + 3]) /\ IsHexDigit(text[start + 4])}

Dots == <<46, 46, 46>>

Truncate(text, limit) ==
    LET splits == SplitEscapes(text, limit)
        cut    == IF splits = {} THEN limit
                  ELSE CHOOSE i \in splits : \A j \in splits : j <= i
    IN  IF limit >= Len(text) THEN text ELSE SubSeq(text, 1, cut) \o Dots

(***************************************************************************)
(* NextUtf8Codepoint(), which takes what the other one refuses.            *)
(***************************************************************************)
Replacement == 65533    \* U+FFFD

LenientLength(first) ==
    CASE first \in 192..223 -> 2 [] first \in 224..239 -> 3
      [] first \in 240..247 -> 4 [] first <= 127 -> 1 [] OTHER -> 0

\* The bits of a sequence of n bytes.
Codepoint(bytes) ==
    LET six(k) == bytes[k] % 64
    IN  CASE Len(bytes) = 1 -> bytes[1] % 128
          [] Len(bytes) = 2 -> (64 * (bytes[1] % 32)) + six(2)
          [] Len(bytes) = 3 -> (4096 * (bytes[1] % 16)) + (64 * six(2)) + six(3)
          [] Len(bytes) = 4 -> (262144 * (bytes[1] % 8)) + (4096 * six(2)) + (64 * six(3)) + six(4)

NextUtf8Codepoint(text, i) ==
    LET n == LenientLength(text[i])
        whole == SubSeq(text, i, i + n - 1)
    IN  IF n > 0 /\ i + n - 1 > Len(text)
        THEN [codepoint |-> Replacement, next |-> Len(text) + 1]
        ELSE IF n = 0 \/ \E k \in 2..n : ~IsContinuation(whole[k])
        THEN [codepoint |-> Replacement, next |-> i + 1]
        ELSE [codepoint |-> Codepoint(whole), next |-> i + n]

\* What the listing shows for a part of a name.
Characters(part) ==
    IF part.escaped THEN Escape(part.bytes[1]) ELSE <<Codepoint(part.bytes)>>
DisplayText(parts) == Concat([i \in DOMAIN parts |-> Characters(parts[i])])

CodepointsFrom(text) ==
    Joined([i \in 1..Len(text) |-> <<NextUtf8Codepoint(text, i).codepoint>>],
           [i \in 1..Len(text) |-> NextUtf8Codepoint(text, i).next])
Codepoints(text) == CodepointsFrom(text)[1]

Least(a, b) == IF a < b THEN a ELSE b

\* A buffer of count elements holds one less, and the terminator.
\* Mutant: one less still.
MutWideFromUtf8(text, count) ==
    SubSeq(Codepoints(text), 1, Least(Len(Codepoints(text)), count - 2))
WideFromUtf8(text, count) ==
    SubSeq(Codepoints(text), 1, Least(Len(Codepoints(text)), count - 1))

\* The six bits above the unit.
Six(value, unit) == 128 + ((value \div unit) % 64)

Encode(value) ==
    CASE value <= 127 -> <<value>>
      [] value > 127 /\ value <= 2047 -> <<192 + (value \div 64), Six(value, 1)>>
      [] value > 2047 /\ value <= 65535 ->
            <<224 + (value \div 4096), Six(value, 64), Six(value, 1)>>
      [] value > 65535 ->
            <<240 + (value \div 262144), Six(value, 4096), Six(value, 64), Six(value, 1)>>

\* Up to the terminator.
Utf8FromWide(wide) ==
    LET ends == {i \in DOMAIN wide : wide[i] = 0}
        last == IF ends = {} THEN Len(wide) ELSE (CHOOSE i \in ends : \A j \in ends : i <= j) - 1
    IN  Concat([i \in 1..last |-> Encode(wide[i])])

(***************************************************************************)
(* The reference: UTF-8 is the encodings of scalar values, one after the   *)
(* other.                                                                  *)
(***************************************************************************)
IsScalar(value) == value >= 0 /\ value <= 1114111 /\ ~(value >= 55296 /\ value <= 57343)

IsEncoding(bytes) ==
    /\ IsScalar(Codepoint(bytes))
    /\ bytes = Encode(Codepoint(bytes))

\* There are places, the beginning among them, from each of which an encoding
\* leads to another, or to the end.
WellFormed(name) ==
    \E places \in SUBSET (1..(Len(name) + 1)) :
        /\ 1 \in places
        /\ \A i \in places \ {Len(name) + 1} :
              \E n \in 1..4 : i + n \in places /\ IsEncoding(SubSeq(name, i, i + n - 1))
=============================================================================
