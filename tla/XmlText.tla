------------------------------ MODULE XmlText -------------------------------
(***************************************************************************)
(* The text of a request (utils/xml/XmlUtils): how a name that came over   *)
(* the air, a sequence of bytes, is tested for being XML text in UTF-8 and *)
(* is escaped; and, to compare with, what RFC 3629 and XML 1.0 say of such *)
(* texts and how a parser reads them.                                      *)
(***************************************************************************)
EXTENDS Integers, Sequences

Byte == 0..255

Between(c, first, last) == first <= c /\ c <= last

-----------------------------------------------------------------------------
(* xmlEscape.                                                              *)

Escaped(c) ==
  CASE c = 38 -> <<38, 97, 109, 112, 59>>        \* &amp;
    [] c = 60 -> <<38, 108, 116, 59>>            \* &lt;
    [] c = 62 -> <<38, 103, 116, 59>>            \* &gt;
    [] c = 34 -> <<38, 113, 117, 111, 116, 59>>  \* &quot;
    [] c = 39 -> <<38, 97, 112, 111, 115, 59>>   \* &apos;
    [] OTHER  -> <<c>>

(* The result after i bytes of s.                                          *)
xmlEscape(s) ==
  LET result[i \in 0..Len(s)] ==
        IF i = 0 THEN <<>> ELSE result[i - 1] \o Escaped(s[i])
  IN result[Len(s)]

-----------------------------------------------------------------------------
(* xmlUtf8Test.  A character is the length of its sequence of bytes and its*)
(* code point; <<0, 0>> is none.                                           *)

NoChar == <<0, 0>>

decodeUtf8FirstByte(c) ==
  CASE Between(c, 0, 127)   -> <<1, c>>
    [] Between(c, 192, 223) -> <<2, c % 32>>
    [] Between(c, 224, 239) -> <<3, c % 16>>
    [] Between(c, 240, 247) -> <<4, c % 8>>
    [] OTHER          -> NoChar

IsContinuation(c) == Between(c, 128, 191)

(* The character at position i of s.                                       *)
decodeUtf8Char(s, i) ==
  LET first  == decodeUtf8FirstByte(s[i])
      length == first[1]
      point[k \in 0..(length - 1)] ==
        IF k = 0 THEN first[2] ELSE point[k - 1] * 64 + (s[i + k] % 64)
  IN IF length = 0 \/ i + length - 1 > Len(s)
        \/ \E k \in 1..(length - 1) : ~IsContinuation(s[i + k])
     THEN NoChar
     ELSE <<length, point[length - 1]>>

(* Faulty variant: a character may be written in more bytes than it needs. *)
NeverOverlong(c) == c[1] = 0

isUtf8OverlongSequence(c) ==
  CASE Between(c[2], 0, 127)         -> c[1] # 1
    [] Between(c[2], 128, 2047)      -> c[1] # 2
    [] Between(c[2], 2048, 65535)    -> c[1] # 3
    [] Between(c[2], 65536, 1114111) -> c[1] # 4
    [] OTHER                   -> TRUE

isValidXmlUtf8(point) ==
  \/ point \in {9, 10, 13} \/ Between(point, 32, 55295)
  \/ Between(point, 57344, 65533) \/ Between(point, 65536, 1114111)

xmlUtf8Test(s) ==
  LET from[i \in 1..(Len(s) + 1)] ==
        IF i > Len(s) THEN TRUE
        ELSE LET c == decodeUtf8Char(s, i)
             IN /\ ~isUtf8OverlongSequence(c)
                /\ isValidXmlUtf8(c[2])
                /\ from[i + c[1]]
  IN from[1]

-----------------------------------------------------------------------------
(* The reference: the table of RFC 3629 without what XML 1.0 leaves out.   *)

IsXmlChar(c) ==
  LET tail(from) == \A i \in from..Len(c) : Between(c[i], 128, 191)
  IN CASE Len(c) = 1 -> c[1] \in {9, 10, 13} \/ Between(c[1], 32, 127)
       [] Len(c) = 2 -> Between(c[1], 194, 223) /\ tail(2)
       [] Len(c) = 3 ->
            /\ \/ c[1] = 224 /\ Between(c[2], 160, 191)
               \/ Between(c[1], 225, 236)
               \/ c[1] = 237 /\ Between(c[2], 128, 159)
               \/ Between(c[1], 238, 239)
            /\ tail(2)
            /\ c \notin {<<239, 191, 190>>, <<239, 191, 191>>}
       [] Len(c) = 4 ->
            /\ \/ c[1] = 240 /\ Between(c[2], 144, 191)
               \/ Between(c[1], 241, 243)
               \/ c[1] = 244 /\ Between(c[2], 128, 143)
            /\ tail(2)

IsXmlText(s) ==
  LET from[i \in 1..(Len(s) + 1)] ==
        \/ i > Len(s)
        \/ \E n \in 1..4 : /\ i + n - 1 <= Len(s)
                           /\ IsXmlChar(SubSeq(s, i, i + n - 1))
                           /\ from[i + n]
  IN from[1]

(* What a parser reads of a character (XML 1.0, 2.11): of a carriage return*)
(* with a line feed after it nothing but the line feed, of another one a   *)
(* line feed.                                                              *)
LineEnd(s, i) ==
  CASE s[i] # 13                                -> <<s[i]>>
    [] s[i] = 13 /\ i < Len(s) /\ s[i + 1] = 10 -> <<>>
    [] OTHER                                    -> <<10>>

LineEnds(s) ==
  LET from[i \in 1..(Len(s) + 1)] ==
        IF i > Len(s) THEN <<>> ELSE LineEnd(s, i) \o from[i + 1]
  IN from[1]

(* What a parser makes of a text without markup: of the references what    *)
(* they stand for, of the rest its characters with their line ends, which  *)
(* no reference is part of.                                                *)
Entities == {38, 60, 62, 34, 39}

AsRead(text) ==
  LET starts(i, e) ==
        /\ i + Len(Escaped(e)) - 1 <= Len(text)
        /\ SubSeq(text, i, i + Len(Escaped(e)) - 1) = Escaped(e)
      from[i \in 1..(Len(text) + 1)] ==
        IF i > Len(text) THEN <<>>
        ELSE IF \E e \in Entities : starts(i, e)
        THEN LET e == CHOOSE e \in Entities : starts(i, e)
             IN <<e>> \o from[i + Len(Escaped(e))]
        ELSE LineEnd(text, i) \o from[i + 1]
  IN from[1]
=============================================================================
