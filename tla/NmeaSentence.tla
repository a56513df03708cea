---------------------------- MODULE NmeaSentence ----------------------------
(***************************************************************************)
(* Sentences of the NMEA library: how one is merged into a set of fields,  *)
(* the groups of GSV messages that describe the satellites in view, the    *)
(* choice of the format, and how a set of fields is written as sentences.  *)
(***************************************************************************)
EXTENDS NmeaData

Sentence(head, tokens) == [head |-> head, tokens |-> tokens, intact |-> TRUE]

-----------------------------------------------------------------------------
(* Sentence::parse: head, checksum and number of tokens must be right.     *)

(* Faulty variant: the tokens are not counted.                             *)
TakesAny(k, s) == s.head = k.head /\ s.intact

Takes(k, s) ==
  s.head = k.head /\ s.intact /\ Len(s.tokens) = Len(k.format)

TokenAt(s, i) == IF i <= Len(s.tokens) THEN s.tokens[i] ELSE EmptyToken

HasValue(format, s, i) ==
  TokenAt(s, i).length > 0 /\ Parses(format[i].token, TokenAt(s, i))

(* Faulty variant: a field whose token is empty keeps its value.           *)
KeepUnsaid(format, s, to, junk) ==
  LET said == {i \in DOMAIN format : HasValue(format, s, i)}
      new  == {format[i].field : i \in said}
      of(f) == CHOOSE i \in said : format[i].field = f
  IN [f \in DOMAIN to \union new |->
        IF f \in new
        THEN ValueOf(format[of(f)].token, TokenAt(s, of(f)), junk)
        ELSE to[f]]

(* Every field of the format is replaced: by the value its token has, or,  *)
(* when that is empty or is not taken, by nothing.                         *)
ParsePayload(format, s, to, junk) ==
  LET named == {format[i].field : i \in DOMAIN format}
      said  == {i \in DOMAIN format : HasValue(format, s, i)}
      of(f) == CHOOSE i \in DOMAIN format : format[i].field = f
  IN [f \in (DOMAIN to \ named) \union {format[i].field : i \in said} |->
        IF f \in named
        THEN ValueOf(format[of(f)].token, TokenAt(s, of(f)), junk)
        ELSE to[f]]

-----------------------------------------------------------------------------
(* GSVSentence::parse: message number of count describes the satellites    *)
(* (number - 1) * SatsPerMessage + 1 and on.                               *)

GsvOf(k, s, junk) == ParsePayload(k.format, s, NoData, junk)

Count(gsv) == AsInt(gsv, Field("MESSAGE_COUNT"))
Number(gsv) == AsInt(gsv, Field("MESSAGE_NUMBER"))

TakesGsv(k, s, junk) ==
  LET gsv == GsvOf(k, s, junk)
  IN /\ Takes(k, s)
     /\ Count(gsv) \in 1..MaxGsvMessages
     /\ Number(gsv) \in 1..Count(gsv)

(* The first message of a group clears the places the group leaves.        *)
Cleared(gsv) ==
  IF Number(gsv) # 1 THEN {}
  ELSE {Sat(i) : i \in (Count(gsv) * SatsPerMessage + 1)..MaxSatInView}

(* A satellite is taken only if all its parts are there.                   *)
IsWhole(gsv, n) ==
  \A p \in Range(GsvParts) : IsPresent(gsv, Part(n, p))

SatelliteOf(gsv, n) ==
  Variant("SATELLITE",
          [p \in Range(GsvParts) |-> gsv[Part(n, p)].v])

(* Faulty variant: an incomplete satellite leaves the one that was there.  *)
PlacesWhole(gsv) ==
  {n \in 1..SatsPerMessage : IsWhole(gsv, n)}

Places(gsv) == 1..SatsPerMessage

MergeGsv(k, s, to, junk) ==
  LET gsv     == GsvOf(k, s, junk)
      place(n) == Sat((Number(gsv) - 1) * SatsPerMessage + n)
      whole   == {n \in 1..SatsPerMessage : IsWhole(gsv, n)}
      kept    == Copied(gsv, Field("SAT_IN_VIEW"),
                   Remove(to, Cleared(gsv)
                              \union {place(n) : n \in Places(gsv)}))
      at(f)   == CHOOSE n \in whole : place(n) = f
  IN [f \in DOMAIN kept \union {place(n) : n \in whole} |->
        IF f \in {place(n) : n \in whole} THEN SatelliteOf(gsv, at(f))
        ELSE kept[f]]

-----------------------------------------------------------------------------
(* NMEA::parse: the first format of the chain that takes the sentence.     *)

Recognises(k, s, junk) ==
  IF k.id = "GSV" THEN TakesGsv(k, s, junk) ELSE Takes(k, s)

Recognised(s, junk) ==
  {i \in DOMAIN Chain : Recognises(Chain[i], s, junk)}

FirstOf(S) == CHOOSE i \in S : \A j \in S : i <= j

Id(s, junk) ==
  IF Recognised(s, junk) = {} THEN "none"
  ELSE Chain[FirstOf(Recognised(s, junk))].id

Merge(s, to, junk) ==
  IF Recognised(s, junk) = {} THEN to
  ELSE LET k == Chain[FirstOf(Recognised(s, junk))]
       IN IF k.id = "GSV" THEN MergeGsv(k, s, to, junk)
          ELSE ParsePayload(k.format, s, to, junk)

(* All the sentences found in a buffer, one after the other.               *)
Parse(line, to, junk) ==
  LET merged[i \in 0..Len(line)] ==
        IF i = 0 THEN to ELSE Merge(line[i], merged[i - 1], junk)
  IN merged[Len(line)]

-----------------------------------------------------------------------------
(* Sentence::toString and GSVSentence::toString.                           *)

ToString(k, from) ==
  Sentence(k.head,
    [i \in DOMAIN k.format |->
       IF IsPresent(from, k.format[i].field)
       THEN ToText(k.format[i].token, from[k.format[i].field])
       ELSE EmptyToken])

Number0(n) == Variant("INT", [NoValue EXCEPT !.n = n])

(* The fields of message number of count.                                  *)
GsvData(from, number, count) ==
  LET sats  == {n \in 1..SatsPerMessage :
                  IsPresent(from, Sat((number - 1) * SatsPerMessage + n))}
      value(n, p) == Variant("INT",
                       from[Sat((number - 1) * SatsPerMessage + n)].v[p])
      parts == [f \in {Part(n, p) : n \in sats, p \in Range(GsvParts)} |->
                  value(f[2], f[1])]
  IN Copied(from, Field("SAT_IN_VIEW"),
       Set(Set(parts, Field("MESSAGE_COUNT"), Number0(count)),
           Field("MESSAGE_NUMBER"), Number0(number)))

(* Faulty variant: a last message that is not full is not written.         *)
MessagesFull(sats) == sats \div SatsPerMessage

Messages(sats) == (sats + SatsPerMessage - 1) \div SatsPerMessage

GsvToString(k, from) ==
  LET view  == AsInt(from, Field("SAT_IN_VIEW"))
      sats  == IF view > MaxSatInView THEN MaxSatInView ELSE view
  IN IF view <= 0 THEN <<>>
     ELSE [number \in 1..Messages(sats) |->
             ToString(k, GsvData(from, number, Messages(sats)))]

(* NMEA::generate, with the formats that have a bit in its mask.           *)
Generated ==
  << Chain[1], Chain[2], Chain[4], Kind("RMC", "GPRMC", RMC),
     Kind("GLL", "GPGLL", GLL) >>

Written(k, from) ==
  IF k.id = "GSV" THEN GsvToString(k, from) ELSE << ToString(k, from) >>

Generate(from) ==
  Written(Generated[1], from) \o Written(Generated[2], from)
    \o Written(Generated[3], from) \o Written(Generated[4], from)
    \o Written(Generated[5], from)
=============================================================================
