------------------------------ MODULE NmeaData ------------------------------
(***************************************************************************)
(* The NMEA library (spi/utils/nmea): the fields a receiver talks about,   *)
(* the formats that say which field each token of a sentence holds, and    *)
(* how the tokens of a sentence are merged into a set of fields and fields *)
(* are written out again.                                                  *)
(*                                                                         *)
(* A token is known by its length and by what it says: v.means is the      *)
(* field the sender meant by it, v.epoch when, v.n the number that counts  *)
(* here (a count, a quality, hundredths of a second, 1 for north or east). *)
(***************************************************************************)
EXTENDS Integers, Sequences, Functions

CONSTANTS
  SatsPerMessage,  \* SAT_IN_MESSAGE
  MaxGsvMessages,  \* MAX_GSV_MESSAGES
  MaxSatInUse      \* MAX_SAT_IN_USE

ASSUME NmeaDataAssumption ==
  /\ SatsPerMessage \in Nat \ {0}
  /\ MaxGsvMessages \in Nat \ {0}
  /\ MaxSatInUse \in Nat \ {0}

MaxSatInView == MaxGsvMessages * SatsPerMessage

-----------------------------------------------------------------------------
(* Fields.  A field of a kind of which there are several has a number.     *)

Field(name) == <<name, 0>>
InUse(i) == <<"SAT_IN_USE", i>>
Sat(i) == <<"SATELLITE", i>>
Part(n, part) == <<part, n>>

GsvParts == <<"PRN", "ELV", "AZM", "SNR">>

(* A format is a sequence of fields, each with the token it is written as. *)
field(f, token) == [field |-> f, token |-> token]

Named(names) ==
  [i \in 1..Len(names) |-> field(Field(names[i][1]), names[i][2])]

GGA ==
  Named(<< <<"TIME", "time">>, <<"LATITUDE", "float">>,
           <<"LATITUDE_NS", "char">>, <<"LONGITUDE", "float">>,
           <<"LONGITUDE_EW", "char">>, <<"FIX_QUALITY", "int">>,
           <<"SAT_IN_USE_COUNT", "int">>, <<"HDOP", "float">>,
           <<"ALTITUDE", "float">>, <<"ALTITUDE_UNITS", "char">>,
           <<"DIFF", "float">>, <<"DIFF_UNITS", "char">>,
           <<"DGPS_TIME", "float">>, <<"DGPS_ID", "int">> >>)

GSABegin ==
  Named(<< <<"FIX_MODE", "char">>, <<"FIX_TYPE", "int">> >>)
    \o [i \in 1..MaxSatInUse |-> field(InUse(i), "int")]

GSA ==
  GSABegin \o Named(<< <<"PDOP", "float">>, <<"HDOP", "float">>,
                       <<"VDOP", "float">> >>)

GSA1 ==
  GSABegin \o Named(<< <<"GSA_UNKNOWN_1", "int">>, <<"PDOP", "float">>,
                       <<"HDOP", "float">>, <<"VDOP", "float">> >>)

RMC ==
  Named(<< <<"TIME", "time">>, <<"STATUS", "char">>, <<"LATITUDE", "float">>,
           <<"LATITUDE_NS", "char">>, <<"LONGITUDE", "float">>,
           <<"LONGITUDE_EW", "char">>, <<"SPEED", "float">>,
           <<"DIRECTION", "float">>, <<"DATE", "date">>,
           <<"DECLINATION", "float">>, <<"DECLINATION_EW", "char">> >>)

RMC1 == RMC \o Named(<< <<"FIX_MODE_INDICATOR", "char">> >>)

GLL ==
  Named(<< <<"LATITUDE", "float">>, <<"LATITUDE_NS", "char">>,
           <<"LONGITUDE", "float">>, <<"LONGITUDE_EW", "char">>,
           <<"TIME", "time">>, <<"STATUS", "char">> >>)

GsvHeader ==
  Named(<< <<"MESSAGE_COUNT", "int">>, <<"MESSAGE_NUMBER", "int">>,
           <<"SAT_IN_VIEW", "int">> >>)

(* A message that describes n satellites.                                  *)
GSV(n) ==
  GsvHeader \o
  [i \in 1..(Len(GsvParts) * n) |->
     field(Part((i - 1) \div Len(GsvParts) + 1,
                GsvParts[((i - 1) % Len(GsvParts)) + 1]), "int")]

(* The formats in the order in which they are tried: a full GSV first, the *)
(* incomplete ones after it.                                               *)
Kind(id, head, format) == [id |-> id, head |-> head, format |-> format]

Chain ==
  << Kind("GGA", "GPGGA", GGA), Kind("GSA", "GPGSA", GSA),
     Kind("GSA", "GPGSA", GSA1),
     Kind("GSV", "GPGSV", GSV(SatsPerMessage)) >>
  \o [n \in 1..(SatsPerMessage - 1) |-> Kind("GSV", "GPGSV", GSV(n))]
  \o << Kind("RMC", "GPRMC", RMC), Kind("RMC", "GPRMC", RMC1),
        Kind("GLL", "GPGLL", GLL) >>

-----------------------------------------------------------------------------
(* Values (Variant) and sets of fields (Dataset).                          *)

Variant(type, v) == [type |-> type, v |-> v]

NoData == [f \in {} |-> 0]

IsPresent(d, f) == f \in DOMAIN d

(* An absent field reads as zero.                                          *)
AsInt(d, f) == IF IsPresent(d, f) THEN d[f].v.n ELSE 0

Set(d, f, value) ==
  [g \in DOMAIN d \union {f} |-> IF g = f THEN value ELSE d[g]]

Remove(d, fs) == Restrict(d, DOMAIN d \ fs)

Copied(from, f, to) ==
  IF IsPresent(from, f) THEN Set(to, f, from[f]) ELSE Remove(to, {f})

-----------------------------------------------------------------------------
(* Tokens.                                                                 *)

NoValue == [means |-> <<"none", 0>>, epoch |-> 0, n |-> 0]
EmptyToken == [length |-> 0, number |-> FALSE, nan |-> FALSE, v |-> NoValue]

Type(token) ==
  CASE token = "int"   -> "INT"
    [] token = "float" -> "DOUBLE"
    [] token = "char"  -> "CHAR"
    [] token = "time"  -> "TIME"
    [] token = "date"  -> "DATE"

(* What a token takes: numbers are not looked at, but for "nan".           *)
Parses(token, t) ==
  CASE token = "int"   -> TRUE
    [] token = "float" -> ~t.nan
    [] token = "char"  -> t.length = 1
    [] token = "time"  -> t.length \in 6..10
    [] token = "date"  -> t.length = 6

(* The hundredths in "hhmmss.s", "hhmmss.ss" and "hhmmss.sss"; those of    *)
(* "hhmmss" are never assigned and are whatever the stack held.            *)
Hundredths(t, junk) ==
  CASE t.length = 6  -> junk
    [] t.length = 8  -> t.v.n * 10
    [] t.length = 9  -> t.v.n
    [] t.length = 10 -> t.v.n \div 10

ValueOf(token, t, junk) ==
  Variant(Type(token),
    CASE token \in {"int", "float"} ->
           [t.v EXCEPT !.n = IF t.number THEN t.v.n ELSE 0]
      [] token = "time" -> [t.v EXCEPT !.n = Hundredths(t, junk)]
      [] OTHER -> t.v)

(* Hundredths below 10 are taken for tenths, above 99 for thousandths.     *)
PrintedHundredths(n) ==
  IF n \in 1..9 THEN n * 10 ELSE IF n >= 100 THEN n \div 10 ELSE n

ToText(token, value) ==
  [length |-> CASE token = "char" -> 1 [] token = "time" -> 9
                [] token = "date" -> 6 [] OTHER -> 2,
   number |-> token \in {"int", "float"}, nan |-> FALSE,
   v |-> IF token = "time"
         THEN [value.v EXCEPT !.n = PrintedHundredths(@)]
         ELSE value.v]
=============================================================================
