-------------------------- MODULE NmeaMergeProofs --------------------------
(***************************************************************************)
(* Theorems about NmeaMerge, for any receiver, any sizes of the groups and *)
(* lists, and any number of epochs and damaged sentences: a field holds    *)
(* what was said of it; the parts of a fix are no more epochs apart than   *)
(* sentences have been damaged; the satellites handed out are those of the *)
(* last whole group of GSV messages; and what generate() writes of what has*)
(* been merged, parse() reads back.                                        *)
(***************************************************************************)
EXTENDS NmeaMerge, FiniteSetTheorems, WellFoundedInduction, TLAPS

-----------------------------------------------------------------------------
(* Lists: functions on the first numbers.                                  *)

IsList(s, n) == n \in Nat /\ s = [i \in 1..n |-> s[i]]

(* The list r is s, of n elements, and then t, of m elements.              *)
Joins(r, s, n, t, m) ==
  /\ IsList(r, n + m)
  /\ \A i \in 1..n : r[i] = s[i]
  /\ \A i \in 1..m : r[n + i] = t[i]

LEMMA ListFacts ==
  ASSUME NEW s, NEW n, IsList(s, n)
  PROVE  Len(s) = n /\ DOMAIN s = 1..n /\ n \in Nat
<1> DEFINE S == {s[i] : i \in 1..n}
<1>0. n \in Nat
  BY DEF IsList
<1>1. s \in [1..n -> S]
  BY DEF IsList
<1> HIDE DEF S
<1>2. s \in Seq(S)
  BY <1>0, <1>1
<1> QED
  BY <1>0, <1>1, <1>2

LEMMA SeqIsList ==
  ASSUME NEW S, NEW s \in Seq(S), NEW n, Len(s) = n
  PROVE  IsList(s, n)
<1>1. n \in Nat
  OBVIOUS
<1>2. s \in [1..n -> S]
  OBVIOUS
<1> QED
  BY <1>1, <1>2 DEF IsList

LEMMA ConcatIs ==
  ASSUME NEW s, NEW n, NEW t, NEW m, IsList(s, n), IsList(t, m)
  PROVE  Joins(s \o t, s, n, t, m)
<1> DEFINE S == {s[i] : i \in 1..n} \union {t[i] : i \in 1..m}
<1>0. n \in Nat /\ m \in Nat
  BY DEF IsList
<1>1. s \in [1..n -> S] /\ t \in [1..m -> S]
  BY DEF IsList
<1> HIDE DEF S
<1>2. s \in Seq(S) /\ t \in Seq(S) /\ Len(s) = n /\ Len(t) = m
  BY <1>0, <1>1
<1>3. s \o t \in Seq(S) /\ Len(s \o t) = n + m
  BY <1>0, <1>2
<1>4. IsList(s \o t, n + m)
  BY <1>3, SeqIsList, Zenon
<1>5. \A i \in 1..n : (s \o t)[i] = s[i]
  BY <1>0, <1>2
<1>6. \A i \in 1..m : (s \o t)[n + i] = t[i]
  BY <1>0, <1>2
<1> QED
  BY <1>4, <1>5, <1>6, Zenon DEF Joins

-----------------------------------------------------------------------------
(* Formats, and what a receiver sends in their places.                     *)

(* A token of this kind makes a value of the type the field is read as.    *)
Typed(f, token) ==
  /\ token \in {"int", "float", "char", "time", "date"}
  /\ Type(token) = GetterType(f)
  /\ f[1] # "SATELLITE"

(* The fields a format has a token for.                                    *)
FieldsOf(format) == {format[i].field : i \in DOMAIN format}

(* The n tokens of a format are of the fields L, each of a type that fits. *)
Fits(format, L, n) ==
  /\ IsList(format, n) /\ IsList(L, n)
  /\ \A i \in 1..n : format[i].field = L[i]
                     /\ Typed(format[i].field, format[i].token)

Fields(names) == {Field(name) : name \in names}

(* A format written as pairs, and a layout written as names.               *)
NamesFit(pairs, names, n, S) ==
  /\ n \in Nat /\ Len(pairs) = n /\ Len(names) = n
  /\ \A i \in 1..n : /\ pairs[i][1] = names[i]
                     /\ Typed(Field(pairs[i][1]), pairs[i][2])
                     /\ names[i] \in S
  /\ \A name \in S : \E i \in 1..n : names[i] = name

LEMMA NamedFits ==
  ASSUME NEW pairs, NEW names, NEW n, NEW S, NamesFit(pairs, names, n, S)
  PROVE  /\ Fits(Named(pairs), Plain(names), n)
         /\ FieldsOf(Named(pairs)) = Fields(S)
<1>0. n \in Nat /\ Len(pairs) = n /\ Len(names) = n
  BY DEF NamesFit
<1>1. /\ IsList(Named(pairs), n) /\ IsList(Plain(names), n)
      /\ DOMAIN Named(pairs) = 1..n
      /\ \A i \in 1..n : /\ Plain(names)[i] = Field(names[i])
                         /\ Named(pairs)[i].field = Field(pairs[i][1])
                         /\ Named(pairs)[i].token = pairs[i][2]
  BY <1>0 DEF Named, Plain, field, IsList
<1>2. Fits(Named(pairs), Plain(names), n)
  <2>1. \A i \in 1..n : /\ Named(pairs)[i].field = Plain(names)[i]
                         /\ Typed(Named(pairs)[i].field,
                                  Named(pairs)[i].token)
    <3>1. \A i \in 1..n : pairs[i][1] = names[i]
                           /\ Typed(Field(pairs[i][1]), pairs[i][2])
      BY Zenon DEF NamesFit
    <3> QED
      BY <1>1, <3>1
  <2> QED
    BY <1>1, <2>1, Zenon DEF Fits
<1>3. \A i \in 1..n : Named(pairs)[i].field = Field(names[i])
                      /\ names[i] \in S
  BY <1>1, Zenon DEF NamesFit
<1>4. \A name \in S : \E i \in 1..n : names[i] = name
  BY Zenon DEF NamesFit
<1>5. FieldsOf(Named(pairs)) = Fields(S)
  BY <1>1, <1>3, <1>4 DEF FieldsOf, Fields
<1> QED
  BY <1>2, <1>5

LEMMA TypesOfNames ==
  /\ Typed(Field("TIME"), "time") /\ Typed(Field("LATITUDE"), "float")
  /\ Typed(Field("LATITUDE_NS"), "char") /\ Typed(Field("LONGITUDE"), "float")
  /\ Typed(Field("LONGITUDE_EW"), "char")
  /\ Typed(Field("FIX_QUALITY"), "int")
  /\ Typed(Field("SAT_IN_USE_COUNT"), "int") /\ Typed(Field("HDOP"), "float")
  /\ Typed(Field("ALTITUDE"), "float")
  /\ Typed(Field("ALTITUDE_UNITS"), "char")
  /\ Typed(Field("DIFF"), "float") /\ Typed(Field("DIFF_UNITS"), "char")
  /\ Typed(Field("DGPS_TIME"), "float") /\ Typed(Field("DGPS_ID"), "int")
  /\ Typed(Field("FIX_MODE"), "char") /\ Typed(Field("FIX_TYPE"), "int")
  /\ Typed(Field("GSA_UNKNOWN_1"), "int") /\ Typed(Field("PDOP"), "float")
  /\ Typed(Field("VDOP"), "float") /\ Typed(Field("STATUS"), "char")
  /\ Typed(Field("SPEED"), "float") /\ Typed(Field("DIRECTION"), "float")
  /\ Typed(Field("DATE"), "date") /\ Typed(Field("DECLINATION"), "float")
  /\ Typed(Field("DECLINATION_EW"), "char")
  /\ Typed(Field("FIX_MODE_INDICATOR"), "char")
  /\ \A i : Typed(InUse(i), "int")
  BY DEF Typed, Type, GetterType, Field, InUse, CharNames

GgaNames ==
  {"TIME", "LATITUDE", "LATITUDE_NS", "LONGITUDE", "LONGITUDE_EW",
   "FIX_QUALITY", "SAT_IN_USE_COUNT", "HDOP", "ALTITUDE", "ALTITUDE_UNITS",
   "DIFF", "DIFF_UNITS", "DGPS_TIME", "DGPS_ID"}

LEMMA GgaFits ==
  LET pairs ==
           << <<"TIME", "time">>, <<"LATITUDE", "float">>,
              <<"LATITUDE_NS", "char">>, <<"LONGITUDE", "float">>,
              <<"LONGITUDE_EW", "char">>, <<"FIX_QUALITY", "int">>,
              <<"SAT_IN_USE_COUNT", "int">>, <<"HDOP", "float">>,
              <<"ALTITUDE", "float">>, <<"ALTITUDE_UNITS", "char">>,
              <<"DIFF", "float">>, <<"DIFF_UNITS", "char">>,
              <<"DGPS_TIME", "float">>, <<"DGPS_ID", "int">> >>
      names ==
           <<"TIME", "LATITUDE", "LATITUDE_NS", "LONGITUDE", "LONGITUDE_EW",
             "FIX_QUALITY", "SAT_IN_USE_COUNT", "HDOP", "ALTITUDE",
             "ALTITUDE_UNITS", "DIFF", "DIFF_UNITS", "DGPS_TIME", "DGPS_ID">>
  IN  Fits(Named(pairs), Plain(names), 14)
      /\ FieldsOf(Named(pairs)) = Fields(GgaNames)
<1> DEFINE pairs ==
           << <<"TIME", "time">>, <<"LATITUDE", "float">>,
              <<"LATITUDE_NS", "char">>, <<"LONGITUDE", "float">>,
              <<"LONGITUDE_EW", "char">>, <<"FIX_QUALITY", "int">>,
              <<"SAT_IN_USE_COUNT", "int">>, <<"HDOP", "float">>,
              <<"ALTITUDE", "float">>, <<"ALTITUDE_UNITS", "char">>,
              <<"DIFF", "float">>, <<"DIFF_UNITS", "char">>,
              <<"DGPS_TIME", "float">>, <<"DGPS_ID", "int">> >>
           names ==
           <<"TIME", "LATITUDE", "LATITUDE_NS", "LONGITUDE", "LONGITUDE_EW",
             "FIX_QUALITY", "SAT_IN_USE_COUNT", "HDOP", "ALTITUDE",
             "ALTITUDE_UNITS", "DIFF", "DIFF_UNITS", "DGPS_TIME", "DGPS_ID">>
<1>1. Len(pairs) = 14 /\ Len(names) = 14
  OBVIOUS
<1>2. \A i \in 1..14 : pairs[i][1] = names[i]
  OBVIOUS
<1>3. \A i \in 1..14 : Typed(Field(pairs[i][1]), pairs[i][2])
  BY TypesOfNames
<1>4. \A i \in 1..14 : names[i] \in GgaNames
  BY DEF GgaNames
<1>5. \A name \in GgaNames : \E i \in 1..14 : names[i] = name
  BY DEF GgaNames
<1> HIDE DEF pairs, names
<1>6. NamesFit(pairs, names, 14, GgaNames)
  BY <1>1, <1>2, <1>3, <1>4, <1>5 DEF NamesFit
<1>7. Fits(Named(pairs), Plain(names), 14)
      /\ FieldsOf(Named(pairs)) = Fields(GgaNames)
  BY <1>6, NamedFits, Zenon
<1> QED
  BY <1>7, Zenon DEF pairs, names

RmcNames ==
  {"TIME", "STATUS", "LATITUDE", "LATITUDE_NS", "LONGITUDE", "LONGITUDE_EW",
   "SPEED", "DIRECTION", "DATE", "DECLINATION", "DECLINATION_EW"}

LEMMA RmcFits ==
  LET pairs ==
           << <<"TIME", "time">>, <<"STATUS", "char">>,
              <<"LATITUDE", "float">>, <<"LATITUDE_NS", "char">>,
              <<"LONGITUDE", "float">>, <<"LONGITUDE_EW", "char">>,
              <<"SPEED", "float">>, <<"DIRECTION", "float">>,
              <<"DATE", "date">>, <<"DECLINATION", "float">>,
              <<"DECLINATION_EW", "char">> >>
      names ==
           <<"TIME", "STATUS", "LATITUDE", "LATITUDE_NS", "LONGITUDE",
             "LONGITUDE_EW", "SPEED", "DIRECTION", "DATE", "DECLINATION",
             "DECLINATION_EW">>
  IN  Fits(Named(pairs), Plain(names), 11)
      /\ FieldsOf(Named(pairs)) = Fields(RmcNames)
<1> DEFINE pairs ==
           << <<"TIME", "time">>, <<"STATUS", "char">>,
              <<"LATITUDE", "float">>, <<"LATITUDE_NS", "char">>,
              <<"LONGITUDE", "float">>, <<"LONGITUDE_EW", "char">>,
              <<"SPEED", "float">>, <<"DIRECTION", "float">>,
              <<"DATE", "date">>, <<"DECLINATION", "float">>,
              <<"DECLINATION_EW", "char">> >>
           names ==
           <<"TIME", "STATUS", "LATITUDE", "LATITUDE_NS", "LONGITUDE",
             "LONGITUDE_EW", "SPEED", "DIRECTION", "DATE", "DECLINATION",
             "DECLINATION_EW">>
<1>1. Len(pairs) = 11 /\ Len(names) = 11
  OBVIOUS
<1>2. \A i \in 1..11 : pairs[i][1] = names[i]
  OBVIOUS
<1>3. \A i \in 1..11 : Typed(Field(pairs[i][1]), pairs[i][2])
  BY TypesOfNames
<1>4. \A i \in 1..11 : names[i] \in RmcNames
  BY DEF RmcNames
<1>5. \A name \in RmcNames : \E i \in 1..11 : names[i] = name
  BY DEF RmcNames
<1> HIDE DEF pairs, names
<1>6. NamesFit(pairs, names, 11, RmcNames)
  BY <1>1, <1>2, <1>3, <1>4, <1>5 DEF NamesFit
<1>7. Fits(Named(pairs), Plain(names), 11)
      /\ FieldsOf(Named(pairs)) = Fields(RmcNames)
  BY <1>6, NamedFits, Zenon
<1> QED
  BY <1>7, Zenon DEF pairs, names

ModeNames ==
  {"FIX_MODE_INDICATOR"}

LEMMA ModeFits ==
  LET pairs ==
           << <<"FIX_MODE_INDICATOR", "char">> >>
      names ==
           <<"FIX_MODE_INDICATOR">>
  IN  Fits(Named(pairs), Plain(names), 1)
      /\ FieldsOf(Named(pairs)) = Fields(ModeNames)
<1> DEFINE pairs ==
           << <<"FIX_MODE_INDICATOR", "char">> >>
           names ==
           <<"FIX_MODE_INDICATOR">>
<1>1. Len(pairs) = 1 /\ Len(names) = 1
  OBVIOUS
<1>2. \A i \in 1..1 : pairs[i][1] = names[i]
  OBVIOUS
<1>3. \A i \in 1..1 : Typed(Field(pairs[i][1]), pairs[i][2])
  BY TypesOfNames
<1>4. \A i \in 1..1 : names[i] \in ModeNames
  BY DEF ModeNames
<1>5. \A name \in ModeNames : \E i \in 1..1 : names[i] = name
  BY DEF ModeNames
<1> HIDE DEF pairs, names
<1>6. NamesFit(pairs, names, 1, ModeNames)
  BY <1>1, <1>2, <1>3, <1>4, <1>5 DEF NamesFit
<1>7. Fits(Named(pairs), Plain(names), 1)
      /\ FieldsOf(Named(pairs)) = Fields(ModeNames)
  BY <1>6, NamedFits, Zenon
<1> QED
  BY <1>7, Zenon DEF pairs, names

GllNames ==
  {"LATITUDE", "LATITUDE_NS", "LONGITUDE", "LONGITUDE_EW", "TIME", "STATUS"}

LEMMA GllFits ==
  LET pairs ==
           << <<"LATITUDE", "float">>, <<"LATITUDE_NS", "char">>,
              <<"LONGITUDE", "float">>, <<"LONGITUDE_EW", "char">>,
              <<"TIME", "time">>, <<"STATUS", "char">> >>
      names ==
           <<"LATITUDE", "LATITUDE_NS", "LONGITUDE", "LONGITUDE_EW", "TIME",
             "STATUS">>
  IN  Fits(Named(pairs), Plain(names), 6)
      /\ FieldsOf(Named(pairs)) = Fields(GllNames)
<1> DEFINE pairs ==
           << <<"LATITUDE", "float">>, <<"LATITUDE_NS", "char">>,
              <<"LONGITUDE", "float">>, <<"LONGITUDE_EW", "char">>,
              <<"TIME", "time">>, <<"STATUS", "char">> >>
           names ==
           <<"LATITUDE", "LATITUDE_NS", "LONGITUDE", "LONGITUDE_EW", "TIME",
             "STATUS">>
<1>1. Len(pairs) = 6 /\ Len(names) = 6
  OBVIOUS
<1>2. \A i \in 1..6 : pairs[i][1] = names[i]
  OBVIOUS
<1>3. \A i \in 1..6 : Typed(Field(pairs[i][1]), pairs[i][2])
  BY TypesOfNames
<1>4. \A i \in 1..6 : names[i] \in GllNames
  BY DEF GllNames
<1>5. \A name \in GllNames : \E i \in 1..6 : names[i] = name
  BY DEF GllNames
<1> HIDE DEF pairs, names
<1>6. NamesFit(pairs, names, 6, GllNames)
  BY <1>1, <1>2, <1>3, <1>4, <1>5 DEF NamesFit
<1>7. Fits(Named(pairs), Plain(names), 6)
      /\ FieldsOf(Named(pairs)) = Fields(GllNames)
  BY <1>6, NamedFits, Zenon
<1> QED
  BY <1>7, Zenon DEF pairs, names

GsaBeginNames ==
  {"FIX_MODE", "FIX_TYPE"}

LEMMA GsaBeginFits ==
  LET pairs ==
           << <<"FIX_MODE", "char">>, <<"FIX_TYPE", "int">> >>
      names ==
           <<"FIX_MODE", "FIX_TYPE">>
  IN  Fits(Named(pairs), Plain(names), 2)
      /\ FieldsOf(Named(pairs)) = Fields(GsaBeginNames)
<1> DEFINE pairs ==
           << <<"FIX_MODE", "char">>, <<"FIX_TYPE", "int">> >>
           names ==
           <<"FIX_MODE", "FIX_TYPE">>
<1>1. Len(pairs) = 2 /\ Len(names) = 2
  OBVIOUS
<1>2. \A i \in 1..2 : pairs[i][1] = names[i]
  OBVIOUS
<1>3. \A i \in 1..2 : Typed(Field(pairs[i][1]), pairs[i][2])
  BY TypesOfNames
<1>4. \A i \in 1..2 : names[i] \in GsaBeginNames
  BY DEF GsaBeginNames
<1>5. \A name \in GsaBeginNames : \E i \in 1..2 : names[i] = name
  BY DEF GsaBeginNames
<1> HIDE DEF pairs, names
<1>6. NamesFit(pairs, names, 2, GsaBeginNames)
  BY <1>1, <1>2, <1>3, <1>4, <1>5 DEF NamesFit
<1>7. Fits(Named(pairs), Plain(names), 2)
      /\ FieldsOf(Named(pairs)) = Fields(GsaBeginNames)
  BY <1>6, NamedFits, Zenon
<1> QED
  BY <1>7, Zenon DEF pairs, names

GsaEndNames ==
  {"PDOP", "HDOP", "VDOP"}

LEMMA GsaEndFits ==
  LET pairs ==
           << <<"PDOP", "float">>, <<"HDOP", "float">>,
              <<"VDOP", "float">> >>
      names ==
           <<"PDOP", "HDOP", "VDOP">>
  IN  Fits(Named(pairs), Plain(names), 3)
      /\ FieldsOf(Named(pairs)) = Fields(GsaEndNames)
<1> DEFINE pairs ==
           << <<"PDOP", "float">>, <<"HDOP", "float">>,
              <<"VDOP", "float">> >>
           names ==
           <<"PDOP", "HDOP", "VDOP">>
<1>1. Len(pairs) = 3 /\ Len(names) = 3
  OBVIOUS
<1>2. \A i \in 1..3 : pairs[i][1] = names[i]
  OBVIOUS
<1>3. \A i \in 1..3 : Typed(Field(pairs[i][1]), pairs[i][2])
  BY TypesOfNames
<1>4. \A i \in 1..3 : names[i] \in GsaEndNames
  BY DEF GsaEndNames
<1>5. \A name \in GsaEndNames : \E i \in 1..3 : names[i] = name
  BY DEF GsaEndNames
<1> HIDE DEF pairs, names
<1>6. NamesFit(pairs, names, 3, GsaEndNames)
  BY <1>1, <1>2, <1>3, <1>4, <1>5 DEF NamesFit
<1>7. Fits(Named(pairs), Plain(names), 3)
      /\ FieldsOf(Named(pairs)) = Fields(GsaEndNames)
  BY <1>6, NamedFits, Zenon
<1> QED
  BY <1>7, Zenon DEF pairs, names

Gsa1EndNames ==
  {"GSA_UNKNOWN_1", "PDOP", "HDOP", "VDOP"}

LEMMA Gsa1EndFits ==
  LET pairs ==
           << <<"GSA_UNKNOWN_1", "int">>, <<"PDOP", "float">>,
              <<"HDOP", "float">>, <<"VDOP", "float">> >>
      names ==
           <<"GSA_UNKNOWN_1", "PDOP", "HDOP", "VDOP">>
  IN  Fits(Named(pairs), Plain(names), 4)
      /\ FieldsOf(Named(pairs)) = Fields(Gsa1EndNames)
<1> DEFINE pairs ==
           << <<"GSA_UNKNOWN_1", "int">>, <<"PDOP", "float">>,
              <<"HDOP", "float">>, <<"VDOP", "float">> >>
           names ==
           <<"GSA_UNKNOWN_1", "PDOP", "HDOP", "VDOP">>
<1>1. Len(pairs) = 4 /\ Len(names) = 4
  OBVIOUS
<1>2. \A i \in 1..4 : pairs[i][1] = names[i]
  OBVIOUS
<1>3. \A i \in 1..4 : Typed(Field(pairs[i][1]), pairs[i][2])
  BY TypesOfNames
<1>4. \A i \in 1..4 : names[i] \in Gsa1EndNames
  BY DEF Gsa1EndNames
<1>5. \A name \in Gsa1EndNames : \E i \in 1..4 : names[i] = name
  BY DEF Gsa1EndNames
<1> HIDE DEF pairs, names
<1>6. NamesFit(pairs, names, 4, Gsa1EndNames)
  BY <1>1, <1>2, <1>3, <1>4, <1>5 DEF NamesFit
<1>7. Fits(Named(pairs), Plain(names), 4)
      /\ FieldsOf(Named(pairs)) = Fields(Gsa1EndNames)
  BY <1>6, NamedFits, Zenon
<1> QED
  BY <1>7, Zenon DEF pairs, names

-----------------------------------------------------------------------------
(* The formats of the sentences, and which of them a receiver's are.       *)

LEMMA FitsJoined ==
  ASSUME NEW F, NEW G, NEW K, NEW L, NEW n, NEW m,
         Fits(F, K, n), Fits(G, L, m)
  PROVE  /\ Fits(F \o G, K \o L, n + m)
         /\ FieldsOf(F \o G) = FieldsOf(F) \union FieldsOf(G)
<1> DEFINE r == F \o G
           q == K \o L
<1>0. /\ IsList(F, n) /\ IsList(G, m) /\ IsList(K, n) /\ IsList(L, m)
      /\ \A i \in 1..n : F[i].field = K[i] /\ Typed(F[i].field, F[i].token)
      /\ \A i \in 1..m : G[i].field = L[i] /\ Typed(G[i].field, G[i].token)
  BY DEF Fits
<1>1. Joins(r, F, n, G, m) /\ Joins(q, K, n, L, m)
  BY <1>0, ConcatIs, Zenon
<1> HIDE DEF r, q
<1>2. n \in Nat /\ m \in Nat /\ DOMAIN F = 1..n /\ DOMAIN G = 1..m
  BY <1>0, ListFacts
<1>3. /\ IsList(r, n + m) /\ IsList(q, n + m)
      /\ \A i \in 1..n : r[i] = F[i] /\ q[i] = K[i]
      /\ \A i \in 1..m : r[n + i] = G[i] /\ q[n + i] = L[i]
  BY <1>1 DEF Joins
<1>4. DOMAIN r = 1..(n + m)
  BY <1>3, ListFacts
<1>5. \A i \in 1..(n + m) : i \in 1..n \/ \E j \in 1..m : i = n + j
  <2> TAKE i \in 1..(n + m)
  <2>1. i \in 1..n \/ (i - n \in 1..m /\ i = n + (i - n))
    BY <1>2
  <2> QED
    BY <2>1
<1>6. \A i \in 1..(n + m) : r[i].field = q[i]
                            /\ Typed(r[i].field, r[i].token)
  BY <1>0, <1>3, <1>5
<1>7. Fits(r, q, n + m)
  BY <1>3, <1>6, Zenon DEF Fits
<1>8. \A i \in 1..m : n + i \in 1..(n + m)
  BY <1>2
<1>9. 1..n \subseteq 1..(n + m)
  BY <1>2
<1>10. FieldsOf(r) = FieldsOf(F) \union FieldsOf(G)
  <2>1. \A i \in DOMAIN r : r[i].field \in FieldsOf(F) \union FieldsOf(G)
    <3> TAKE i \in DOMAIN r
    <3>1. CASE i \in 1..n
      BY <1>2, <1>3, <3>1 DEF FieldsOf
    <3>2. ASSUME NEW j \in 1..m, i = n + j
          PROVE  r[i].field \in FieldsOf(F) \union FieldsOf(G)
      BY <1>2, <1>3, <3>2 DEF FieldsOf
    <3> QED
      BY <1>4, <1>5, <3>1, <3>2
  <2>2. \A i \in DOMAIN F : F[i].field \in FieldsOf(r)
    BY <1>2, <1>3, <1>4, <1>9 DEF FieldsOf
  <2>3. \A i \in DOMAIN G : G[i].field \in FieldsOf(r)
    BY <1>2, <1>3, <1>4, <1>8 DEF FieldsOf
  <2> QED
    BY <2>1, <2>2, <2>3, Zenon DEF FieldsOf
<1> QED
  BY <1>7, <1>10 DEF r, q

LEMMA FitsAndNothing ==
  ASSUME NEW F, NEW L, NEW n, Fits(F, L, n)
  PROVE  Fits(F, L \o Plain(<<>>), n)
<1> DEFINE no == Plain(<<>>)
           r == L \o no
<1>0. IsList(F, n) /\ IsList(L, n)
  BY DEF Fits
<1>1. IsList(no, 0)
  BY DEF Plain, IsList
<1> HIDE DEF no
<1>2. Joins(r, L, n, no, 0)
  BY <1>0, <1>1, ConcatIs, Zenon
<1> HIDE DEF r
<1>3. n + 0 = n
  BY <1>0, ListFacts
<1>4. IsList(r, n) /\ \A i \in 1..n : r[i] = L[i]
  BY <1>2, <1>3, Zenon DEF Joins
<1>5. \A i \in 1..n : F[i].field = L[i] /\ Typed(F[i].field, F[i].token)
  BY DEF Fits
<1>6. \A i \in 1..n : F[i].field = r[i] /\ Typed(F[i].field, F[i].token)
  BY <1>4, <1>5
<1> QED
  BY <1>0, <1>4, <1>6, Zenon DEF Fits, r, no

InUses == {InUse(i) : i \in 1..MaxSatInUse}

LEMMA InUseFits ==
  LET format == [i \in 1..MaxSatInUse |-> field(InUse(i), "int")]
  IN  Fits(format, InUseNames, MaxSatInUse) /\ FieldsOf(format) = InUses
<1> DEFINE format == [i \in 1..MaxSatInUse |-> field(InUse(i), "int")]
<1>1. MaxSatInUse \in Nat
  BY NmeaDataAssumption
<1>2. IsList(format, MaxSatInUse) /\ IsList(InUseNames, MaxSatInUse)
  BY <1>1 DEF IsList, InUseNames
<1>3. \A i \in 1..MaxSatInUse : /\ format[i].field = InUse(i)
                                /\ format[i].token = "int"
                                /\ InUseNames[i] = InUse(i)
  BY DEF field, InUseNames
<1>4. DOMAIN format = 1..MaxSatInUse
  OBVIOUS
<1> HIDE DEF format
<1>5. Fits(format, InUseNames, MaxSatInUse)
  BY <1>2, <1>3, TypesOfNames DEF Fits
<1>6. FieldsOf(format) = InUses
  BY <1>3, <1>4 DEF FieldsOf, InUses
<1> QED
  BY <1>5, <1>6 DEF format

GsaNames(S) == Fields(GsaBeginNames) \union InUses \union Fields(S)

(* Which format each kind of sentence of the receiver has.                 *)
FormatOf(id) ==
  CASE id = "GGA" -> GGA
    [] id = "GSA" -> IF dialect.gsa1 THEN GSA1 ELSE GSA
    [] id = "RMC" -> IF dialect.rmc1 THEN RMC1 ELSE RMC
    [] id = "GLL" -> GLL

LengthOf(id) ==
  CASE id = "GGA" -> 14
    [] id = "GSA" -> IF dialect.gsa1 THEN MaxSatInUse + 6 ELSE MaxSatInUse + 5
    [] id = "RMC" -> IF dialect.rmc1 THEN 12 ELSE 11
    [] id = "GLL" -> 6


(* The sentences of a receiver but for GSV have the tokens of a format.    *)
LEMMA LayoutFits ==
  ASSUME dialect.gsa1 \in BOOLEAN, dialect.rmc1 \in BOOLEAN,
         NEW id \in {"GGA", "GSA", "RMC", "GLL"}
  PROVE  Fits(FormatOf(id), Layout(id), LengthOf(id))
<1>1. CASE id = "GGA"
  <2>1. Layout("GGA") =
          Plain(<<"TIME", "LATITUDE", "LATITUDE_NS", "LONGITUDE",
                 "LONGITUDE_EW", "FIX_QUALITY", "SAT_IN_USE_COUNT", "HDOP",
                 "ALTITUDE", "ALTITUDE_UNITS", "DIFF", "DIFF_UNITS",
                 "DGPS_TIME", "DGPS_ID">>)
    BY DEF Layout
  <2>2. Fits(GGA, Layout("GGA"), 14)
    BY <2>1, GgaFits, Zenon DEF GGA
  <2>3. FormatOf(id) = GGA /\ LengthOf(id) = 14
    BY <1>1 DEF FormatOf, LengthOf
  <2> QED
    BY <1>1, <2>2, <2>3, Zenon
<1>2. CASE id = "GLL"
  <2>1. Layout("GLL") =
          Plain(<<"LATITUDE", "LATITUDE_NS", "LONGITUDE", "LONGITUDE_EW",
                 "TIME", "STATUS">>)
    BY DEF Layout
  <2>2. Fits(GLL, Layout("GLL"), 6)
    BY <2>1, GllFits, Zenon DEF GLL
  <2>3. FormatOf(id) = GLL /\ LengthOf(id) = 6
    BY <1>2 DEF FormatOf, LengthOf
  <2> QED
    BY <1>2, <2>2, <2>3, Zenon
<1>3. CASE id = "RMC"
  <2> DEFINE names ==
        <<"TIME", "STATUS", "LATITUDE", "LATITUDE_NS", "LONGITUDE",
          "LONGITUDE_EW", "SPEED", "DIRECTION", "DATE", "DECLINATION",
          "DECLINATION_EW">>
             more == <<"FIX_MODE_INDICATOR">>
             last == Named(<< <<"FIX_MODE_INDICATOR", "char">> >>)
  <2>1. Fits(RMC, Plain(names), 11)
    BY RmcFits, Zenon DEF RMC
  <2>2. Fits(last, Plain(more), 1)
    BY ModeFits, Zenon
  <2>3. Layout("RMC") = Plain(names) \o Plain(IF dialect.rmc1 THEN more
                                              ELSE <<>>)
    BY DEF Layout
  <2>4. RMC1 = RMC \o last
    BY DEF RMC1
  <2> HIDE DEF names, more, last
  <2>5. CASE dialect.rmc1
    <3>1. Layout("RMC") = Plain(names) \o Plain(more)
      BY <2>3, <2>5
    <3>2. Fits(RMC1, Layout("RMC"), 11 + 1)
      BY <2>1, <2>2, <2>4, <3>1, FitsJoined, Zenon
    <3>3. FormatOf(id) = RMC1 /\ LengthOf(id) = 11 + 1
      BY <1>3, <2>5 DEF FormatOf, LengthOf
    <3> QED
      BY <1>3, <3>2, <3>3, Zenon
  <2>6. CASE ~dialect.rmc1
    <3>1. Layout("RMC") = Plain(names) \o Plain(<<>>)
      BY <2>3, <2>6
    <3>2. Fits(RMC, Layout("RMC"), 11)
      BY <2>1, <3>1, FitsAndNothing, Zenon
    <3>3. FormatOf(id) = RMC /\ LengthOf(id) = 11
      BY <1>3, <2>6 DEF FormatOf, LengthOf
    <3> QED
      BY <1>3, <3>2, <3>3, Zenon
  <2> QED
    BY <2>5, <2>6
<1>4. CASE id = "GSA"
  <2> DEFINE m == MaxSatInUse
             begin == Plain(<<"FIX_MODE", "FIX_TYPE">>)
             with == <<"GSA_UNKNOWN_1", "PDOP", "HDOP", "VDOP">>
             without == <<"PDOP", "HDOP", "VDOP">>
             end == Named(<< <<"PDOP", "float">>, <<"HDOP", "float">>,
                             <<"VDOP", "float">> >>)
             end1 == Named(<< <<"GSA_UNKNOWN_1", "int">>,
                              <<"PDOP", "float">>, <<"HDOP", "float">>,
                              <<"VDOP", "float">> >>)
  <2>1. Fits(end, Plain(without), 3) /\ Fits(end1, Plain(with), 4)
    BY GsaEndFits, Gsa1EndFits, Zenon
  <2>2. Fits(GSABegin, begin \o InUseNames, 2 + m)
    BY GsaBeginFits, InUseFits, FitsJoined, Zenon DEF GSABegin
  <2>3. Layout("GSA") = begin \o InUseNames
                        \o Plain(IF dialect.gsa1 THEN with ELSE without)
    BY DEF Layout
  <2>4. GSA = GSABegin \o end /\ GSA1 = GSABegin \o end1
    BY DEF GSA, GSA1
  <2>5. m \in Nat
    BY NmeaDataAssumption
  <2> HIDE DEF m, begin, with, without, end, end1
  <2>6. CASE dialect.gsa1
    <3>1. Layout("GSA") = begin \o InUseNames \o Plain(with)
      BY <2>3, <2>6
    <3>2. Fits(GSA1, Layout("GSA"), (2 + m) + 4)
      BY <2>1, <2>2, <2>4, <3>1, FitsJoined, Zenon
    <3>3. FormatOf(id) = GSA1 /\ LengthOf(id) = (2 + m) + 4
      BY <1>4, <2>5, <2>6 DEF FormatOf, LengthOf, m
    <3> QED
      BY <1>4, <3>2, <3>3, Zenon
  <2>7. CASE ~dialect.gsa1
    <3>1. Layout("GSA") = begin \o InUseNames \o Plain(without)
      BY <2>3, <2>7
    <3>2. Fits(GSA, Layout("GSA"), (2 + m) + 3)
      BY <2>1, <2>2, <2>4, <3>1, FitsJoined, Zenon
    <3>3. FormatOf(id) = GSA /\ LengthOf(id) = (2 + m) + 3
      BY <1>4, <2>5, <2>7 DEF FormatOf, LengthOf, m
    <3> QED
      BY <1>4, <3>2, <3>3, Zenon
  <2> QED
    BY <2>6, <2>7
<1> QED
  BY <1>1, <1>2, <1>3, <1>4

(* The fields of each format.                                              *)
LEMMA FieldsOfFormats ==
  /\ FieldsOf(GGA) = Fields(GgaNames) /\ FieldsOf(GLL) = Fields(GllNames)
  /\ FieldsOf(RMC) = Fields(RmcNames)
  /\ FieldsOf(RMC1) = Fields(RmcNames) \union Fields(ModeNames)
  /\ FieldsOf(GSA) = GsaNames(GsaEndNames)
  /\ FieldsOf(GSA1) = GsaNames(Gsa1EndNames)
<1>1. FieldsOf(GGA) = Fields(GgaNames)
  BY GgaFits, Zenon DEF GGA
<1>2. FieldsOf(GLL) = Fields(GllNames)
  BY GllFits, Zenon DEF GLL
<1>3. FieldsOf(RMC) = Fields(RmcNames)
  BY RmcFits, Zenon DEF RMC
<1>4. FieldsOf(RMC1) = Fields(RmcNames) \union Fields(ModeNames)
  <2> DEFINE last == Named(<< <<"FIX_MODE_INDICATOR", "char">> >>)
  <2>1. PICK K, n : Fits(RMC, K, n)
    BY RmcFits, Zenon DEF RMC
  <2>2. /\ FieldsOf(last) = Fields(ModeNames)
        /\ \E L, m : Fits(last, L, m)
    BY ModeFits, Zenon
  <2>3. RMC1 = RMC \o last
    BY DEF RMC1
  <2> HIDE DEF last
  <2> QED
    BY <1>3, <2>1, <2>2, <2>3, FitsJoined, Zenon
<1>5. /\ FieldsOf(GSABegin) = Fields(GsaBeginNames) \union InUses
      /\ \E K, n : Fits(GSABegin, K, n)
  BY GsaBeginFits, InUseFits, FitsJoined, Zenon DEF GSABegin
<1>6. FieldsOf(GSA) = GsaNames(GsaEndNames)
  <2> DEFINE last == Named(<< <<"PDOP", "float">>, <<"HDOP", "float">>,
                              <<"VDOP", "float">> >>)
  <2>1. /\ FieldsOf(last) = Fields(GsaEndNames)
        /\ \E L, m : Fits(last, L, m)
    BY GsaEndFits, Zenon
  <2>2. GSA = GSABegin \o last
    BY DEF GSA
  <2> HIDE DEF last
  <2> QED
    BY <1>5, <2>1, <2>2, FitsJoined, Zenon DEF GsaNames
<1>7. FieldsOf(GSA1) = GsaNames(Gsa1EndNames)
  <2> DEFINE last == Named(<< <<"GSA_UNKNOWN_1", "int">>,
                              <<"PDOP", "float">>, <<"HDOP", "float">>,
                              <<"VDOP", "float">> >>)
  <2>1. /\ FieldsOf(last) = Fields(Gsa1EndNames)
        /\ \E L, m : Fits(last, L, m)
    BY Gsa1EndFits, Zenon
  <2>2. GSA1 = GSABegin \o last
    BY DEF GSA1
  <2> HIDE DEF last
  <2> QED
    BY <1>5, <2>1, <2>2, FitsJoined, Zenon DEF GsaNames
<1> QED
  BY <1>1, <1>2, <1>3, <1>4, <1>6, <1>7

Kinds == {"GGA", "GSA", "RMC", "GLL"}

PositionFields ==
  {Field("LATITUDE"), Field("LATITUDE_NS"), Field("LONGITUDE"),
   Field("LONGITUDE_EW")}

HeightFields ==
  {Field("ALTITUDE"), Field("ALTITUDE_UNITS"), Field("DIFF"),
   Field("DIFF_UNITS")}

FieldsIn(id) == FieldsOf(FormatOf(id))

(* Which sentences have the fields that belong together.                   *)
LEMMA FieldsInKinds ==
  ASSUME NEW id \in Kinds
  PROVE  /\ \A f \in FieldsIn(id) : f[1] # "SATELLITE"
         /\ Field("SAT_IN_VIEW") \notin FieldsIn(id)
         /\ IF id = "GSA" THEN PositionFields \cap FieldsIn(id) = {}
            ELSE PositionFields \subseteq FieldsIn(id)
         /\ IF id = "GSA" THEN InUses \subseteq FieldsIn(id)
            ELSE InUses \cap FieldsIn(id) = {}
         /\ IF id = "GGA" THEN HeightFields \subseteq FieldsIn(id)
            ELSE HeightFields \cap FieldsIn(id) = {}
         /\ Field("FIX_QUALITY") \in FieldsIn(id) <=> id = "GGA"
<1>1. CASE id = "GGA"
  <2>1. FieldsIn(id) = Fields(GgaNames)
    BY <1>1, FieldsOfFormats, Zenon DEF FieldsIn, FormatOf
  <2> QED
    BY <1>1, <2>1 DEF Fields, GgaNames, Field, InUses, InUse,
                      PositionFields, HeightFields
<1>2. CASE id = "GLL"
  <2>1. FieldsIn(id) = Fields(GllNames)
    BY <1>2, FieldsOfFormats DEF FieldsIn, FormatOf
  <2> QED
    BY <1>2, <2>1 DEF Fields, GllNames, Field, InUses, InUse,
                      PositionFields, HeightFields
<1>3. CASE id = "RMC"
  <2>1. \/ FieldsIn(id) = Fields(RmcNames)
        \/ FieldsIn(id) = Fields(RmcNames) \union Fields(ModeNames)
    BY <1>3, FieldsOfFormats DEF FieldsIn, FormatOf
  <2> QED
    BY <1>3, <2>1 DEF Fields, RmcNames, ModeNames, Field, InUses, InUse,
                      PositionFields, HeightFields
<1>4. CASE id = "GSA"
  <2>1. \/ FieldsIn(id) = GsaNames(GsaEndNames)
        \/ FieldsIn(id) = GsaNames(Gsa1EndNames)
    BY <1>4, FieldsOfFormats DEF FieldsIn, FormatOf
  <2> QED
    BY <1>4, <2>1 DEF Fields, GsaNames, GsaBeginNames, GsaEndNames,
                      Gsa1EndNames, Field, InUses, InUse,
                      PositionFields, HeightFields
<1> QED
  BY <1>1, <1>2, <1>3, <1>4 DEF Kinds

-----------------------------------------------------------------------------
(* What parsing a sentence by a format does.                               *)

(* The tokens of s say A of the fields of the format, in the kinds K.      *)
Words(format, s, A, K) ==
  \A i \in DOMAIN format : /\ TokenAt(s, i) = A[format[i].field]
                           /\ format[i].token = K[format[i].field]

SaidIn(format, A, K) ==
  {f \in FieldsOf(format) : A[f].length > 0 /\ Parses(K[f], A[f])}

ReadsWords(r, format, to, A, K, junk) ==
  /\ DOMAIN r = (DOMAIN to \ FieldsOf(format)) \union SaidIn(format, A, K)
  /\ \A f \in DOMAIN r : r[f] = IF f \in FieldsOf(format)
                                THEN ValueOf(K[f], A[f], junk) ELSE to[f]

LEMMA PayloadIs ==
  ASSUME NEW format, NEW s, NEW to, NEW junk, NEW A, NEW K,
         Words(format, s, A, K)
  PROVE  ReadsWords(ParsePayload(format, s, to, junk), format, to, A, K, junk)
<1> DEFINE named == FieldsOf(format)
           said == {i \in DOMAIN format : HasValue(format, s, i)}
           of(f) == CHOOSE i \in DOMAIN format : format[i].field = f
           D == (DOMAIN to \ named) \union {format[i].field : i \in said}
           r == ParsePayload(format, s, to, junk)
<1>1. r = [f \in D |-> IF f \in named
                       THEN ValueOf(format[of(f)].token, TokenAt(s, of(f)),
                                    junk)
                       ELSE to[f]]
  BY Zenon DEF ParsePayload, FieldsOf
<1>2. \A i \in DOMAIN format : /\ TokenAt(s, i) = A[format[i].field]
                               /\ format[i].token = K[format[i].field]
  BY Zenon DEF Words
<1>3. \A i \in DOMAIN format :
        i \in said <=> /\ A[format[i].field].length > 0
                       /\ Parses(K[format[i].field], A[format[i].field])
  BY <1>2 DEF HasValue
<1> HIDE DEF said
<1>4. said \subseteq DOMAIN format
  BY DEF said
<1>5. {format[i].field : i \in said} = SaidIn(format, A, K)
  BY <1>3, <1>4, Zenon DEF SaidIn, FieldsOf
<1>6. \A f \in named : of(f) \in DOMAIN format /\ format[of(f)].field = f
  BY Zenon DEF FieldsOf
<1>7. DOMAIN r = D
  BY <1>1
<1>8. \A f \in D : r[f] = IF f \in named
                          THEN ValueOf(format[of(f)].token,
                                       TokenAt(s, of(f)), junk)
                          ELSE to[f]
  BY <1>1
<1> HIDE DEF of, named, r
<1>9. \A f \in D : r[f] = IF f \in named THEN ValueOf(K[f], A[f], junk)
                          ELSE to[f]
  BY <1>2, <1>6, <1>8
<1> QED
  BY <1>5, <1>7, <1>9, Zenon DEF named, r, ReadsWords

(* The kind of token of a field.                                           *)
TokenFor(f) ==
  CHOOSE token \in {"int", "float", "char", "time", "date"} :
    Type(token) = GetterType(f)

LEMMA TokenForIs ==
  ASSUME NEW f, NEW token, Typed(f, token)
  PROVE  TokenFor(f) = token
<1> DEFINE T == {"int", "float", "char", "time", "date"}
<1>1. token \in T /\ Type(token) = GetterType(f)
  BY DEF Typed
<1>2. \A t \in T : Type(t) = Type(token) => t = token
  BY <1>1 DEF Type
<1> HIDE DEF T
<1>3. TokenFor(f) \in T /\ Type(TokenFor(f)) = GetterType(f)
  <2>1. \E t \in T : Type(t) = GetterType(f)
    BY <1>1, Zenon
  <2> QED
    BY <2>1 DEF TokenFor, T
<1> QED
  BY <1>1, <1>2, <1>3, Zenon

DialectOK ==
  dialect \in [gsa1 : BOOLEAN, rmc1 : BOOLEAN, padded : BOOLEAN,
               gll : BOOLEAN, time : {6, 8, 9, 10}]

(* The number that counts in a field, as it comes out of the parser.       *)
NumberRead(f, junk) ==
  IF f[1] = "TIME" THEN Hundredths(Token(f, Fraction), junk)
  ELSE NumberIn(f[1])

ValueRead(f, junk) ==
  Variant(GetterType(f),
          [means |-> f, epoch |-> epoch, n |-> NumberRead(f, junk)])

(* A token that is not empty is taken, with what the receiver meant by it. *)
LEMMA TokenIsTaken ==
  ASSUME DialectOK, NEW f, NEW token, Typed(f, token), NEW junk, ~Blank(f)
  PROVE  /\ Said(f).length > 0 /\ Parses(token, Said(f))
         /\ ValueOf(token, Said(f), junk) = ValueRead(f, junk)
<1> DEFINE t == Token(f, NumberIn(f[1]))
<1>0. dialect.time \in {6, 8, 9, 10}
  BY DEF DialectOK
<1>1. Said(f) = t
  BY DEF Said
<1>2. /\ token \in {"int", "float", "char", "time", "date"}
      /\ Type(token) = GetterType(f) /\ f[1] # "SATELLITE"
  BY DEF Typed
<1>3. /\ token = "char" <=> f[1] \in CharNames
      /\ token = "time" <=> f[1] = "TIME"
      /\ token = "date" <=> f[1] = "DATE"
  BY <1>2 DEF Type, GetterType, CharNames
<1>4. /\ t.v = [means |-> f, epoch |-> epoch, n |-> NumberIn(f[1])]
      /\ t.length = IF f[1] \in CharNames THEN 1
                    ELSE IF f[1] = "TIME" THEN dialect.time
                    ELSE IF f[1] = "DATE" THEN 6 ELSE 2
      /\ t.number = (f[1] \notin CharNames \union {"TIME", "DATE"})
      /\ t.nan = FALSE
  BY DEF Token, CharNames
<1>5. f[1] = "TIME" => NumberIn(f[1]) = Fraction /\ t = Token(f, Fraction)
  BY DEF NumberIn
<1> HIDE DEF t
<1>6. t.length > 0 /\ Parses(token, t)
  <2>1. t.length > 0
    BY <1>0, <1>4
  <2>2. token \in {"int", "float"} => Parses(token, t)
    BY <1>4 DEF Parses
  <2>3. token = "char" => Parses(token, t)
    BY <1>3, <1>4 DEF Parses
  <2>4. token = "time" => Parses(token, t)
    <3>1. f[1] = "TIME" => f[1] \notin CharNames
      BY DEF CharNames
    <3> QED
      BY <1>0, <1>3, <1>4, <3>1 DEF Parses
  <2>5. token = "date" => Parses(token, t)
    <3>1. f[1] = "DATE" => f[1] \notin CharNames /\ f[1] # "TIME"
      BY DEF CharNames
    <3> QED
      BY <1>3, <1>4, <3>1 DEF Parses
  <2> QED
    BY <1>2, <2>1, <2>2, <2>3, <2>4, <2>5
<1>7. ValueOf(token, t, junk) = ValueRead(f, junk)
  <2>1. CASE token = "time"
    <3>1. f[1] = "TIME"
      BY <1>3, <2>1
    <3>2. ValueOf(token, t, junk) =
            Variant("TIME", [t.v EXCEPT !.n = Hundredths(t, junk)])
      BY <2>1 DEF ValueOf, Type
    <3>3. GetterType(f) = "TIME"
      BY <1>2, <2>1 DEF Type
    <3>4. NumberRead(f, junk) = Hundredths(t, junk)
      BY <1>5, <3>1 DEF NumberRead
    <3> QED
      BY <1>4, <3>2, <3>3, <3>4 DEF ValueRead
  <2>2. CASE token # "time"
    <3>1. f[1] # "TIME"
      BY <1>3, <2>2
    <3>2. token \in {"int", "float"} => t.number
      BY <1>3, <1>4
    <3>3. ValueOf(token, t, junk) = Variant(Type(token), t.v)
      BY <1>2, <1>4, <2>2, <3>2 DEF ValueOf
    <3> QED
      BY <1>2, <1>4, <3>1, <3>3 DEF ValueRead, NumberRead
  <2> QED
    BY <2>1, <2>2
<1> QED
  BY <1>1, <1>6, <1>7

-----------------------------------------------------------------------------
(* The chain of formats: what is recognised as what.                       *)

LEMMA LiteralIs ==
  ASSUME NEW a, NEW b, NEW c, NEW d
  PROVE  /\ IsList(<<a, b, c>>, 3)
         /\ IsList(<<a, b, c, d>>, 4)
  BY DEF IsList

LEMMA ChainIs ==
  /\ IsList(Chain, SatsPerMessage + 6) /\ SatsPerMessage \in Nat \ {0}
  /\ Chain[1] = Kind("GGA", "GPGGA", GGA)
  /\ Chain[2] = Kind("GSA", "GPGSA", GSA)
  /\ Chain[3] = Kind("GSA", "GPGSA", GSA1)
  /\ Chain[4] = Kind("GSV", "GPGSV", GSV(SatsPerMessage))
  /\ \A n \in 1..(SatsPerMessage - 1) :
       Chain[4 + n] = Kind("GSV", "GPGSV", GSV(n))
  /\ Chain[SatsPerMessage + 4] = Kind("RMC", "GPRMC", RMC)
  /\ Chain[SatsPerMessage + 5] = Kind("RMC", "GPRMC", RMC1)
  /\ Chain[SatsPerMessage + 6] = Kind("GLL", "GPGLL", GLL)
<1> DEFINE S == SatsPerMessage
           k1 == Kind("GGA", "GPGGA", GGA)
           k2 == Kind("GSA", "GPGSA", GSA)
           k3 == Kind("GSA", "GPGSA", GSA1)
           k4 == Kind("GSV", "GPGSV", GSV(SatsPerMessage))
           g(n) == Kind("GSV", "GPGSV", GSV(n))
           k5 == Kind("RMC", "GPRMC", RMC)
           k6 == Kind("RMC", "GPRMC", RMC1)
           k7 == Kind("GLL", "GPGLL", GLL)
           a == <<k1, k2, k3, k4>>
           b == [n \in 1..(S - 1) |-> g(n)]
           c == <<k5, k6, k7>>
<1>1. S \in Nat \ {0}
  BY NmeaDataAssumption
<1>2. Chain = a \o b \o c
  BY Zenon DEF Chain
<1> HIDE DEF k1, k2, k3, k4, k5, k6, k7, g
<1>3. IsList(a, 4) /\ IsList(c, 3)
  BY LiteralIs, Zenon
<1>4. a[1] = k1 /\ a[2] = k2 /\ a[3] = k3 /\ a[4] = k4
  OBVIOUS
<1>5. c[1] = k5 /\ c[2] = k6 /\ c[3] = k7
  OBVIOUS
<1>6. IsList(b, S - 1) /\ \A n \in 1..(S - 1) : b[n] = g(n)
  BY <1>1 DEF IsList
<1> HIDE DEF a, b, c, S
<1> DEFINE d == a \o b
           e == d \o c
<1>7. Joins(d, a, 4, b, S - 1)
  BY <1>3, <1>6, ConcatIs, Zenon
<1> HIDE DEF d
<1>8. /\ IsList(d, S + 3)
      /\ d[1] = k1 /\ d[2] = k2 /\ d[3] = k3 /\ d[4] = k4
      /\ \A n \in 1..(S - 1) : d[4 + n] = g(n)
  <2>1. 4 + (S - 1) = S + 3
    BY <1>1
  <2> QED
    BY <1>4, <1>6, <1>7, <2>1 DEF Joins
<1>9. Joins(e, d, S + 3, c, 3)
  BY <1>3, <1>8, ConcatIs, Zenon
<1> HIDE DEF e
<1>10. /\ IsList(e, S + 6)
       /\ \A i \in 1..(S + 3) : e[i] = d[i]
       /\ e[S + 4] = k5 /\ e[S + 5] = k6 /\ e[S + 6] = k7
  <2>1. /\ (S + 3) + 3 = S + 6 /\ (S + 3) + 1 = S + 4
        /\ (S + 3) + 2 = S + 5
    BY <1>1
  <2> QED
    BY <1>5, <1>9, <2>1 DEF Joins
<1>11. e[1] = k1 /\ e[2] = k2 /\ e[3] = k3 /\ e[4] = k4
  BY <1>1, <1>8, <1>10
<1>12. \A n \in 1..(S - 1) : e[4 + n] = g(n)
  BY <1>1, <1>8, <1>10
<1>13. Chain = e
  BY <1>2 DEF e, d
<1> QED
  BY <1>1, <1>10, <1>11, <1>12, <1>13, Zenon
     DEF S, k1, k2, k3, k4, k5, k6, k7, g

(* The formats by their number: what each has for a head, and is called.   *)
LEMMA ChainByNumber ==
  ASSUME NEW i \in DOMAIN Chain
  PROVE  LET S == SatsPerMessage
         IN  \/ i = 1 /\ Chain[i] = Kind("GGA", "GPGGA", GGA)
             \/ i = 2 /\ Chain[i] = Kind("GSA", "GPGSA", GSA)
             \/ i = 3 /\ Chain[i] = Kind("GSA", "GPGSA", GSA1)
             \/ i = 4 /\ Chain[i] = Kind("GSV", "GPGSV", GSV(S))
             \/ \E n \in 1..(S - 1) :
                  i = 4 + n /\ Chain[i] = Kind("GSV", "GPGSV", GSV(n))
             \/ i = S + 4 /\ Chain[i] = Kind("RMC", "GPRMC", RMC)
             \/ i = S + 5 /\ Chain[i] = Kind("RMC", "GPRMC", RMC1)
             \/ i = S + 6 /\ Chain[i] = Kind("GLL", "GPGLL", GLL)
<1> DEFINE S == SatsPerMessage
<1>1. S \in Nat \ {0} /\ IsList(Chain, S + 6)
  BY ChainIs
<1>2. i \in 1..(S + 6)
  BY <1>1, ListFacts
<1>3. \/ i = 1 \/ i = 2 \/ i = 3 \/ i = 4
      \/ i - 4 \in 1..(S - 1) /\ i = 4 + (i - 4)
      \/ i = S + 4 \/ i = S + 5 \/ i = S + 6
  BY <1>1, <1>2
<1>4. \/ i = 1 \/ i = 2 \/ i = 3 \/ i = 4
      \/ \E n \in 1..(S - 1) : i = 4 + n
      \/ i = S + 4 \/ i = S + 5 \/ i = S + 6
  BY <1>3, Zenon
<1> QED
  BY <1>4, ChainIs, Zenon

LEMMA FormatLengths ==
  /\ Len(GGA) = 14 /\ Len(GLL) = 6 /\ Len(RMC) = 11 /\ Len(RMC1) = 12
  /\ Len(GSA) = MaxSatInUse + 5 /\ Len(GSA1) = MaxSatInUse + 6
  /\ MaxSatInUse \in Nat
<1> DEFINE m == MaxSatInUse
<1>1. (\E K : Fits(GGA, K, 14)) /\ (\E K : Fits(GLL, K, 6))
  BY GgaFits, GllFits, Zenon DEF GGA, GLL
<1>2. \E K : Fits(RMC, K, 11)
  BY RmcFits, Zenon DEF RMC
<1>3. \E K : Fits(RMC1, K, 11 + 1)
  BY <1>2, ModeFits, FitsJoined, Zenon DEF RMC1
<1>4. \E K : Fits(GSABegin, K, 2 + m)
  BY GsaBeginFits, InUseFits, FitsJoined, Zenon DEF GSABegin
<1>5. \E K : Fits(GSA, K, (2 + m) + 3)
  BY <1>4, GsaEndFits, FitsJoined, Zenon DEF GSA
<1>6. \E K : Fits(GSA1, K, (2 + m) + 4)
  BY <1>4, Gsa1EndFits, FitsJoined, Zenon DEF GSA1
<1>7. \A F, K, n : Fits(F, K, n) => Len(F) = n
  BY ListFacts, Zenon DEF Fits
<1>8. /\ Len(GGA) = 14 /\ Len(GLL) = 6 /\ Len(RMC) = 11
      /\ Len(RMC1) = 11 + 1
      /\ Len(GSA) = (2 + m) + 3 /\ Len(GSA1) = (2 + m) + 4
  BY <1>1, <1>2, <1>3, <1>5, <1>6, <1>7, Zenon
<1>9. m \in Nat
  BY NmeaDataAssumption
<1> QED
  BY <1>8, <1>9

IndexOf(id) ==
  CASE id = "GGA" -> 1
    [] id = "GSA" -> IF dialect.gsa1 THEN 3 ELSE 2
    [] id = "RMC" -> IF dialect.rmc1 THEN SatsPerMessage + 5
                     ELSE SatsPerMessage + 4
    [] id = "GLL" -> SatsPerMessage + 6

LEMMA IndexIs ==
  ASSUME DialectOK, NEW id \in Kinds
  PROVE  /\ IndexOf(id) \in DOMAIN Chain
         /\ Chain[IndexOf(id)] = Kind(id, Heads[id], FormatOf(id))
         /\ Len(FormatOf(id)) = LengthOf(id)
<1> DEFINE S == SatsPerMessage
<1>1. S \in Nat \ {0} /\ DOMAIN Chain = 1..(S + 6)
  BY ChainIs, ListFacts
<1>2. dialect.gsa1 \in BOOLEAN /\ dialect.rmc1 \in BOOLEAN
  BY DEF DialectOK
<1>3. /\ Heads["GGA"] = "GPGGA" /\ Heads["GSA"] = "GPGSA"
      /\ Heads["RMC"] = "GPRMC" /\ Heads["GLL"] = "GPGLL"
  BY DEF Heads
<1>4. Len(FormatOf(id)) = LengthOf(id)
  BY <1>2, FormatLengths DEF Kinds, FormatOf, LengthOf
<1>5. IndexOf(id) \in 1..(S + 6)
  BY <1>1, <1>2 DEF Kinds, IndexOf
<1>6. CASE id = "GGA"
  <2>1. IndexOf(id) = 1 /\ FormatOf(id) = GGA
    BY <1>6 DEF IndexOf, FormatOf
  <2> QED
    BY <1>1, <1>3, <1>4, <1>5, <1>6, <2>1, ChainIs
<1>7. CASE id = "GLL"
  <2>1. IndexOf(id) = S + 6 /\ FormatOf(id) = GLL
    BY <1>7 DEF IndexOf, FormatOf
  <2> QED
    BY <1>1, <1>3, <1>4, <1>5, <1>7, <2>1, ChainIs
<1>8. CASE id = "GSA"
  <2>1. \/ IndexOf(id) = 3 /\ FormatOf(id) = GSA1
        \/ IndexOf(id) = 2 /\ FormatOf(id) = GSA
    BY <1>2, <1>8 DEF IndexOf, FormatOf
  <2> QED
    BY <1>1, <1>3, <1>4, <1>5, <1>8, <2>1, ChainIs
<1>9. CASE id = "RMC"
  <2>1. \/ IndexOf(id) = S + 5 /\ FormatOf(id) = RMC1
        \/ IndexOf(id) = S + 4 /\ FormatOf(id) = RMC
    BY <1>2, <1>9 DEF IndexOf, FormatOf
  <2> QED
    BY <1>1, <1>3, <1>4, <1>5, <1>9, <2>1, ChainIs
<1> QED
  BY <1>6, <1>7, <1>8, <1>9 DEF Kinds

(* The sentence of the receiver that is called id, if it is not damaged.   *)
LEMMA SentKind ==
  ASSUME DialectOK, NEW id \in Kinds
  PROVE  LET s == Sent(<<id, 0>>)
         IN  /\ s.head = Heads[id] /\ s.intact = TRUE
             /\ Len(s.tokens) = LengthOf(id)
             /\ LengthOf(id) \in Nat
             /\ \A i \in 1..LengthOf(id) : s.tokens[i] = Said(Layout(id)[i])
<1> DEFINE n == LengthOf(id)
           words == [i \in DOMAIN Layout(id) |-> Said(Layout(id)[i])]
<1>1. dialect.gsa1 \in BOOLEAN /\ dialect.rmc1 \in BOOLEAN
  BY DEF DialectOK
<1>2. Fits(FormatOf(id), Layout(id), n)
  BY <1>1, LayoutFits DEF Kinds
<1>3. DOMAIN Layout(id) = 1..n /\ n \in Nat
  BY <1>2, ListFacts DEF Fits
<1>4. Sent(<<id, 0>>) = Sentence(Heads[id], words)
  BY DEF Sent, Kinds
<1> HIDE DEF n
<1>5. IsList(words, n) /\ \A i \in 1..n : words[i] = Said(Layout(id)[i])
  BY <1>3 DEF IsList
<1>6. Len(words) = n
  BY <1>5, ListFacts
<1> QED
  <2>1. /\ Sent(<<id, 0>>).head = Heads[id]
        /\ Sent(<<id, 0>>).intact = TRUE
        /\ Sent(<<id, 0>>).tokens = words
    BY <1>4 DEF Sentence
  <2> HIDE DEF words
  <2>2. Len(Sent(<<id, 0>>).tokens) = n
    BY <1>6, <2>1
  <2>3. \A i \in 1..n : Sent(<<id, 0>>).tokens[i] = Said(Layout(id)[i])
    BY <1>5, <2>1
  <2> QED
    BY <1>3, <2>1, <2>2, <2>3 DEF n

(* It is recognised by its format and by no other.                         *)
LEMMA KindRecognised ==
  ASSUME DialectOK, NEW id \in Kinds, NEW junk
  PROVE  Recognised(Sent(<<id, 0>>), junk) = {IndexOf(id)}
<1> DEFINE s == Sent(<<id, 0>>)
           S == SatsPerMessage
<1>1. /\ s.head = Heads[id] /\ s.intact = TRUE
      /\ Len(s.tokens) = LengthOf(id)
  BY SentKind
<1> HIDE DEF s
<1>2. S \in Nat \ {0}
  BY ChainIs
<1>3. dialect.gsa1 \in BOOLEAN /\ dialect.rmc1 \in BOOLEAN
  BY DEF DialectOK
<1>4. /\ id = "GGA" => Heads[id] = "GPGGA"
      /\ id = "GSA" => Heads[id] = "GPGSA"
      /\ id = "RMC" => Heads[id] = "GPRMC"
      /\ id = "GLL" => Heads[id] = "GPGLL"
  BY DEF Heads
<1>5. id = "GGA" \/ id = "GSA" \/ id = "RMC" \/ id = "GLL"
  BY DEF Kinds
<1>6. ASSUME NEW i \in DOMAIN Chain, Recognises(Chain[i], s, junk)
      PROVE  i = IndexOf(id)
  <2>0. Chain[i].head = Heads[id]
    BY <1>1, <1>6 DEF Recognises, TakesGsv, Takes
  <2>1. ASSUME NEW F, Chain[i] = Kind("GSV", "GPGSV", F)
        PROVE  FALSE
    <3>1. Chain[i].head = "GPGSV"
      BY <2>1 DEF Kind
    <3> QED
      BY <1>4, <1>5, <2>0, <3>1
  <2>2. ASSUME NEW name \in Kinds, NEW h, NEW F,
               Chain[i] = Kind(name, h, F)
        PROVE  h = Heads[id] /\ Len(F) = LengthOf(id)
    <3>1. Chain[i].id # "GSV" /\ Chain[i].head = h /\ Chain[i].format = F
      BY <2>2 DEF Kind, Kinds
    <3> QED
      BY <1>1, <1>6, <2>0, <3>1 DEF Recognises, Takes
  <2>3. /\ "GGA" \in Kinds /\ "GSA" \in Kinds /\ "RMC" \in Kinds
        /\ "GLL" \in Kinds
    BY DEF Kinds
  <2>4. \/ /\ i = 1 /\ Heads[id] = "GPGGA"
        \/ /\ i = 2 /\ Heads[id] = "GPGSA"
           /\ LengthOf(id) = Len(GSA)
        \/ /\ i = 3 /\ Heads[id] = "GPGSA"
           /\ LengthOf(id) = Len(GSA1)
        \/ /\ i = S + 4 /\ Heads[id] = "GPRMC"
           /\ LengthOf(id) = Len(RMC)
        \/ /\ i = S + 5 /\ Heads[id] = "GPRMC"
           /\ LengthOf(id) = Len(RMC1)
        \/ /\ i = S + 6 /\ Heads[id] = "GPGLL"
    <3>1. /\ Chain[i] = Kind("GGA", "GPGGA", GGA) => Heads[id] = "GPGGA"
          /\ Chain[i] = Kind("GLL", "GPGLL", GLL) => Heads[id] = "GPGLL"
      BY <2>2, <2>3
    <3>2. /\ Chain[i] = Kind("GSA", "GPGSA", GSA)
               => Heads[id] = "GPGSA" /\ LengthOf(id) = Len(GSA)
          /\ Chain[i] = Kind("GSA", "GPGSA", GSA1)
               => Heads[id] = "GPGSA" /\ LengthOf(id) = Len(GSA1)
      BY <2>2, <2>3
    <3>3. /\ Chain[i] = Kind("RMC", "GPRMC", RMC)
               => Heads[id] = "GPRMC" /\ LengthOf(id) = Len(RMC)
          /\ Chain[i] = Kind("RMC", "GPRMC", RMC1)
               => Heads[id] = "GPRMC" /\ LengthOf(id) = Len(RMC1)
      BY <2>2, <2>3
    <3>4. \A F : Chain[i] # Kind("GSV", "GPGSV", F)
      BY <2>1, Zenon
    <3> QED
      BY <3>1, <3>2, <3>3, <3>4, ChainByNumber
  <2>5. id = "GGA" => i = 1
    BY <1>4, <2>4
  <2>6. id = "GLL" => i = S + 6
    BY <1>4, <2>4
  <2>7. id = "GSA" => IF dialect.gsa1 THEN i = 3 ELSE i = 2
    BY <1>3, <1>4, <2>4, FormatLengths DEF LengthOf
  <2>8. id = "RMC" => IF dialect.rmc1 THEN i = S + 5 ELSE i = S + 4
    BY <1>3, <1>4, <2>4, FormatLengths DEF LengthOf
  <2> QED
    BY <1>3, <1>5, <2>5, <2>6, <2>7, <2>8 DEF IndexOf
<1>7. /\ IndexOf(id) \in DOMAIN Chain
      /\ Recognises(Chain[IndexOf(id)], s, junk)
  <2>1. /\ IndexOf(id) \in DOMAIN Chain
        /\ Chain[IndexOf(id)] = Kind(id, Heads[id], FormatOf(id))
        /\ Len(FormatOf(id)) = LengthOf(id)
    BY IndexIs
  <2>2. id # "GSV"
    BY DEF Kinds
  <2> QED
    BY <1>1, <2>1, <2>2 DEF Recognises, Takes, Kind
<1> QED
  BY <1>6, <1>7 DEF Recognised, s

LEMMA FirstOfOne ==
  ASSUME NEW i \in Int
  PROVE  FirstOf({i}) = i
  BY DEF FirstOf

(* What a sentence leaves of a set of fields and puts into it.             *)
ReadsKind(r, id, to, junk) ==
  /\ DOMAIN r = (DOMAIN to \ FieldsIn(id))
                \union {f \in FieldsIn(id) : ~Blank(f)}
  /\ \A f \in DOMAIN r : r[f] = IF f \in FieldsIn(id) THEN ValueRead(f, junk)
                                ELSE to[f]

(* All the fields of its format are replaced, or removed if it is silent   *)
(* about them; and no others are touched.                                  *)
LEMMA KindMerged ==
  ASSUME DialectOK, NEW id \in Kinds, NEW to, NEW junk
  PROVE  LET s == Sent(<<id, 0>>)
         IN  /\ Id(s, junk) = id
             /\ ReadsKind(Merge(s, to, junk), id, to, junk)
<1> DEFINE s == Sent(<<id, 0>>)
           F == FormatOf(id)
           L == Layout(id)
           n == LengthOf(id)
           A == [f \in FieldsOf(F) |-> Said(f)]
           K == [f \in FieldsOf(F) |-> TokenFor(f)]
<1>1. /\ Recognised(s, junk) = {IndexOf(id)}
      /\ Chain[IndexOf(id)] = Kind(id, Heads[id], F)
      /\ IndexOf(id) \in DOMAIN Chain
  BY KindRecognised, IndexIs, Zenon
<1>2. IndexOf(id) \in Int
  <2>1. DOMAIN Chain = 1..(SatsPerMessage + 6)
    BY ChainIs, ListFacts
  <2> QED
    BY <1>1, <2>1
<1>3. Recognised(s, junk) # {} /\ FirstOf(Recognised(s, junk)) = IndexOf(id)
  BY <1>1, <1>2, FirstOfOne
<1>4. id # "GSV"
  BY DEF Kinds
<1>5. Id(s, junk) = id
  BY <1>1, <1>3 DEF Id, Kind
<1>6. Merge(s, to, junk) = ParsePayload(F, s, to, junk)
  BY <1>1, <1>3, <1>4 DEF Merge, Kind
<1>7. Fits(F, L, n) /\ n \in Nat /\ DOMAIN F = 1..n
  <2>1. dialect.gsa1 \in BOOLEAN /\ dialect.rmc1 \in BOOLEAN
    BY DEF DialectOK
  <2>2. Fits(F, L, n)
    BY <2>1, LayoutFits DEF Kinds
  <2> QED
    BY <2>2, ListFacts, Zenon DEF Fits
<1>8. /\ Len(s.tokens) = n
      /\ \A i \in 1..n : s.tokens[i] = Said(L[i])
  BY SentKind
<1>9. \A i \in 1..n : F[i].field = L[i] /\ Typed(F[i].field, F[i].token)
  BY <1>7, Zenon DEF Fits
<1>10. \A f \in FieldsOf(F) : \E token : Typed(f, token) /\ TokenFor(f) = token
  <2>1. \A f \in FieldsOf(F) : \E i \in 1..n : F[i].field = f
    BY <1>7, Zenon DEF FieldsOf
  <2> QED
    BY <1>9, <2>1, TokenForIs
<1> HIDE DEF s, F, L, n
<1>11. Words(F, s, A, K)
  <2> SUFFICES ASSUME NEW i \in 1..n
               PROVE  /\ TokenAt(s, i) = A[F[i].field]
                      /\ F[i].token = K[F[i].field]
    BY <1>7, Zenon DEF Words
  <2>1. F[i].field \in FieldsOf(F)
    BY <1>7 DEF FieldsOf
  <2>2. TokenAt(s, i) = Said(F[i].field)
    BY <1>7, <1>8, <1>9 DEF TokenAt
  <2>3. TokenFor(F[i].field) = F[i].token
    BY <1>9, TokenForIs
  <2> QED
    BY <2>1, <2>2, <2>3
<1>13. \A f \in FieldsOf(F) : A[f] = Said(f) /\ K[f] = TokenFor(f)
  BY Zenon
<1> HIDE DEF A, K
<1> DEFINE r == ParsePayload(F, s, to, junk)
<1>12. /\ DOMAIN r = (DOMAIN to \ FieldsOf(F)) \union SaidIn(F, A, K)
       /\ \A f \in DOMAIN r :
            r[f] = IF f \in FieldsOf(F) THEN ValueOf(K[f], A[f], junk)
                   ELSE to[f]
  <2>1. ReadsWords(r, F, to, A, K, junk)
    BY <1>11, PayloadIs, Zenon
  <2> HIDE DEF r
  <2> QED
    BY <2>1, Zenon DEF ReadsWords
<1> HIDE DEF r
<1>14. \A f \in FieldsOf(F) :
         ~Blank(f) => /\ A[f].length > 0 /\ Parses(K[f], A[f])
                      /\ ValueOf(K[f], A[f], junk) = ValueRead(f, junk)
  <2> SUFFICES ASSUME NEW f \in FieldsOf(F), ~Blank(f)
               PROVE  /\ A[f].length > 0 /\ Parses(K[f], A[f])
                      /\ ValueOf(K[f], A[f], junk) = ValueRead(f, junk)
    OBVIOUS
  <2>1. PICK token : Typed(f, token) /\ TokenFor(f) = token
    BY <1>10
  <2>2. /\ Said(f).length > 0 /\ Parses(token, Said(f))
        /\ ValueOf(token, Said(f), junk) = ValueRead(f, junk)
    BY <2>1, TokenIsTaken
  <2> QED
    BY <1>13, <2>1, <2>2
<1>15. \A f \in FieldsOf(F) : Blank(f) => ~(A[f].length > 0)
  BY <1>13 DEF Said, EmptyToken
<1>16. SaidIn(F, A, K) = {f \in FieldsOf(F) : ~Blank(f)}
  BY <1>14, <1>15, Zenon DEF SaidIn
<1>17. FieldsOf(F) = FieldsIn(id)
  BY DEF FieldsIn, F
<1>18. \A f \in DOMAIN r : r[f] = IF f \in FieldsIn(id)
                                  THEN ValueRead(f, junk) ELSE to[f]
  BY <1>12, <1>14, <1>16, <1>17
<1>19. ReadsKind(r, id, to, junk)
  BY <1>12, <1>16, <1>17, <1>18, Zenon DEF ReadsKind
<1> QED
  BY <1>5, <1>6, <1>19, Zenon DEF r, s

(* A damaged sentence is recognised by none.                               *)
LEMMA DamagedMerged ==
  ASSUME NEW id, NEW to
  PROVE  LET s == [Sent(id) EXCEPT !.intact = FALSE]
         IN  Id(s, 0) = "none" /\ Merge(s, to, 0) = to
<1> DEFINE s == [Sent(id) EXCEPT !.intact = FALSE]
<1>1. \E h, t : Sent(id) = Sentence(h, t)
  BY Zenon DEF Sent, GsvMessage
<1>2. s.intact = FALSE
  BY <1>1 DEF Sentence
<1> HIDE DEF s
<1>3. Recognised(s, 0) = {}
  BY <1>2 DEF Recognised, Recognises, TakesGsv, Takes
<1>4. Id(s, 0) = "none" /\ Merge(s, to, 0) = to
  BY <1>3, Zenon DEF Id, Merge
<1> QED
  BY <1>4 DEF s

-----------------------------------------------------------------------------
(* GSV: groups of messages.                                                *)

TruthOK == truth \in Truths

(* There are as many messages as hold so many satellites, and no more.     *)
LEMMA MessagesFacts ==
  ASSUME NEW v \in 1..MaxSatInView
  PROVE  LET S == SatsPerMessage
         IN  /\ Messages(v) \in 1..MaxGsvMessages
             /\ v <= Messages(v) * S /\ (Messages(v) - 1) * S < v
             /\ Messages(v) * S <= MaxSatInView
<1> DEFINE S == SatsPerMessage
           M == MaxGsvMessages
           g == (v + S - 1) \div S
<1>1. S \in Nat \ {0} /\ M \in Nat \ {0}
  BY NmeaDataAssumption
<1>2. M * S \in Nat
  BY <1>1
<1>3. v \in 1..(M * S) /\ v \in Nat
  BY <1>2 DEF MaxSatInView
<1>4. MaxSatInView = M * S /\ Messages(v) = g
  BY DEF MaxSatInView, Messages
<1> HIDE DEF S, M
<1>5. g \in Int /\ \E r \in 0..(S - 1) : v + S - 1 = S * g + r
  <2> DEFINE x == v + S - 1
  <2>1. x \in Int
    BY <1>1, <1>3
  <2> HIDE DEF x
  <2>2. x \div S \in Int /\ x % S \in 0..(S - 1)
        /\ x = S * (x \div S) + (x % S)
    BY <1>1, <2>1, SMTT(20)
  <2> QED
    BY <2>2 DEF x
<1> HIDE DEF g
<1> DEFINE p == g * S
<1>6. p \in Int /\ S * g = p /\ (g - 1) * S = p - S
  BY <1>1, <1>5
<1> HIDE DEF p
<1>7. v <= p /\ v > p - S
  BY <1>1, <1>2, <1>3, <1>5, <1>6
<1>8. \A a, b \in Int : a * S < b * S => a < b
  <2> SUFFICES ASSUME NEW a \in Int, NEW b \in Int, a >= b
               PROVE  ~(a * S < b * S)
    OBVIOUS
  <2> DEFINE d == a - b
  <2>1. d \in Nat /\ a = b + d
    OBVIOUS
  <2> HIDE DEF d
  <2>2. a * S = b * S + d * S
    BY <1>1, <2>1
  <2>3. d * S \in Nat /\ a * S \in Int /\ b * S \in Int
    BY <1>1, <2>1
  <2> QED
    BY <2>2, <2>3
<1>9. g \in 1..M
  <2>1. 0 * S < g * S /\ (g - 1) * S < M * S
    BY <1>1, <1>2, <1>3, <1>6, <1>7 DEF p
  <2>2. 0 < g /\ g - 1 < M
    BY <1>1, <1>5, <1>8, <2>1
  <2> QED
    BY <1>1, <1>5, <2>2
<1>10. g * S <= M * S
  <2>1. ~(M < g)
    BY <1>1, <1>9
  <2>2. ~(M * S < g * S)
    BY <1>1, <1>5, <1>8, <2>1
  <2> QED
    BY <1>2, <1>6, <2>2 DEF p
<1>11. v <= g * S /\ (g - 1) * S < v
  BY <1>6, <1>7, <1>1, <1>2, <1>3 DEF p
<1> QED
  BY <1>4, <1>9, <1>10, <1>11 DEF S, M

LEMMA GroupsFacts ==
  ASSUME TruthOK
  PROVE  LET S == SatsPerMessage
         IN  /\ S \in Nat \ {0} /\ truth.view \in 0..MaxSatInView
             /\ Groups \in 1..MaxGsvMessages /\ MaxGsvMessages \in Nat
             /\ truth.view <= Groups * S
             /\ truth.view > 0 => (Groups - 1) * S < truth.view
             /\ MaxSatInView \in Nat /\ Groups * S <= MaxSatInView
<1> DEFINE S == SatsPerMessage
           M == MaxGsvMessages
           v == truth.view
<1>1. S \in Nat \ {0} /\ M \in Nat \ {0}
  BY NmeaDataAssumption
<1>2. M * S \in Nat
  BY <1>1
<1>3. v \in 0..(M * S)
  BY NmeaMergeAssumption DEF TruthOK, Truths, MaxSatInView
<1>4. /\ MaxSatInView = M * S
      /\ Groups = IF v = 0 THEN 1 ELSE Messages(v)
  BY DEF MaxSatInView, Groups, Messages
<1> HIDE DEF S, M, v
<1>5. CASE v = 0
  <2>1. 1 * S <= M * S
    <3>1. PICK k \in Nat : M = 1 + k
      <4>1. M - 1 \in Nat /\ M = 1 + (M - 1)
        BY <1>1
      <4> QED
        BY <4>1
    <3>2. M * S = S + k * S /\ k * S \in Nat
      BY <1>1, <3>1
    <3> QED
      BY <1>1, <3>2
  <2> QED
    BY <1>1, <1>2, <1>3, <1>4, <1>5, <2>1 DEF v, S, M
<1>6. CASE v # 0
  <2>1. v \in 1..MaxSatInView
    BY <1>2, <1>3, <1>4, <1>6
  <2>2. /\ Messages(v) \in 1..MaxGsvMessages
        /\ v <= Messages(v) * S /\ (Messages(v) - 1) * S < v
        /\ Messages(v) * S <= MaxSatInView
    BY <2>1, MessagesFacts DEF S
  <2>3. Groups = Messages(v)
    BY <1>4, <1>6
  <2> QED
    BY <1>1, <1>2, <1>3, <1>4, <2>2, <2>3 DEF v, S, M
<1> QED
  BY <1>5, <1>6

(* The satellites of message m: after First(m), SatsOf(m) of them.         *)
First(m) == (m - 1) * SatsPerMessage

SatsOf(m) ==
  IF dialect.padded THEN SatsPerMessage
  ELSE IF truth.view - First(m) > SatsPerMessage THEN SatsPerMessage
  ELSE truth.view - First(m)

(* There is something to parse in the GSV messages of this epoch.          *)
HasGsv == truth.view > 0 \/ dialect.padded

LEMMA MessageFacts ==
  ASSUME TruthOK, NEW m \in 1..Groups
  PROVE  /\ First(m) \in Nat
         /\ First(m) + SatsPerMessage <= Groups * SatsPerMessage
         /\ First(m) + SatsPerMessage = m * SatsPerMessage
         /\ SatsOf(m) \in Int
         /\ HasGsv => SatsOf(m) \in 1..SatsPerMessage
         /\ ~HasGsv => SatsOf(m) = 0 /\ Groups = 1 /\ m = 1
         /\ \A n \in (SatsOf(m) + 1)..SatsPerMessage :
              First(m) + n > truth.view \/ dialect.padded
<1> DEFINE S == SatsPerMessage
           v == truth.view
           g == Groups
           x == First(m)
<1>1. /\ S \in Nat \ {0} /\ v \in Nat /\ g \in Nat \ {0} /\ m \in 1..g
      /\ v <= g * S /\ (v > 0 => (g - 1) * S < v)
      /\ v = 0 => g = 1
  BY GroupsFacts DEF Groups
<1>2. x = (m - 1) * S
  BY DEF First
<1>3. SatsOf(m) = IF dialect.padded THEN S ELSE IF v - x > S THEN S ELSE v - x
  BY DEF SatsOf
<1> HIDE DEF S, v, g, x
<1>4. PICK k \in Nat : g = m + k
  <2>1. g - m \in Nat /\ g = m + (g - m)
    BY <1>1
  <2> QED
    BY <2>1
<1> DEFINE y == k * S
<1>5. y \in Nat /\ x \in Nat /\ x + S = m * S /\ g * S = m * S + y
      /\ (g - 1) * S = x + y
  BY <1>1, <1>2, <1>4
<1> HIDE DEF y
<1>6. v > 0 => x < v
  BY <1>1, <1>5
<1>7. v = 0 => x = 0 /\ m = 1
  BY <1>1, <1>2
<1>8. m * S \in Nat /\ g * S \in Nat
  BY <1>1
<1>9. SatsOf(m) \in Int
  BY <1>1, <1>3, <1>5
<1>10. x + S <= g * S
  BY <1>5, <1>8
<1>11. HasGsv => SatsOf(m) \in 1..S
  BY <1>1, <1>3, <1>5, <1>6 DEF HasGsv, v
<1>12. ~HasGsv => SatsOf(m) = 0 /\ g = 1 /\ m = 1
  BY <1>1, <1>3, <1>7 DEF HasGsv, v
<1>13. \A n \in (SatsOf(m) + 1)..S : x + n > v \/ dialect.padded
  BY <1>1, <1>3, <1>5
<1> QED
  BY <1>5, <1>9, <1>10, <1>11, <1>12, <1>13 DEF x, S, v, g

(* The satellite, and the part of it, that token i after the header is of. *)
SatAt(i) == (i - 1) \div 4 + 1
PartAt(i) == GsvParts[((i - 1) % 4) + 1]

LEMMA GsvPartsAre ==
  /\ Len(GsvParts) = 4 /\ DOMAIN GsvParts = 1..4
  /\ Range(GsvParts) = {"PRN", "ELV", "AZM", "SNR"}
  BY DEF GsvParts, Range

LEMMA PlacesOfParts ==
  ASSUME NEW n \in Nat
  PROVE  /\ \A i \in 1..(4 * n) :
              SatAt(i) \in 1..n /\ PartAt(i) \in Range(GsvParts)
         /\ \A k \in 1..n : \A p \in Range(GsvParts) :
              \E i \in 1..(4 * n) : SatAt(i) = k /\ PartAt(i) = p
<1>1. ASSUME NEW i \in 1..(4 * n)
      PROVE  SatAt(i) \in 1..n /\ PartAt(i) \in Range(GsvParts)
  <2>1. SatAt(i) \in 1..n /\ ((i - 1) % 4) + 1 \in 1..4
    BY <1>1 DEF SatAt
  <2> QED
    BY <2>1, GsvPartsAre DEF PartAt, Range
<1>2. ASSUME NEW k \in 1..n, NEW p \in Range(GsvParts)
      PROVE  \E i \in 1..(4 * n) : SatAt(i) = k /\ PartAt(i) = p
  <2>1. PICK j \in 1..4 : GsvParts[j] = p
    BY GsvPartsAre DEF Range
  <2> DEFINE i == 4 * (k - 1) + j
  <2>2. /\ i \in 1..(4 * n) /\ (i - 1) \div 4 = k - 1
        /\ (i - 1) % 4 = j - 1
    OBVIOUS
  <2> HIDE DEF i
  <2>3. SatAt(i) = k /\ PartAt(i) = p
    BY <2>1, <2>2 DEF SatAt, PartAt
  <2> QED
    BY <2>2, <2>3
<1> QED
  BY <1>1, <1>2

LEMMA GsvFormat ==
  ASSUME NEW n \in Nat
  PROVE  /\ IsList(GSV(n), 3 + 4 * n)
         /\ GSV(n)[1] = field(Field("MESSAGE_COUNT"), "int")
         /\ GSV(n)[2] = field(Field("MESSAGE_NUMBER"), "int")
         /\ GSV(n)[3] = field(Field("SAT_IN_VIEW"), "int")
         /\ \A i \in 1..(4 * n) :
              GSV(n)[3 + i] = field(Part(SatAt(i), PartAt(i)), "int")
<1> DEFINE pairs == << <<"MESSAGE_COUNT", "int">>,
                       <<"MESSAGE_NUMBER", "int">>,
                       <<"SAT_IN_VIEW", "int">> >>
           h == Named(pairs)
           t == [i \in 1..(Len(GsvParts) * n) |->
                   field(Part((i - 1) \div Len(GsvParts) + 1,
                              GsvParts[((i - 1) % Len(GsvParts)) + 1]),
                         "int")]
           u == [i \in 1..(4 * n) |-> field(Part(SatAt(i), PartAt(i)), "int")]
<1>1. GsvHeader = h
  BY DEF GsvHeader
<1>2. Len(pairs) = 3
  OBVIOUS
<1>3. /\ pairs[1][1] = "MESSAGE_COUNT" /\ pairs[1][2] = "int"
      /\ pairs[2][1] = "MESSAGE_NUMBER" /\ pairs[2][2] = "int"
      /\ pairs[3][1] = "SAT_IN_VIEW" /\ pairs[3][2] = "int"
  OBVIOUS
<1> HIDE DEF pairs
<1>4. /\ IsList(h, 3)
      /\ \A i \in 1..3 : h[i] = field(Field(pairs[i][1]), pairs[i][2])
  BY <1>2 DEF Named, IsList
<1> HIDE DEF h
<1>5. /\ h[1] = field(Field("MESSAGE_COUNT"), "int")
      /\ h[2] = field(Field("MESSAGE_NUMBER"), "int")
      /\ h[3] = field(Field("SAT_IN_VIEW"), "int")
  BY <1>3, <1>4
<1>6. t = u
  BY GsvPartsAre DEF SatAt, PartAt
<1>7. GSV(n) = h \o u
  BY <1>1, <1>6 DEF GSV
<1>8. 4 * n \in Nat
  OBVIOUS
<1>9. IsList(u, 4 * n)
      /\ \A i \in 1..(4 * n) : u[i] = field(Part(SatAt(i), PartAt(i)), "int")
  BY <1>8 DEF IsList
<1> HIDE DEF u
<1>10. Joins(h \o u, h, 3, u, 4 * n)
  BY <1>4, <1>9, ConcatIs, Zenon
<1> DEFINE r == h \o u
<1> HIDE DEF r
<1>11. /\ IsList(r, 3 + 4 * n)
       /\ \A i \in 1..3 : r[i] = h[i]
       /\ \A i \in 1..(4 * n) : r[3 + i] = u[i]
  BY <1>10 DEF Joins, r
<1>12. GSV(n) = r
  BY <1>7 DEF r
<1> QED
  BY <1>5, <1>9, <1>11, <1>12

(* The tokens of a GSV message.                                            *)
LEMMA SentGsv ==
  ASSUME TruthOK, NEW m \in 1..Groups, SatsOf(m) \in Nat
  PROVE  LET s == Sent(<<"GSV", m>>)
             n == SatsOf(m)
         IN  /\ s.head = "GPGSV" /\ s.intact = TRUE
             /\ Len(s.tokens) = 3 + 4 * n
             /\ s.tokens[1] = Token(Field("MESSAGE_COUNT"), Groups)
             /\ s.tokens[2] = Token(Field("MESSAGE_NUMBER"), m)
             /\ s.tokens[3] = Token(Field("SAT_IN_VIEW"), truth.view)
             /\ \A i \in 1..(4 * n) : s.tokens[3 + i] =
                  SaidOfSat(Part(First(m) + SatAt(i), PartAt(i)))
<1> DEFINE n == SatsOf(m)
           first == First(m)
           a == Token(Field("MESSAGE_COUNT"), Groups)
           b == Token(Field("MESSAGE_NUMBER"), m)
           c == Token(Field("SAT_IN_VIEW"), truth.view)
           h == <<a, b, c>>
           t == [i \in 1..(4 * n) |-> SaidOfSat(SatNames(first + 1, n)[i])]
           s == Sent(<<"GSV", m>>)
<1>1. s = Sentence("GPGSV", h \o t)
  BY DEF Sent, GsvMessage, SatsOf, First
<1>2. first \in Int
  BY MessageFacts
<1>3. \A i \in 1..(4 * n) : SatNames(first + 1, n)[i] =
                              Part(first + SatAt(i), PartAt(i))
  <2> SUFFICES ASSUME NEW i \in 1..(4 * n)
               PROVE  SatNames(first + 1, n)[i] =
                        Part(first + SatAt(i), PartAt(i))
    OBVIOUS
  <2>1. SatNames(first + 1, n)[i] =
          Part((first + 1) + ((i - 1) \div 4), GsvParts[1 + ((i - 1) % 4)])
    BY DEF SatNames, GsvParts
  <2>2. /\ (first + 1) + ((i - 1) \div 4) = first + SatAt(i)
        /\ 1 + ((i - 1) % 4) = ((i - 1) % 4) + 1
    BY <1>2 DEF SatAt
  <2> QED
    BY <2>1, <2>2 DEF PartAt
<1> HIDE DEF a, b, c, first
<1>4. IsList(h, 3) /\ h[1] = a /\ h[2] = b /\ h[3] = c
  BY LiteralIs
<1>5. n \in Nat /\ 4 * n \in Nat
  OBVIOUS
<1>6. /\ IsList(t, 4 * n)
      /\ \A i \in 1..(4 * n) : t[i] = SaidOfSat(Part(first + SatAt(i),
                                                     PartAt(i)))
  BY <1>3, <1>5 DEF IsList
<1> HIDE DEF h, t, n
<1> DEFINE r == h \o t
<1>7. Joins(r, h, 3, t, 4 * n)
  BY <1>4, <1>6, ConcatIs, Zenon
<1> HIDE DEF r, s
<1>8. s.head = "GPGSV" /\ s.intact = TRUE /\ s.tokens = r
  <2>1. s = Sentence("GPGSV", r)
    BY <1>1 DEF r
  <2> QED
    BY <2>1 DEF Sentence
<1>9. /\ IsList(r, 3 + 4 * n)
      /\ r[1] = a /\ r[2] = b /\ r[3] = c
      /\ \A i \in 1..(4 * n) : r[3 + i] = t[i]
  BY <1>4, <1>7 DEF Joins
<1>10. Len(r) = 3 + 4 * n
  BY <1>9, ListFacts
<1>11. \A i \in 1..(4 * n) : s.tokens[3 + i] =
         SaidOfSat(Part(first + SatAt(i), PartAt(i)))
  BY <1>6, <1>8, <1>9
<1> QED
  BY <1>8, <1>9, <1>10, <1>11 DEF s, a, b, c, first, n

HeaderFields ==
  {Field("MESSAGE_COUNT"), Field("MESSAGE_NUMBER"), Field("SAT_IN_VIEW")}

PartFields(n) == {Part(k, p) : k \in 1..n, p \in Range(GsvParts)}

LEMMA FieldsOfGsv ==
  ASSUME NEW n \in Nat
  PROVE  FieldsOf(GSV(n)) = HeaderFields \union PartFields(n)
<1> DEFINE F == GSV(n)
<1>1. DOMAIN F = 1..(3 + 4 * n)
  BY GsvFormat, ListFacts
<1>2. /\ F[1].field = Field("MESSAGE_COUNT")
      /\ F[2].field = Field("MESSAGE_NUMBER")
      /\ F[3].field = Field("SAT_IN_VIEW")
      /\ \A i \in 1..(4 * n) : F[3 + i].field = Part(SatAt(i), PartAt(i))
  <2>1. /\ F[1] = field(Field("MESSAGE_COUNT"), "int")
        /\ F[2] = field(Field("MESSAGE_NUMBER"), "int")
        /\ F[3] = field(Field("SAT_IN_VIEW"), "int")
        /\ \A i \in 1..(4 * n) :
             F[3 + i] = field(Part(SatAt(i), PartAt(i)), "int")
    BY GsvFormat
  <2> HIDE DEF F
  <2>2. \A f, t : field(f, t).field = f
    BY DEF field
  <2> QED
    BY <2>1, <2>2, Zenon
<1> HIDE DEF F
<1>3. ASSUME NEW i \in DOMAIN F
      PROVE  F[i].field \in HeaderFields \union PartFields(n)
  <2>1. CASE i \in 1..3
    BY <1>2, <2>1 DEF HeaderFields
  <2>2. CASE i \notin 1..3
    <3>1. i - 3 \in 1..(4 * n) /\ 3 + (i - 3) = i
      BY <1>1, <2>2
    <3> DEFINE j == i - 3
    <3> HIDE DEF j
    <3>2. j \in 1..(4 * n) /\ i = 3 + j
      BY <3>1 DEF j
    <3>3. F[i].field = Part(SatAt(j), PartAt(j))
      BY <1>2, <3>2
    <3>4. SatAt(j) \in 1..n /\ PartAt(j) \in Range(GsvParts)
      BY <3>2, PlacesOfParts
    <3> QED
      BY <3>3, <3>4 DEF PartFields
  <2> QED
    BY <2>1, <2>2
<1>4. ASSUME NEW f \in HeaderFields
      PROVE  \E i \in DOMAIN F : F[i].field = f
  <2>1. 1 \in DOMAIN F /\ 2 \in DOMAIN F /\ 3 \in DOMAIN F
    BY <1>1
  <2> QED
    BY <1>2, <2>1 DEF HeaderFields
<1>5. ASSUME NEW k \in 1..n, NEW p \in Range(GsvParts)
      PROVE  \E i \in DOMAIN F : F[i].field = Part(k, p)
  <2>1. PICK i \in 1..(4 * n) : SatAt(i) = k /\ PartAt(i) = p
    BY PlacesOfParts
  <2>2. 3 + i \in DOMAIN F
    BY <1>1
  <2>3. F[3 + i].field = Part(k, p)
    BY <1>2, <2>1
  <2> QED
    BY <2>2, <2>3, Zenon
<1>6. FieldsOf(F) \subseteq HeaderFields \union PartFields(n)
  BY <1>3, Zenon DEF FieldsOf
<1>7. HeaderFields \subseteq FieldsOf(F)
  BY <1>4, Zenon DEF FieldsOf
<1>8. PartFields(n) \subseteq FieldsOf(F)
  <2> SUFFICES ASSUME NEW k \in 1..n, NEW p \in Range(GsvParts)
               PROVE  Part(k, p) \in FieldsOf(F)
    BY DEF PartFields
  <2> QED
    BY <1>5, Zenon DEF FieldsOf
<1> QED
  BY <1>6, <1>7, <1>8, Zenon DEF F

(* What the receiver has to say of satellite j, and how it is kept.        *)
SaidOf(j, p) == [means |-> Part(j, p), epoch |-> epoch, n |-> j]

(* Message m as GSVSentence::parse reads it before it looks at it.         *)
ReadsMessage(gsv, m) ==
  /\ Count(gsv) = Groups /\ Number(gsv) = m
  /\ Field("SAT_IN_VIEW") \in DOMAIN gsv
  /\ gsv[Field("SAT_IN_VIEW")] =
       Variant("INT", [means |-> Field("SAT_IN_VIEW"), epoch |-> epoch,
                       n |-> truth.view])
  /\ \A k \in 1..SatsPerMessage : \A p \in Range(GsvParts) :
       /\ Part(k, p) \in DOMAIN gsv
            <=> /\ k <= SatsOf(m) /\ First(m) + k <= truth.view
                /\ ~(First(m) + k = 2 /\ p = "SNR")
       /\ Part(k, p) \in DOMAIN gsv
            => gsv[Part(k, p)].v = SaidOf(First(m) + k, p)

(* A token of a number is taken as it is.                                  *)
LEMMA NumberTokenIsTaken ==
  ASSUME NEW f, NEW x,
         f[1] \in {"MESSAGE_COUNT", "MESSAGE_NUMBER", "SAT_IN_VIEW", "PRN",
                   "ELV", "AZM", "SNR"}
  PROVE  /\ Token(f, x).length > 0
         /\ \A junk : ValueOf("int", Token(f, x), junk) =
              Variant("INT", [means |-> f, epoch |-> epoch, n |-> x])
<1>1. f[1] \notin CharNames \union {"TIME", "DATE"}
  BY DEF CharNames
<1>2. /\ Token(f, x).length = 2 /\ Token(f, x).number = TRUE
      /\ Token(f, x).v = [means |-> f, epoch |-> epoch, n |-> x]
  BY <1>1 DEF Token
<1> QED
  BY <1>2 DEF ValueOf, Type

LEMMA MessageRead ==
  ASSUME TruthOK, NEW m \in 1..Groups, SatsOf(m) \in 0..SatsPerMessage,
         NEW junk
  PROVE  ReadsMessage(ParsePayload(GSV(SatsOf(m)), Sent(<<"GSV", m>>),
                                   NoData, junk), m)
<1> DEFINE n == SatsOf(m)
           F == GSV(n)
           s == Sent(<<"GSV", m>>)
           c == Field("MESSAGE_COUNT")
           o == Field("MESSAGE_NUMBER")
           w == Field("SAT_IN_VIEW")
           A == [f \in FieldsOf(F) |->
                   IF f = c THEN Token(c, Groups)
                   ELSE IF f = o THEN Token(o, m)
                   ELSE IF f = w THEN Token(w, truth.view)
                   ELSE SaidOfSat(Part(First(m) + f[2], f[1]))]
           K == [f \in FieldsOf(F) |-> "int"]
           gsv == ParsePayload(F, s, NoData, junk)
<1>0. n \in Nat /\ SatsPerMessage \in Nat \ {0} /\ First(m) \in Nat
      /\ truth.view \in Nat
  BY MessageFacts, GroupsFacts
<1>1. FieldsOf(F) = HeaderFields \union PartFields(n)
  BY <1>0, FieldsOfGsv
<1>2. c \in FieldsOf(F) /\ o \in FieldsOf(F) /\ w \in FieldsOf(F)
  BY <1>1 DEF HeaderFields
<1>3. \A k, p : p \in Range(GsvParts) =>
        /\ Part(k, p) # c /\ Part(k, p) # o /\ Part(k, p) # w
        /\ Part(k, p)[1] = p /\ Part(k, p)[2] = k
  BY GsvPartsAre DEF Part, Field
<1>4. c # o /\ c # w /\ o # w
  BY DEF Field
<1>5. \A k \in 1..n : \A p \in Range(GsvParts) : Part(k, p) \in FieldsOf(F)
  BY <1>1 DEF PartFields
<1>6. \A k, p : p \in Range(GsvParts) /\ Part(k, p) \in FieldsOf(F)
        => k \in 1..n
  <2> SUFFICES ASSUME NEW k, NEW p \in Range(GsvParts),
                      Part(k, p) \in FieldsOf(F)
               PROVE  k \in 1..n
    BY Zenon
  <2>1. Part(k, p) \in PartFields(n)
    BY <1>1, <1>3, Zenon DEF HeaderFields
  <2>2. PICK j \in 1..n, q \in Range(GsvParts) : Part(k, p) = Part(j, q)
    BY <2>1 DEF PartFields
  <2>3. k = j
    BY <1>3, <2>2
  <2> QED
    BY <2>3
<1> HIDE DEF c, o, w
<1>7. /\ A[c] = Token(c, Groups) /\ A[o] = Token(o, m)
      /\ A[w] = Token(w, truth.view)
  BY <1>2, <1>4
<1>8. \A k \in 1..n : \A p \in Range(GsvParts) :
        A[Part(k, p)] = SaidOfSat(Part(First(m) + k, p))
  BY <1>3, <1>5
<1>9. \A f \in FieldsOf(F) : K[f] = "int"
  OBVIOUS
<1> HIDE DEF A, K
<1>10. Words(F, s, A, K)
  <2> SUFFICES ASSUME NEW i \in DOMAIN F
               PROVE  TokenAt(s, i) = A[F[i].field]
                      /\ F[i].token = K[F[i].field]
    BY Zenon DEF Words
  <2>1. i \in 1..(3 + 4 * n)
    BY <1>0, GsvFormat, ListFacts
  <2>2. TokenAt(s, i) = s.tokens[i]
    <3>1. Len(s.tokens) = 3 + 4 * n
      BY <1>0, SentGsv
    <3> HIDE DEF s
    <3> QED
      BY <1>0, <2>1, <3>1 DEF TokenAt
  <2>3. F[i].field \in FieldsOf(F)
    BY DEF FieldsOf
  <2>4. CASE i \in 1..3
    <3>1. /\ F[1].field = c /\ F[2].field = o /\ F[3].field = w
          /\ F[1].token = "int" /\ F[2].token = "int" /\ F[3].token = "int"
      BY <1>0, GsvFormat DEF field, c, o, w
    <3>2. /\ s.tokens[1] = Token(c, Groups) /\ s.tokens[2] = Token(o, m)
          /\ s.tokens[3] = Token(w, truth.view)
      BY <1>0, SentGsv, Zenon DEF c, o, w
    <3> HIDE DEF F, s
    <3> QED
      BY <1>7, <1>9, <2>2, <2>3, <2>4, <3>1, <3>2
  <2>5. CASE i \notin 1..3
    <3> DEFINE j == i - 3
    <3>1. j \in 1..(4 * n) /\ i = 3 + j
      BY <1>0, <2>1, <2>5
    <3> HIDE DEF j
    <3>2. F[i] = field(Part(SatAt(j), PartAt(j)), "int")
      BY <1>0, <3>1, GsvFormat
    <3>3. s.tokens[i] = SaidOfSat(Part(First(m) + SatAt(j), PartAt(j)))
      BY <1>0, <3>1, SentGsv
    <3>4. SatAt(j) \in 1..n /\ PartAt(j) \in Range(GsvParts)
      BY <1>0, <3>1, PlacesOfParts
    <3>5. F[i].field = Part(SatAt(j), PartAt(j)) /\ F[i].token = "int"
      BY <3>2 DEF field
    <3> HIDE DEF F, s
    <3> QED
      BY <1>8, <1>9, <2>2, <2>3, <3>3, <3>4, <3>5
  <2> QED
    BY <2>4, <2>5
<1>11. ReadsWords(gsv, F, NoData, A, K, junk)
  BY <1>10, PayloadIs, Zenon
<1> HIDE DEF gsv, F, s
<1>12. DOMAIN NoData = {}
  BY DEF NoData
<1>13. /\ DOMAIN gsv = {f \in FieldsOf(F) : A[f].length > 0}
       /\ \A f \in DOMAIN gsv : gsv[f] = ValueOf("int", A[f], junk)
  <2>1. SaidIn(F, A, K) = {f \in FieldsOf(F) : A[f].length > 0}
    BY <1>9 DEF SaidIn, Parses
  <2>2. DOMAIN gsv = SaidIn(F, A, K)
    BY <1>11, <1>12 DEF ReadsWords
  <2>3. \A f \in DOMAIN gsv : f \in FieldsOf(F)
    BY <2>1, <2>2
  <2> QED
    BY <1>9, <1>11, <2>1, <2>2, <2>3 DEF ReadsWords
<1>14. /\ c[1] = "MESSAGE_COUNT" /\ o[1] = "MESSAGE_NUMBER"
       /\ w[1] = "SAT_IN_VIEW"
  BY DEF Field, c, o, w
<1>15. /\ c \in DOMAIN gsv /\ o \in DOMAIN gsv /\ w \in DOMAIN gsv
       /\ gsv[c] = Variant("INT", [means |-> c, epoch |-> epoch,
                                   n |-> Groups])
       /\ gsv[o] = Variant("INT", [means |-> o, epoch |-> epoch, n |-> m])
       /\ gsv[w] = Variant("INT", [means |-> w, epoch |-> epoch,
                                   n |-> truth.view])
  BY <1>2, <1>7, <1>13, <1>14, NumberTokenIsTaken
<1>16. Count(gsv) = Groups /\ Number(gsv) = m
  BY <1>15 DEF Count, Number, AsInt, IsPresent, Variant, c, o
<1>17. ASSUME NEW k \in 1..SatsPerMessage, NEW p \in Range(GsvParts)
       PROVE  /\ Part(k, p) \in DOMAIN gsv
                   <=> /\ k <= n /\ First(m) + k <= truth.view
                       /\ ~(First(m) + k = 2 /\ p = "SNR")
              /\ Part(k, p) \in DOMAIN gsv
                   => gsv[Part(k, p)].v = SaidOf(First(m) + k, p)
  <2> DEFINE f == Part(k, p)
             j == First(m) + k
             t == SaidOfSat(Part(j, p))
  <2>1. f \in FieldsOf(F) <=> k <= n
    BY <1>0, <1>5, <1>6
  <2>2. CASE k <= n
    <3>1. k \in 1..n
      BY <1>0, <2>2
    <3>2. A[f] = t
      BY <1>8, <3>1
    <3>3. Part(j, p)[1] = p /\ Part(j, p)[2] = j
      BY <1>3
    <3>4. t = IF j > truth.view \/ (j = 2 /\ p = "SNR") THEN EmptyToken
              ELSE Token(Part(j, p), j)
      BY <3>3 DEF SaidOfSat, Incomplete
    <3>5. /\ EmptyToken.length = 0
          /\ Token(Part(j, p), j).length > 0
          /\ ValueOf("int", Token(Part(j, p), j), junk) =
               Variant("INT", SaidOf(j, p))
      BY <3>3, GsvPartsAre, NumberTokenIsTaken DEF EmptyToken, SaidOf
    <3> HIDE DEF t, f
    <3>6. j \in Nat
      BY <1>0
    <3> HIDE DEF j
    <3>7. f \in DOMAIN gsv <=> ~(j > truth.view \/ (j = 2 /\ p = "SNR"))
      BY <1>13, <2>1, <2>2, <3>2, <3>4, <3>5
    <3>8. f \in DOMAIN gsv => gsv[f] = Variant("INT", SaidOf(j, p))
      BY <1>13, <3>2, <3>4, <3>5, <3>7
    <3>9. f \in DOMAIN gsv => gsv[f].v = SaidOf(j, p)
      BY <3>8 DEF Variant
    <3>10. f \in DOMAIN gsv <=> j <= truth.view /\ ~(j = 2 /\ p = "SNR")
      BY <1>0, <3>6, <3>7
    <3> QED
      BY <2>2, <3>9, <3>10 DEF f, j
  <2>3. CASE ~(k <= n)
    BY <1>13, <2>1, <2>3
  <2> QED
    BY <2>2, <2>3
<1>18. ReadsMessage(gsv, m)
  BY <1>15, <1>16, <1>17 DEF ReadsMessage, w
<1> QED
  BY <1>18 DEF gsv, F, s

GsvIndex(n) == IF n = SatsPerMessage THEN 4 ELSE 4 + n

(* A message is recognised by the format for as many satellites.           *)
LEMMA GsvRecognised ==
  ASSUME TruthOK, NEW m \in 1..Groups, HasGsv, NEW junk
  PROVE  LET i == GsvIndex(SatsOf(m))
         IN  /\ Recognised(Sent(<<"GSV", m>>), junk) = {i}
             /\ Chain[i] = Kind("GSV", "GPGSV", GSV(SatsOf(m)))
             /\ i \in Nat
<1> DEFINE S == SatsPerMessage
           n == SatsOf(m)
           s == Sent(<<"GSV", m>>)
           i == GsvIndex(n)
           gsv == ParsePayload(GSV(n), s, NoData, junk)
<1>1. n \in 1..S /\ n \in Nat /\ S \in Nat \ {0}
  BY MessageFacts, GroupsFacts
<1>2. /\ s.head = "GPGSV" /\ s.intact = TRUE /\ Len(s.tokens) = 3 + 4 * n
  BY <1>1, SentGsv
<1>3. /\ i \in Nat /\ i \in 1..(S + 6)
      /\ Chain[i] = Kind("GSV", "GPGSV", GSV(n))
  <2>1. CASE n = S
    BY <1>1, <2>1, ChainIs DEF GsvIndex
  <2>2. CASE n # S
    <3>1. n \in 1..(S - 1)
      BY <1>1, <2>2
    <3> HIDE DEF n
    <3>2. i = 4 + n /\ i \in 1..(S + 6)
      BY <1>1, <2>2, <3>1 DEF GsvIndex
    <3>3. Chain[4 + n] = Kind("GSV", "GPGSV", GSV(n))
      BY <3>1, ChainIs
    <3> QED
      BY <3>2, <3>3
  <2> QED
    BY <2>1, <2>2
<1>4. DOMAIN Chain = 1..(S + 6)
  BY ChainIs, ListFacts
<1>5. \A k \in Nat : Len(GSV(k)) = 3 + 4 * k
  BY GsvFormat, ListFacts
<1>6. ReadsMessage(gsv, m)
  <2>1. SatsOf(m) \in 0..SatsPerMessage
    BY <1>1
  <2> QED
    BY <2>1, MessageRead
<1>7. Count(gsv) \in 1..MaxGsvMessages /\ Number(gsv) \in 1..Count(gsv)
  <2>1. Count(gsv) = Groups /\ Number(gsv) = m
    BY <1>6 DEF ReadsMessage
  <2> HIDE DEF gsv
  <2> QED
    BY <2>1, GroupsFacts
<1> HIDE DEF s, gsv, n, i
<1>8. Recognises(Chain[i], s, junk)
  <2>1. /\ Chain[i].id = "GSV" /\ Chain[i].head = "GPGSV"
        /\ Chain[i].format = GSV(n)
    BY <1>3 DEF Kind
  <2>2. Takes(Chain[i], s)
    BY <1>1, <1>2, <1>5, <2>1 DEF Takes
  <2>3. GsvOf(Chain[i], s, junk) = gsv
    BY <2>1, Zenon DEF GsvOf, gsv
  <2> QED
    BY <1>7, <2>1, <2>2, <2>3, Zenon DEF Recognises, TakesGsv
<1>9. ASSUME NEW j \in DOMAIN Chain, Recognises(Chain[j], s, junk)
      PROVE  j = i
  <2>1. Chain[j].head = "GPGSV" /\ Len(Chain[j].format) = 3 + 4 * n
    BY <1>2, <1>9 DEF Recognises, TakesGsv, Takes
  <2>2. ASSUME NEW id, NEW h, NEW F, Chain[j] = Kind(id, h, F)
        PROVE  h = "GPGSV" /\ Len(F) = 3 + 4 * n
    BY <2>1, <2>2 DEF Kind
  <2>3. \/ j = 4 /\ Len(GSV(S)) = 3 + 4 * n
        \/ \E k \in 1..(S - 1) : j = 4 + k /\ Len(GSV(k)) = 3 + 4 * n
    <3>1. \/ j = 4 /\ Chain[j] = Kind("GSV", "GPGSV", GSV(S))
          \/ \E k \in 1..(S - 1) :
               j = 4 + k /\ Chain[j] = Kind("GSV", "GPGSV", GSV(k))
          \/ \E id, F, h : Chain[j] = Kind(id, h, F) /\ h # "GPGSV"
      <4>1. /\ "GPGGA" # "GPGSV" /\ "GPGSA" # "GPGSV" /\ "GPRMC" # "GPGSV"
            /\ "GPGLL" # "GPGSV"
        OBVIOUS
      <4> QED
        BY <4>1, ChainByNumber, Zenon DEF S
    <3>2. ASSUME NEW F, Chain[j] = Kind("GSV", "GPGSV", F)
          PROVE  Len(F) = 3 + 4 * n
      BY <2>2, <3>2, Zenon
    <3>3. \A id, F, h : Chain[j] = Kind(id, h, F) => h = "GPGSV"
      BY <2>2
    <3>4. CASE j = 4 /\ Chain[j] = Kind("GSV", "GPGSV", GSV(S))
      BY <3>2, <3>4, Zenon
    <3>5. CASE \E k \in 1..(S - 1) :
                 j = 4 + k /\ Chain[j] = Kind("GSV", "GPGSV", GSV(k))
      BY <3>2, <3>5, Zenon
    <3> QED
      BY <3>1, <3>3, <3>4, <3>5, Zenon
  <2>4. CASE j = 4 /\ Len(GSV(S)) = 3 + 4 * n
    BY <1>1, <1>5, <2>4 DEF i, GsvIndex
  <2>5. ASSUME NEW k \in 1..(S - 1), j = 4 + k, Len(GSV(k)) = 3 + 4 * n
        PROVE  j = i
    <3>1. Len(GSV(k)) = 3 + 4 * k
      BY <1>1, <1>5
    <3>2. k = n /\ k # S
      BY <1>1, <2>5, <3>1
    <3> QED
      BY <2>5, <3>2 DEF i, GsvIndex
  <2> QED
    BY <2>3, <2>4, <2>5
<1>10. Recognised(s, junk) = {i}
  BY <1>3, <1>4, <1>8, <1>9 DEF Recognised
<1> QED
  BY <1>3, <1>10 DEF i, s, n

(* A message of no satellites that is not padded is not recognised.        *)
LEMMA BareGsvMerged ==
  ASSUME TruthOK, NEW m \in 1..Groups, ~HasGsv, NEW junk, NEW to
  PROVE  LET s == Sent(<<"GSV", m>>)
         IN  Id(s, junk) = "none" /\ Merge(s, to, junk) = to
<1> DEFINE S == SatsPerMessage
           s == Sent(<<"GSV", m>>)
<1>1. SatsOf(m) = 0 /\ S \in Nat \ {0}
  BY MessageFacts, GroupsFacts
<1>2. s.head = "GPGSV" /\ Len(s.tokens) = 3
  <2>1. SatsOf(m) \in Nat /\ 3 + 4 * SatsOf(m) = 3
    BY <1>1
  <2> QED
    BY <2>1, SentGsv
<1>3. \A k \in Nat : Len(GSV(k)) = 3 + 4 * k
  BY GsvFormat, ListFacts
<1> HIDE DEF s
<1>4. ASSUME NEW j \in DOMAIN Chain, Recognises(Chain[j], s, junk)
      PROVE  FALSE
  <2>1. Chain[j].head = "GPGSV" /\ Len(Chain[j].format) = 3
    BY <1>2, <1>4 DEF Recognises, TakesGsv, Takes
  <2>2. ASSUME NEW id, NEW h, NEW F, Chain[j] = Kind(id, h, F)
        PROVE  h = "GPGSV" /\ Len(F) = 3
    BY <2>1, <2>2 DEF Kind
  <2>3. \/ Len(GSV(S)) = 3
        \/ \E k \in 1..(S - 1) : Len(GSV(k)) = 3
    <3>1. \/ Chain[j] = Kind("GSV", "GPGSV", GSV(S))
          \/ \E k \in 1..(S - 1) : Chain[j] = Kind("GSV", "GPGSV", GSV(k))
          \/ \E id, F, h : Chain[j] = Kind(id, h, F) /\ h # "GPGSV"
      <4>1. /\ "GPGGA" # "GPGSV" /\ "GPGSA" # "GPGSV" /\ "GPRMC" # "GPGSV"
            /\ "GPGLL" # "GPGSV"
        OBVIOUS
      <4> QED
        BY <4>1, ChainByNumber, Zenon DEF S
    <3>2. ASSUME NEW F, Chain[j] = Kind("GSV", "GPGSV", F)
          PROVE  Len(F) = 3
      BY <2>2, <3>2, Zenon
    <3>3. \A id, F, h : Chain[j] = Kind(id, h, F) => h = "GPGSV"
      BY <2>2
    <3>4. CASE Chain[j] = Kind("GSV", "GPGSV", GSV(S))
      BY <3>2, <3>4, Zenon
    <3>5. CASE \E k \in 1..(S - 1) : Chain[j] = Kind("GSV", "GPGSV", GSV(k))
      <4>1. PICK k \in 1..(S - 1) : Chain[j] = Kind("GSV", "GPGSV", GSV(k))
        BY <3>5, Zenon
      <4>2. Len(GSV(k)) = 3
        BY <3>2, <4>1, Zenon
      <4> QED
        BY <4>2, Zenon
    <3> QED
      BY <3>1, <3>3, <3>4, <3>5, Zenon
  <2>4. \A k \in Nat \ {0} : Len(GSV(k)) # 3
    <3> SUFFICES ASSUME NEW k \in Nat, k # 0
                 PROVE  Len(GSV(k)) # 3
      BY Zenon
    <3>1. Len(GSV(k)) = 3 + 4 * k
      BY <1>3, Zenon
    <3>2. 3 + 4 * k # 3
      OBVIOUS
    <3> QED
      BY <3>1, <3>2, Zenon
  <2>5. 1..(S - 1) \subseteq Nat \ {0}
    BY <1>1
  <2> QED
    BY <1>1, <2>3, <2>4, <2>5, Zenon
<1>5. Recognised(s, junk) = {}
  BY <1>4, Zenon DEF Recognised
<1> QED
  BY <1>5, Zenon DEF Id, Merge, s

(* The places a message leaves, the first one of a group also those behind *)
(* the group; and the ones of its satellites that are whole.               *)
Gone(m) ==
  {Sat(First(m) + k) : k \in 1..SatsPerMessage}
  \union (IF m = 1
          THEN {Sat(i) : i \in (Groups * SatsPerMessage + 1)..MaxSatInView}
          ELSE {})

Shown(m) ==
  {k \in 1..SatsPerMessage :
     First(m) + k <= truth.view /\ First(m) + k # 2}

SatelliteRead(j) ==
  Variant("SATELLITE", [p \in Range(GsvParts) |-> SaidOf(j, p)])

ViewRead ==
  Variant("INT", [means |-> Field("SAT_IN_VIEW"), epoch |-> epoch,
                  n |-> truth.view])

ReadsGsv(r, m, to) ==
  /\ DOMAIN r = (DOMAIN to \ Gone(m)) \union {Field("SAT_IN_VIEW")}
                \union {Sat(First(m) + k) : k \in Shown(m)}
  /\ r[Field("SAT_IN_VIEW")] = ViewRead
  /\ \A k \in Shown(m) : r[Sat(First(m) + k)] = SatelliteRead(First(m) + k)
  /\ \A f \in DOMAIN to \ Gone(m) :
       f # Field("SAT_IN_VIEW") => r[f] = to[f]

(* A message puts its whole satellites at their places, and nothing at the *)
(* places of the others and, when it is the first, behind its group.       *)
LEMMA MessageMerged ==
  ASSUME TruthOK, NEW m \in 1..Groups, HasGsv, NEW junk, NEW to
  PROVE  LET s == Sent(<<"GSV", m>>)
         IN  /\ Id(s, junk) = "GSV"
             /\ ReadsGsv(Merge(s, to, junk), m, to)
<1> DEFINE s == Sent(<<"GSV", m>>)
           i == GsvIndex(SatsOf(m))
           k == Chain[i]
           gsv == GsvOf(k, s, junk)
           S == SatsPerMessage
           place(n) == Sat(First(m) + n)
           shown == {place(n) : n \in Shown(m)}
           kept == Copied(gsv, Field("SAT_IN_VIEW"), Remove(to, Gone(m)))
           r == Merge(s, to, junk)
<1>1. /\ Recognised(s, junk) = {i}
      /\ k = Kind("GSV", "GPGSV", GSV(SatsOf(m)))
      /\ i \in Nat
  BY GsvRecognised
<1>2. FirstOf(Recognised(s, junk)) = i /\ Recognised(s, junk) # {}
  BY <1>1, FirstOfOne
<1>3. Id(s, junk) = "GSV" /\ r = MergeGsv(k, s, to, junk)
  BY <1>1, <1>2 DEF Id, Merge, Kind
<1>4. ReadsMessage(gsv, m)
  <2>1. SatsOf(m) \in 0..SatsPerMessage
    BY MessageFacts, GroupsFacts
  <2>2. gsv = ParsePayload(GSV(SatsOf(m)), s, NoData, junk)
    BY <1>1 DEF GsvOf, Kind
  <2> QED
    BY <2>1, <2>2, MessageRead
<1>5. Count(gsv) = Groups /\ Number(gsv) = m
  BY <1>4 DEF ReadsMessage
<1>6. IsPresent(gsv, Field("SAT_IN_VIEW"))
      /\ gsv[Field("SAT_IN_VIEW")] = ViewRead
  BY <1>4 DEF ReadsMessage, IsPresent, ViewRead
<1>7. m \in Int /\ First(m) \in Nat /\ S \in Nat \ {0}
  BY MessageFacts, GroupsFacts
<1>8. \A n \in 1..S : IsWhole(gsv, n) <=> n \in Shown(m)
  <2> SUFFICES ASSUME NEW n \in 1..S
               PROVE  IsWhole(gsv, n) <=> n \in Shown(m)
    OBVIOUS
  <2>1. \A p \in Range(GsvParts) : Part(n, p) \in DOMAIN gsv
          <=> /\ n <= SatsOf(m) /\ First(m) + n <= truth.view
              /\ ~(First(m) + n = 2 /\ p = "SNR")
    BY <1>4 DEF ReadsMessage
  <2> HIDE DEF gsv
  <2>2. "SNR" \in Range(GsvParts)
    BY GsvPartsAre
  <2>3. n > SatsOf(m) => First(m) + n > truth.view
    BY <1>7, MessageFacts DEF SatsOf
  <2> QED
    <3>1. IsWhole(gsv, n)
            <=> /\ n <= SatsOf(m) /\ First(m) + n <= truth.view
                /\ First(m) + n # 2
      BY <2>1, <2>2 DEF IsWhole, IsPresent
    <3>2. SatsOf(m) \in Int
      BY MessageFacts
    <3>3. n <= SatsOf(m) \/ n > SatsOf(m)
      BY <3>2
    <3>4. truth.view \in Int
      BY GroupsFacts
    <3>5. First(m) + n <= truth.view => ~(First(m) + n > truth.view)
      BY <1>7, <3>4
    <3> QED
      BY <2>3, <3>1, <3>3, <3>5 DEF Shown
<1>9. \A n \in Shown(m) : SatelliteOf(gsv, n) = SatelliteRead(First(m) + n)
  <2> SUFFICES ASSUME NEW n \in Shown(m)
               PROVE  SatelliteOf(gsv, n) = SatelliteRead(First(m) + n)
    OBVIOUS
  <2>1. n \in 1..S /\ IsWhole(gsv, n)
    BY <1>8 DEF Shown
  <2>2. \A p \in Range(GsvParts) :
          gsv[Part(n, p)].v = SaidOf(First(m) + n, p)
    BY <1>4, <2>1 DEF ReadsMessage, IsWhole, IsPresent
  <2> HIDE DEF gsv
  <2>3. [p \in Range(GsvParts) |-> gsv[Part(n, p)].v]
          = [p \in Range(GsvParts) |-> SaidOf(First(m) + n, p)]
    BY <2>2
  <2> QED
    BY <2>3, Zenon DEF SatelliteOf, SatelliteRead
<1>10. Cleared(gsv) \union {place(n) : n \in Places(gsv)} = Gone(m)
  <2>1. Places(gsv) = 1..S
    BY DEF Places
  <2>2. Cleared(gsv) =
          IF m = 1 THEN {Sat(j) : j \in (Groups * S + 1)..MaxSatInView} ELSE {}
    BY <1>5 DEF Cleared
  <2> QED
    BY <2>1, <2>2 DEF Gone
<1>11. \A n : Sat((Number(gsv) - 1) * S + n) = place(n)
  BY <1>5 DEF First
<1>12. {n \in 1..S : IsWhole(gsv, n)} = Shown(m)
  BY <1>8 DEF Shown
<1> HIDE DEF gsv, k, i, s
<1>13. r = [f \in DOMAIN kept \union shown |->
              IF f \in shown
              THEN SatelliteOf(gsv, CHOOSE n \in Shown(m) : place(n) = f)
              ELSE kept[f]]
  <2> DEFINE at(n) == Sat((Number(gsv) - 1) * S + n)
             whole == {n \in 1..S : IsWhole(gsv, n)}
             left == Remove(to, Cleared(gsv)
                                \union {at(n) : n \in Places(gsv)})
             got == Copied(gsv, Field("SAT_IN_VIEW"), left)
             was(f) == CHOOSE n \in whole : at(n) = f
             is(f) == CHOOSE n \in Shown(m) : place(n) = f
  <2>1. r = [f \in DOMAIN got \union {at(n) : n \in whole} |->
               IF f \in {at(n) : n \in whole}
               THEN SatelliteOf(gsv, was(f))
               ELSE got[f]]
    BY <1>3, Zenon DEF MergeGsv, gsv
  <2>2. \A n : at(n) = place(n)
    BY <1>11
  <2>3. whole = Shown(m)
    BY <1>12
  <2> HIDE DEF whole, at, place
  <2>4. /\ {at(n) : n \in whole} = shown
        /\ {at(n) : n \in Places(gsv)} = {place(n) : n \in Places(gsv)}
    BY <2>2, <2>3
  <2>5. got = kept
    BY <1>10, <2>4 DEF place
  <2>6. \A f : was(f) = is(f)
    BY <2>2, <2>3
  <2> HIDE DEF got, kept, shown, r, was, is
  <2>7. r = [f \in DOMAIN kept \union shown |->
               IF f \in shown THEN SatelliteOf(gsv, is(f)) ELSE kept[f]]
    BY <2>1, <2>4, <2>5, <2>6
  <2> QED
    BY <2>7, Zenon DEF is
<1> HIDE DEF r
<1>14. /\ DOMAIN kept = (DOMAIN to \ Gone(m)) \union {Field("SAT_IN_VIEW")}
       /\ kept[Field("SAT_IN_VIEW")] = ViewRead
       /\ \A f \in DOMAIN to \ Gone(m) :
            f # Field("SAT_IN_VIEW") => kept[f] = to[f]
  BY <1>6 DEF Copied, Set, Remove, Restrict
<1> HIDE DEF kept
<1>15. Field("SAT_IN_VIEW") \notin shown
  BY DEF Field, Sat
<1>16. \A n \in Shown(m) : (CHOOSE x \in Shown(m) : place(x) = place(n)) = n
  <2>1. \A n, x \in Shown(m) : place(x) = place(n) => x = n
    BY <1>7 DEF Shown, Sat
  <2> QED
    BY <2>1
<1>17. shown \subseteq Gone(m)
  BY DEF Gone, Shown
<1>18. \A n \in Shown(m) : r[place(n)] = SatelliteRead(First(m) + n)
  BY <1>9, <1>13, <1>16
<1>19. \A f \in DOMAIN kept \ shown : r[f] = kept[f]
  BY <1>13
<1>20. DOMAIN r = DOMAIN kept \union shown
  BY <1>13
<1> HIDE DEF shown
<1>21. r[Field("SAT_IN_VIEW")] = ViewRead
  BY <1>14, <1>15, <1>19
<1>22. \A f \in DOMAIN to \ Gone(m) :
         f # Field("SAT_IN_VIEW") => r[f] = to[f]
  BY <1>14, <1>17, <1>19
<1> QED
  BY <1>3, <1>14, <1>18, <1>20, <1>21, <1>22, Zenon
  DEF ReadsGsv, r, s, shown

-----------------------------------------------------------------------------
(* The numbers of a set in their order.                                    *)

(* A set of numbers has a least one.                                       *)
LEMMA LeastExists ==
  ASSUME NEW I \in SUBSET Nat, I # {}
  PROVE  \E i \in I : \A j \in I : i <= j
<1> DEFINE R == {pair \in Nat \X Nat : pair[1] < pair[2]}
<1>1. IsWellFoundedOn(R, Nat)
  BY NatLessThanWellFounded, Zenon DEF OpToRel
<1>2. \A i, j \in Nat : i < j => <<i, j>> \in R
  OBVIOUS
<1> HIDE DEF R
<1>3. PICK i \in I : \A j \in I : <<j, i>> \notin R
  BY <1>1, WFMin
<1>4. \A j \in I : i <= j
  <2> SUFFICES ASSUME NEW j \in I, ~(i <= j) PROVE FALSE
    OBVIOUS
  <2>1. i \in Nat /\ j \in Nat /\ j < i
    OBVIOUS
  <2> QED
    BY <1>2, <1>3, <2>1, Zenon
<1> QED
  BY <1>4

(* The numbers of I up to i.                                               *)
UpTo(I, i) == {j \in I : j <= i}

LEMMA UpToIs ==
  ASSUME NEW I \in SUBSET Nat, NEW i \in Nat \ {0}
  PROVE  /\ UpTo(I, i) = IF i \in I THEN UpTo(I, i - 1) \union {i}
                         ELSE UpTo(I, i - 1)
         /\ i \notin UpTo(I, i - 1)
<1>1. \A j \in I : j <= i <=> (j <= i - 1 \/ j = i)
  OBVIOUS
<1>2. i \notin UpTo(I, i - 1) /\ \A j \in UpTo(I, i - 1) : j \in I
  BY DEF UpTo
<1>3. i \in I => UpTo(I, i) = UpTo(I, i - 1) \union {i}
  BY <1>1, <1>2, Zenon DEF UpTo
<1>4. i \notin I => UpTo(I, i) = UpTo(I, i - 1)
  BY <1>1, <1>2, Zenon DEF UpTo
<1> QED
  BY <1>2, <1>3, <1>4

(* Of the numbers of I there are as many as I has elements.                *)
LEMMA NthIsOne ==
  ASSUME NEW n \in Nat, NEW I \in SUBSET (1..n)
  PROVE  /\ Cardinality(I) \in 0..n
         /\ \A k \in 1..Cardinality(I) : Nth(I, k) \in I
<1> DEFINE c == Cardinality(I)
<1>1. IsFiniteSet(I) /\ c \in Nat /\ c <= n
  <2>1. IsFiniteSet(1..n) /\ Cardinality(1..n) = n
    BY FS_Interval
  <2> QED
    BY <2>1, FS_Subset, FS_CardinalityType
<1>2. \A i : IsFiniteSet(UpTo(I, i)) /\ Cardinality(UpTo(I, i)) \in Nat
  <2>1. \A i : UpTo(I, i) \in SUBSET I
    BY DEF UpTo
  <2> QED
    BY <1>1, <2>1, FS_Subset, FS_CardinalityType
<1>3. ASSUME NEW k \in 1..c
      PROVE  \E i \in I : Cardinality(UpTo(I, i)) = k
  <2> DEFINE T == {i \in 1..n : Cardinality(UpTo(I, i)) >= k}
  <2>1. n \in T
    <3>1. UpTo(I, n) = I
      <4>1. \A j \in I : j <= n
        OBVIOUS
      <4> QED
        BY <4>1, Zenon DEF UpTo
    <3>2. I # {}
      BY <1>1, FS_EmptySet
    <3>3. n \in 1..n
      <4>1. PICK j : j \in I
        BY <3>2
      <4> QED
        BY <4>1
    <3> QED
      BY <1>1, <3>1, <3>3
  <2>2. PICK i \in T : \A j \in T : i <= j
    <3>1. T \in SUBSET Nat
      OBVIOUS
    <3> HIDE DEF T
    <3> QED
      BY <2>1, <3>1, LeastExists
  <2>3. i \in 1..n /\ Cardinality(UpTo(I, i)) >= k
    BY <2>2
  <2>4. i - 1 \in 1..n => ~(Cardinality(UpTo(I, i - 1)) >= k)
    <3>1. ASSUME i - 1 \in T PROVE FALSE
      BY <2>2, <2>3, <3>1
    <3> QED
      BY <3>1
  <2> HIDE DEF T
  <2>5. Cardinality(UpTo(I, 0)) = 0
    <3>1. UpTo(I, 0) = {}
      <4>1. \A j \in I : ~(j <= 0)
        OBVIOUS
      <4> QED
        BY <4>1, Zenon DEF UpTo
    <3> QED
      BY <3>1, FS_EmptySet, Zenon
  <2>6. ~(Cardinality(UpTo(I, i - 1)) >= k)
    <3>1. CASE i = 1
      <4>1. i - 1 = 0
        BY <3>1
      <4> QED
        BY <2>5, <4>1
    <3>2. CASE i # 1
      BY <2>3, <2>4, <3>2
    <3> QED
      BY <3>1, <3>2
  <2> DEFINE below == UpTo(I, i - 1)
  <2>7. /\ UpTo(I, i) = IF i \in I THEN below \union {i} ELSE below
        /\ i \notin below
    <3>1. i \in Nat \ {0} /\ I \in SUBSET Nat
      BY <2>3
    <3> QED
      BY <3>1, UpToIs, Zenon
  <2>8. IsFiniteSet(below) /\ Cardinality(below) \in Nat
    BY <1>2
  <2>9. Cardinality(below \union {i}) =
          IF i \in below THEN Cardinality(below) ELSE Cardinality(below) + 1
    BY <2>8, FS_AddElement
  <2> HIDE DEF below
  <2>10. i \in I
    BY <2>3, <2>6, <2>7, Zenon DEF below
  <2>11. Cardinality(UpTo(I, i)) = Cardinality(below) + 1
    BY <2>7, <2>9, <2>10, Zenon
  <2>12. Cardinality(UpTo(I, i)) = k
    BY <2>3, <2>6, <2>8, <2>11 DEF below
  <2> QED
    BY <2>10, <2>12
<1>4. \A k \in 1..c : Nth(I, k) \in I
  BY <1>3, Zenon DEF Nth, UpTo
<1> QED
  BY <1>1, <1>4

(* The satellites handed out are those present, at most one for each place.*)
LEMMA SatsAreFew ==
  ASSUME NEW i
  PROVE  /\ Len(SatsInView(i)) <= MaxSatInView
         /\ Present(i) = {} => SatsInView(i) = <<>>
<1> DEFINE c == Cardinality(Present(i))
           sats == SatsInView(i)
<1>1. MaxSatInView \in Nat
  BY NmeaDataAssumption DEF MaxSatInView
<1>2. Present(i) \in SUBSET (1..MaxSatInView)
  BY DEF Present
<1>3. c \in 0..MaxSatInView
  BY <1>1, <1>2, NthIsOne
<1>4. sats = [k \in 1..c |-> sats[k]] /\ DOMAIN sats = 1..c
  BY DEF SatsInView
<1>5. Len(sats) = c
  BY <1>3, <1>4, ListFacts DEF IsList
<1>6. Present(i) = {} => SatsInView(i) = <<>>
  <2> SUFFICES ASSUME Present(i) = {}
               PROVE  sats = <<>>
    OBVIOUS
  <2>1. c = 0
    BY FS_EmptySet
  <2> QED
    BY <2>1 DEF SatsInView
<1> QED
  BY <1>1, <1>3, <1>5, <1>6

-----------------------------------------------------------------------------
(* The sentences still to be sent: the end of the round of this epoch.     *)

GroupsOf(view) ==
  IF view = 0 THEN 1 ELSE (view + SatsPerMessage - 1) \div SatsPerMessage

RoundLength(d, view) == GroupsOf(view) + (IF d.gll THEN 4 ELSE 3)

RoundAt(view, i) ==
  IF i = 1 THEN <<"GGA", 0>>
  ELSE IF i = 2 THEN <<"GSA", 0>>
  ELSE IF i <= GroupsOf(view) + 2 THEN <<"GSV", i - 2>>
  ELSE IF i = GroupsOf(view) + 3 THEN <<"RMC", 0>>
  ELSE <<"GLL", 0>>

LEMMA GroupsPositive ==
  ASSUME NEW v \in Nat
  PROVE  GroupsOf(v) \in Nat \ {0}
<1> DEFINE S == SatsPerMessage
           x == v + S - 1
<1>1. S \in Nat \ {0}
  BY NmeaDataAssumption
<1>2. CASE v = 0
  BY <1>2 DEF GroupsOf
<1>3. CASE v # 0
  <2>1. x \in Nat /\ x >= S
    BY <1>1, <1>3
  <2>2. GroupsOf(v) = x \div S
    BY <1>3, Zenon DEF GroupsOf
  <2> HIDE DEF x, S
  <2>3. x \div S \in Int /\ x % S \in 0..(S - 1)
        /\ x = S * (x \div S) + (x % S)
    BY <1>1, <2>1, SMTT(20)
  <2>4. x \div S > 0
    <3> DEFINE q == x \div S
    <3>1. ASSUME NEW y \in Nat, q = -y
          PROVE  FALSE
      <4>1. S * q = -(S * y) /\ S * y \in Nat
        BY <1>1, <3>1
      <4> QED
        BY <1>1, <2>1, <2>3, <4>1
    <3> HIDE DEF q
    <3>2. q \in Int /\ (q > 0 \/ (-q \in Nat /\ q = -(-q)))
      BY <2>3 DEF q
    <3> QED
      BY <3>1, <3>2 DEF q
  <2> QED
    BY <2>2, <2>3, <2>4
<1> QED
  BY <1>2, <1>3

LEMMA RoundIs ==
  ASSUME NEW d, NEW v \in Nat, d.gll \in BOOLEAN
  PROVE  /\ IsList(Round(d, v), RoundLength(d, v))
         /\ \A i \in 1..RoundLength(d, v) : Round(d, v)[i] = RoundAt(v, i)
<1> DEFINE G == GroupsOf(v)
           a == << <<"GGA", 0>>, <<"GSA", 0>> >>
           b == [m \in 1..G |-> <<"GSV", m>>]
           c == << <<"RMC", 0>> >>
           e == IF d.gll THEN << <<"GLL", 0>> >> ELSE <<>>
           n == IF d.gll THEN 1 ELSE 0
<1>1. G \in Nat \ {0}
  BY GroupsPositive
<1>2. Round(d, v) = a \o b \o c \o e
  BY Zenon DEF Round, GroupsOf
<1>3. IsList(a, 2) /\ IsList(c, 1)
  BY DEF IsList
<1>4. IsList(b, G)
  BY <1>1 DEF IsList
<1>5. IsList(e, n)
  BY DEF IsList
<1>6. /\ a[1] = <<"GGA", 0>> /\ a[2] = <<"GSA", 0>>
      /\ c[1] = <<"RMC", 0>>
  OBVIOUS
<1>7. \A m \in 1..G : b[m] = <<"GSV", m>>
  OBVIOUS
<1>8. \A m \in 1..n : e[m] = <<"GLL", 0>>
  OBVIOUS
<1>9. n \in {0, 1} /\ RoundLength(d, v) = G + 3 + n
  BY <1>1 DEF RoundLength
<1> HIDE DEF G, a, b, c, e, n
<1>10. Joins(a \o b, a, 2, b, G) /\ IsList(a \o b, 2 + G)
  <2>1. Joins(a \o b, a, 2, b, G)
    BY <1>3, <1>4, ConcatIs, Zenon
  <2> QED
    BY <2>1, Zenon DEF Joins
<1>11. Joins(a \o b \o c, a \o b, 2 + G, c, 1)
       /\ IsList(a \o b \o c, 2 + G + 1)
  <2>1. Joins(a \o b \o c, a \o b, 2 + G, c, 1)
    BY <1>3, <1>10, ConcatIs, Zenon
  <2> QED
    BY <2>1, Zenon DEF Joins
<1>12. Joins(a \o b \o c \o e, a \o b \o c, 2 + G + 1, e, n)
       /\ IsList(a \o b \o c \o e, 2 + G + 1 + n)
  <2>1. Joins(a \o b \o c \o e, a \o b \o c, 2 + G + 1, e, n)
    BY <1>5, <1>11, ConcatIs, Zenon
  <2> QED
    BY <2>1, Zenon DEF Joins
<1>13. 2 + G + 1 + n = RoundLength(d, v)
  BY <1>1, <1>9
<1> DEFINE ab == a \o b
           abc == ab \o c
           r == abc \o e
<1>14. /\ ab[1] = <<"GGA", 0>> /\ ab[2] = <<"GSA", 0>>
       /\ \A m \in 1..G : ab[2 + m] = <<"GSV", m>>
  <2>1. /\ \A i \in 1..2 : ab[i] = a[i]
        /\ \A m \in 1..G : ab[2 + m] = b[m]
    BY <1>10, Zenon DEF Joins
  <2> HIDE DEF ab
  <2> QED
    BY <1>6, <1>7, <2>1
<1> HIDE DEF ab
<1>15. /\ \A i \in 1..(2 + G) : abc[i] = ab[i]
       /\ abc[2 + G + 1] = <<"RMC", 0>>
  <2>1. /\ \A i \in 1..(2 + G) : abc[i] = ab[i]
        /\ \A m \in 1..1 : abc[2 + G + m] = c[m]
    BY <1>11, Zenon DEF Joins, ab
  <2> HIDE DEF abc
  <2>2. abc[2 + G + 1] = c[1]
    BY <2>1
  <2> QED
    BY <1>6, <2>1, <2>2
<1> HIDE DEF abc
<1>16. /\ \A i \in 1..(2 + G + 1) : r[i] = abc[i]
       /\ \A i \in 1..n : r[2 + G + 1 + i] = <<"GLL", 0>>
  BY <1>8, <1>12 DEF Joins, ab, abc
<1>17. r = Round(d, v)
  BY <1>2 DEF ab, abc
<1> HIDE DEF r
<1>18. ASSUME NEW i \in 1..(2 + G + 1 + n)
       PROVE  r[i] = RoundAt(v, i)
  <2>1. CASE i \in {1, 2}
    BY <1>1, <1>14, <1>15, <1>16, <2>1 DEF RoundAt
  <2>2. CASE i \in 3..(2 + G)
    <3>1. i - 2 \in 1..G /\ i = 2 + (i - 2)
      BY <1>1, <2>2
    <3>2. ab[i] = <<"GSV", i - 2>>
      BY <1>14, <3>1
    <3>3. r[i] = ab[i]
      BY <1>1, <1>15, <1>16, <2>2
    <3> QED
      BY <1>1, <2>2, <3>2, <3>3 DEF RoundAt, G
  <2>3. CASE i = G + 3
    BY <1>1, <1>15, <1>16, <2>3 DEF RoundAt, G
  <2>4. CASE i > G + 3
    <3>1. n = 1 /\ i = 2 + G + 1 + 1
      BY <1>1, <1>9, <2>4
    <3>2. r[i] = <<"GLL", 0>>
      BY <1>16, <3>1
    <3> QED
      BY <1>1, <2>4, <3>2 DEF RoundAt, G
  <2> QED
    BY <1>1, <1>9, <2>1, <2>2, <2>3, <2>4
<1> QED
  BY <1>12, <1>13, <1>17, <1>18, Zenon DEF r, ab, abc

LEMMA TailIs ==
  ASSUME NEW s, NEW n, IsList(s, n), n # 0
  PROVE  /\ IsList(Tail(s), n - 1) /\ Head(s) = s[1]
         /\ \A i \in 1..(n - 1) : Tail(s)[i] = s[i + 1]
<1> DEFINE S == {s[i] : i \in 1..n}
<1>0. n \in Nat
  BY DEF IsList
<1>1. s \in [1..n -> S]
  BY DEF IsList
<1> HIDE DEF S
<1>2. s \in Seq(S) /\ Len(s) = n
  BY <1>0, <1>1
<1>3. Tail(s) \in Seq(S) /\ Len(Tail(s)) = n - 1
  BY <1>0, <1>2
<1>4. IsList(Tail(s), n - 1)
  BY <1>3, SeqIsList, Zenon
<1>5. Head(s) = s[1] /\ \A i \in 1..(n - 1) : Tail(s)[i] = s[i + 1]
  BY <1>0, <1>2
<1> QED
  BY <1>4, <1>5

(* How many sentences of the round have been sent.                         *)
Done == RoundLength(dialect, truth.view) - Len(queue)

QueueOK ==
  /\ Done \in Nat /\ IsList(queue, Len(queue))
  /\ \A i \in 1..Len(queue) : queue[i] = RoundAt(truth.view, Done + i)

LEMMA QueueStep ==
  ASSUME QueueOK, TruthOK, DialectOK, Sentences, UNCHANGED <<dialect, truth>>
  PROVE  /\ QueueOK' /\ Done' = Done + 1
         /\ Head(queue) = RoundAt(truth.view, Done + 1)
         /\ Done < RoundLength(dialect, truth.view)
<1> DEFINE n == Len(queue)
           L == RoundLength(dialect, truth.view)
<1>1. n \in Nat /\ IsList(queue, n)
  BY ListFacts DEF QueueOK
<1>2. L \in Nat
  <2>1. truth.view \in Nat
    BY GroupsFacts
  <2> QED
    BY <2>1, GroupsPositive DEF RoundLength, DialectOK
<1>3. n # 0
  <2>1. n = 0 => queue = <<>>
    BY <1>1 DEF IsList
  <2> QED
    BY <2>1 DEF Sentences
<1>4. /\ IsList(Tail(queue), n - 1) /\ Head(queue) = queue[1]
      /\ \A i \in 1..(n - 1) : Tail(queue)[i] = queue[i + 1]
  BY <1>1, <1>3, TailIs
<1>5. queue' = Tail(queue) /\ Len(queue') = n - 1
  BY <1>4, ListFacts DEF Sentences
<1>6. L' = L /\ RoundAt(truth.view, 0)' = RoundAt(truth.view, 0)
      /\ truth' = truth
  OBVIOUS
<1>7. Done' = Done + 1 /\ Done = L - n
  BY <1>1, <1>2, <1>5, <1>6 DEF Done
<1>8. Done \in Nat /\ \A i \in 1..n : queue[i] = RoundAt(truth.view, Done + i)
  BY DEF QueueOK
<1> HIDE DEF n, L
<1>9. ASSUME NEW i \in 1..(n - 1)
      PROVE  queue'[i] = RoundAt(truth.view, Done + 1 + i)
  <2>1. i + 1 \in 1..n /\ Done + (i + 1) = Done + 1 + i
    BY <1>1, <1>8
  <2>2. queue[i + 1] = RoundAt(truth.view, Done + (i + 1))
    BY <1>8, <2>1
  <2> QED
    BY <1>4, <1>5, <2>1, <2>2
<1>10. QueueOK'
  <2>1. Done' \in Nat /\ IsList(queue', Len(queue'))
    BY <1>4, <1>5, <1>7, <1>8
  <2>2. \A i \in 1..Len(queue') : queue'[i] = RoundAt(truth.view, Done' + i)
    BY <1>5, <1>7, <1>9
  <2>3. \A i \in 1..Len(queue') : queue'[i] = RoundAt(truth'.view, Done' + i)
    BY <1>6, <2>2
  <2> QED
    BY <2>1, <2>3, Zenon DEF QueueOK
<1>11. Head(queue) = RoundAt(truth.view, Done + 1)
  BY <1>1, <1>3, <1>4, <1>8
<1>12. Done < L
  BY <1>1, <1>2, <1>3, <1>7
<1> QED
  BY <1>7, <1>10, <1>11, <1>12 DEF L

(* Which sentence comes next: one of the kinds, GGA only at the beginning  *)
(* of the round, or a message of the GSV group.                            *)
KindComes(id) ==
  /\ Head(queue) = <<id, 0>> /\ (id = "GGA" <=> Done = 0)
  /\ Done \notin 2..(Groups + 1)

GsvComes(m) == Head(queue) = <<"GSV", m>> /\ Done = m + 1

LEMMA HeadIs ==
  ASSUME QueueOK, TruthOK, DialectOK, Sentences, UNCHANGED <<dialect, truth>>
  PROVE  \/ \E id \in Kinds : KindComes(id)
         \/ \E m \in 1..Groups : GsvComes(m)
<1> DEFINE v == truth.view
<1>1. /\ Head(queue) = RoundAt(v, Done + 1) /\ Done \in Nat
      /\ Done < RoundLength(dialect, v)
  BY QueueStep DEF QueueOK
<1>2. Groups = GroupsOf(v) /\ Groups \in Nat \ {0}
  <2>1. v \in Nat
    BY GroupsFacts
  <2> QED
    BY <2>1, GroupsPositive DEF Groups, GroupsOf
<1>3. /\ "GGA" \in Kinds /\ "GSA" \in Kinds /\ "RMC" \in Kinds
      /\ "GLL" \in Kinds /\ "GSA" # "GGA" /\ "RMC" # "GGA" /\ "GLL" # "GGA"
  BY DEF Kinds
<1>4. Done + 1 <= Groups + 4
  BY <1>1, <1>2 DEF RoundLength, DialectOK
<1>5. CASE Done + 1 = 1
  <2>1. Head(queue) = <<"GGA", 0>> /\ Done = 0
    BY <1>1, <1>5 DEF RoundAt
  <2> QED
    BY <1>3, <2>1 DEF KindComes
<1>6. CASE Done + 1 = 2
  <2>1. Head(queue) = <<"GSA", 0>> /\ Done = 1
    BY <1>1, <1>6 DEF RoundAt
  <2> QED
    BY <1>3, <2>1 DEF KindComes
<1>7. CASE Done + 1 \in 3..(Groups + 2)
  <2>1. Head(queue) = <<"GSV", Done - 1>>
    BY <1>1, <1>2, <1>7 DEF RoundAt
  <2>2. Done - 1 \in 1..Groups /\ Done = (Done - 1) + 1
    BY <1>1, <1>2, <1>7
  <2> QED
    BY <2>1, <2>2 DEF GsvComes
<1>8. CASE Done + 1 = Groups + 3
  <2>1. Head(queue) = <<"RMC", 0>>
    BY <1>1, <1>2, <1>8 DEF RoundAt
  <2>2. Done # 0 /\ Done \notin 2..(Groups + 1)
    BY <1>1, <1>2, <1>8
  <2> QED
    BY <1>3, <2>1, <2>2 DEF KindComes
<1>9. CASE Done + 1 = Groups + 4
  <2>1. Head(queue) = <<"GLL", 0>>
    BY <1>1, <1>2, <1>9 DEF RoundAt
  <2>2. Done # 0 /\ Done \notin 2..(Groups + 1)
    BY <1>1, <1>2, <1>9
  <2> QED
    BY <1>3, <2>1, <2>2 DEF KindComes
<1> QED
  BY <1>1, <1>2, <1>4, <1>5, <1>6, <1>7, <1>8, <1>9

-----------------------------------------------------------------------------
(* One sentence: what it makes of the fields, before satellites that are   *)
(* too old are dropped, is r, of which the data are made.                  *)

TimerRuns == gsvTimer' = IF HasRunOver THEN epoch ELSE gsvTimer
DropsOld(r) == info' = IF HasRunOver THEN ClearSatsInView(r) ELSE r

KindHeard(r, id, junk) ==
  /\ KindComes(id) /\ ReadsKind(r, id, info, junk)
  /\ DropsOld(r) /\ TimerRuns /\ HearOther
  /\ damaged' = damaged

GsvHeard(r, m) ==
  /\ GsvComes(m) /\ HasGsv /\ ReadsGsv(r, m, info)
  /\ info' = r /\ gsvTimer' = epoch /\ HearGsv
  /\ damaged' = damaged

(* A damaged sentence, or a GSV of no satellites.                          *)
NothingHeard(r) ==
  /\ r = info /\ DropsOld(r) /\ TimerRuns /\ HearOther
  /\ IF Done = 0 THEN damaged' = damaged + 1
     ELSE damaged' \in {damaged, damaged + 1}

SentenceDone(r) ==
  /\ UNCHANGED recvVars
  /\ QueueOK' /\ Done' = Done + 1
  /\ data' = [fix |-> FixOf(r), sats |-> SatsInView(r)]
  /\ \/ \E id \in Kinds : \E junk : KindHeard(r, id, junk)
     \/ \E m \in 1..Groups : GsvHeard(r, m)
     \/ NothingHeard(r)

Settled ==
  /\ DialectOK /\ TruthOK /\ QueueOK
  /\ epoch \in 1..MaxEpochs /\ damaged \in Nat

LEMMA OneSentence ==
  ASSUME Settled, Hear \/ HearDamaged
  PROVE  \E r : SentenceDone(r)
<1> USE DEF Settled
<1>1. Sentences /\ UNCHANGED recvVars
  BY DEF Hear, HearDamaged
<1>2. UNCHANGED <<dialect, truth>>
  BY <1>1 DEF recvVars
<1>3. QueueOK' /\ Done' = Done + 1 /\ Done \in Nat
  BY <1>1, <1>2, QueueStep DEF QueueOK
<1> DEFINE s == Sent(Head(queue))
<1>4. CASE Hear
  <2>1. PICK junk : TryParse(s, junk)
    BY <1>4 DEF Hear
  <2>2. (IF IsGsv THEN HearGsv ELSE HearOther) /\ damaged' = damaged
    BY <1>4 DEF Hear
  <2> DEFINE r == Merge(s, info, junk)
  <2>3. data' = [fix |-> FixOf(r), sats |-> SatsInView(r)]
    BY <2>1 DEF TryParse
  <2>4. /\ info' = IF Id(s, junk) # "GSV" /\ HasRunOver
                   THEN ClearSatsInView(r) ELSE r
        /\ gsvTimer' = IF Id(s, junk) = "GSV" \/ HasRunOver THEN epoch
                       ELSE gsvTimer
    BY <2>1 DEF TryParse
  <2> HIDE DEF r
  <2>5. ASSUME NEW id \in Kinds, KindComes(id)
        PROVE  KindHeard(r, id, junk)
    <3>1. Id(s, junk) = id /\ ReadsKind(r, id, info, junk)
      <4>1. s = Sent(<<id, 0>>)
        BY <2>5 DEF KindComes
      <4> QED
        BY <4>1, KindMerged DEF r
    <3>2. id # "GSV" /\ ~IsGsv
      BY <2>5 DEF IsGsv, KindComes, Kinds
    <3> HIDE DEF s
    <3>3. DropsOld(r) /\ TimerRuns
      BY <2>4, <3>1, <3>2 DEF DropsOld, TimerRuns
    <3> QED
      BY <2>2, <2>5, <3>1, <3>2, <3>3 DEF KindHeard
  <2>6. ASSUME NEW m \in 1..Groups, GsvComes(m), HasGsv
        PROVE  GsvHeard(r, m)
    <3>1. Id(s, junk) = "GSV" /\ ReadsGsv(r, m, info)
      <4>1. s = Sent(<<"GSV", m>>)
        BY <2>6 DEF GsvComes
      <4> QED
        BY <2>6, <4>1, MessageMerged DEF r
    <3>2. IsGsv
      BY <2>6 DEF IsGsv, GsvComes, HasGsv
    <3> HIDE DEF s
    <3> QED
      BY <2>2, <2>4, <2>6, <3>1, <3>2 DEF GsvHeard
  <2>7. ASSUME NEW m \in 1..Groups, GsvComes(m), ~HasGsv
        PROVE  NothingHeard(r)
    <3>1. Id(s, junk) = "none" /\ r = info
      <4>1. s = Sent(<<"GSV", m>>)
        BY <2>7 DEF GsvComes
      <4> QED
        BY <2>7, <4>1, BareGsvMerged DEF r
    <3>2. ~IsGsv
      BY <2>7 DEF IsGsv, HasGsv
    <3> HIDE DEF s
    <3>3. DropsOld(r) /\ TimerRuns
      BY <2>4, <3>1 DEF DropsOld, TimerRuns
    <3>4. Done # 0
      BY <1>3, <2>7 DEF GsvComes
    <3> QED
      BY <2>2, <3>1, <3>2, <3>3, <3>4 DEF NothingHeard
  <2>8. \/ \E id \in Kinds : KindComes(id)
        \/ \E m \in 1..Groups : GsvComes(m)
    BY <1>1, <1>2, HeadIs
  <2>9. \/ \E id \in Kinds : \E j : KindHeard(r, id, j)
        \/ \E m \in 1..Groups : GsvHeard(r, m)
        \/ NothingHeard(r)
    BY <2>5, <2>6, <2>7, <2>8, Zenon
  <2> QED
    BY <1>1, <1>3, <2>3, <2>9, Zenon DEF SentenceDone
<1>5. CASE HearDamaged
  <2> DEFINE t == [s EXCEPT !.intact = FALSE]
  <2>1. /\ TryParse(t, 0) /\ damaged' = damaged + 1 /\ HearOther
    BY <1>5 DEF HearDamaged
  <2>2. Id(t, 0) = "none" /\ Merge(t, info, 0) = info
    BY DamagedMerged
  <2> HIDE DEF t
  <2>3. /\ data' = [fix |-> FixOf(info), sats |-> SatsInView(info)]
        /\ DropsOld(info) /\ TimerRuns
    BY <2>1, <2>2 DEF TryParse, DropsOld, TimerRuns
  <2>4. NothingHeard(info)
    BY <2>1, <2>3 DEF NothingHeard
  <2> QED
    BY <1>1, <1>3, <2>3, <2>4, Zenon DEF SentenceDone
<1> QED
  BY <1>4, <1>5

-----------------------------------------------------------------------------
(* Every field holds a value of its type and what was said of it.          *)

SoundValue(f, x) ==
  /\ x.type = GetterType(f)
  /\ IF f[1] = "SATELLITE"
     THEN f[2] \in 1..MaxSatInView
          /\ \E e : \A p \in Range(GsvParts) :
               x.v[p].means = Part(f[2], p) /\ x.v[p].epoch = e
     ELSE x.v.means \in {f, NoValue.means}

HoldsSaid(i) == \A f \in DOMAIN i : SoundValue(f, i[f])

LEMMA KindSound ==
  ASSUME NEW r, NEW id \in Kinds, NEW to, NEW junk,
         ReadsKind(r, id, to, junk), HoldsSaid(to)
  PROVE  HoldsSaid(r)
<1> SUFFICES ASSUME NEW f \in DOMAIN r
             PROVE  SoundValue(f, r[f])
  BY DEF HoldsSaid
<1>1. CASE f \in FieldsIn(id)
  <2>1. r[f] = ValueRead(f, junk)
    BY <1>1 DEF ReadsKind
  <2>2. f[1] # "SATELLITE"
    BY <1>1, FieldsInKinds
  <2> QED
    BY <2>1, <2>2 DEF SoundValue, ValueRead, Variant
<1>2. CASE f \notin FieldsIn(id)
  <2>1. f \in DOMAIN to /\ r[f] = to[f]
    BY <1>2 DEF ReadsKind
  <2> QED
    BY <2>1 DEF HoldsSaid
<1> QED
  BY <1>1, <1>2

LEMMA GsvSound ==
  ASSUME TruthOK, NEW r, NEW m \in 1..Groups, NEW to, ReadsGsv(r, m, to),
         HoldsSaid(to)
  PROVE  HoldsSaid(r)
<1> DEFINE view == Field("SAT_IN_VIEW")
<1> SUFFICES ASSUME NEW f \in DOMAIN r
             PROVE  SoundValue(f, r[f])
  BY DEF HoldsSaid
<1>1. CASE f = view
  <2>1. r[f] = ViewRead
    BY <1>1 DEF ReadsGsv
  <2>2. f[1] = "SAT_IN_VIEW" /\ f[1] # "SATELLITE" /\ f[1] \notin CharNames
    BY <1>1 DEF Field, CharNames
  <2>3. GetterType(f) = "INT"
    BY <2>2 DEF GetterType
  <2>4. r[f].type = "INT" /\ r[f].v.means = f
    BY <1>1, <2>1 DEF ViewRead, Variant
  <2> QED
    BY <2>2, <2>3, <2>4 DEF SoundValue
<1>2. ASSUME NEW k \in Shown(m), f = Sat(First(m) + k)
      PROVE  SoundValue(f, r[f])
  <2> DEFINE j == First(m) + k
  <2>1. r[f] = SatelliteRead(j)
    BY <1>2 DEF ReadsGsv
  <2>2. j \in 1..MaxSatInView
    BY MessageFacts, GroupsFacts DEF Shown
  <2> HIDE DEF j
  <2>3. f[1] = "SATELLITE" /\ f[2] = j
    BY <1>2 DEF Sat, j
  <2>4. GetterType(f) = "SATELLITE"
    BY <2>3 DEF GetterType, CharNames
  <2>5. /\ r[f].type = "SATELLITE"
        /\ \A p \in Range(GsvParts) : r[f].v[p] = SaidOf(j, p)
    BY <2>1 DEF SatelliteRead, Variant
  <2>6. \A p \in Range(GsvParts) :
          r[f].v[p].means = Part(f[2], p) /\ r[f].v[p].epoch = epoch
    <3> SUFFICES ASSUME NEW p \in Range(GsvParts)
                 PROVE  r[f].v[p].means = Part(f[2], p)
                        /\ r[f].v[p].epoch = epoch
      OBVIOUS
    <3>1. r[f].v[p] = SaidOf(j, p)
      BY <2>5
    <3> QED
      BY <2>3, <3>1 DEF SaidOf
  <2> QED
    BY <2>2, <2>3, <2>4, <2>5, <2>6, Zenon DEF SoundValue
<1>3. CASE f \in DOMAIN to \ Gone(m) /\ f # view
  BY <1>3 DEF ReadsGsv, HoldsSaid
<1> QED
  BY <1>1, <1>2, <1>3 DEF ReadsGsv

(* What is left when satellites are dropped.                               *)
LEMMA ClearedIs ==
  ASSUME NEW i
  PROVE  LET c == ClearSatsInView(i)
             view == Field("SAT_IN_VIEW")
             sats == {Sat(n) : n \in 1..MaxSatInView}
         IN  /\ DOMAIN c = (DOMAIN i \ sats) \union {view}
             /\ c[view] = Number0(0)
             /\ \A f \in DOMAIN c : f # view => c[f] = i[f]
  BY DEF ClearSatsInView, Set, Remove, Restrict

LEMMA ClearedSound ==
  ASSUME NEW i, HoldsSaid(i)
  PROVE  HoldsSaid(ClearSatsInView(i))
<1> DEFINE c == ClearSatsInView(i)
           view == Field("SAT_IN_VIEW")
<1> SUFFICES ASSUME NEW f \in DOMAIN c
             PROVE  SoundValue(f, c[f])
  BY DEF HoldsSaid
<1>1. CASE f = view
  <2>1. c[f] = Number0(0)
    BY <1>1, ClearedIs
  <2>2. f[1] = "SAT_IN_VIEW" /\ f[1] # "SATELLITE" /\ f[1] \notin CharNames
    BY <1>1 DEF Field, CharNames
  <2>3. GetterType(f) = "INT"
    BY <2>2 DEF GetterType
  <2> HIDE DEF c
  <2>4. c[f].type = "INT" /\ c[f].v.means = NoValue.means
    BY <2>1 DEF Number0, Variant, NoValue
  <2> QED
    BY <2>2, <2>3, <2>4 DEF SoundValue
<1>2. CASE f # view
  <2>0. /\ DOMAIN c = (DOMAIN i \ {Sat(n) : n \in 1..MaxSatInView})
                      \union {view}
        /\ \A g \in DOMAIN c : g # view => c[g] = i[g]
    BY ClearedIs, Zenon
  <2> HIDE DEF c
  <2>1. f \in DOMAIN i /\ c[f] = i[f]
    BY <1>2, <2>0
  <2> QED
    BY <2>1 DEF HoldsSaid
<1> QED
  BY <1>1, <1>2

LEMMA NewSound == HoldsSaid(NewInfo)
<1> DEFINE number == {Field("FIX_TYPE"), Field("FIX_QUALITY")}
           char == {Field("FIX_MODE"), Field("FIX_MODE_INDICATOR"),
                    Field("STATUS")}
<1> SUFFICES ASSUME NEW f \in DOMAIN NewInfo
             PROVE  SoundValue(f, NewInfo[f])
  BY DEF HoldsSaid
<1>1. f \in number \union char
  BY DEF NewInfo
<1>2. NewInfo[f].v.means = f
  BY DEF NewInfo, Variant
<1>3. NewInfo[f].type = IF f \in number THEN "INT" ELSE "CHAR"
  BY DEF NewInfo, Variant
<1>4. CASE f \in number
  <2>1. f[1] \in {"FIX_TYPE", "FIX_QUALITY"} /\ f[1] # "SATELLITE"
        /\ f[1] \notin CharNames
    BY <1>4 DEF Field, CharNames
  <2>2. GetterType(f) = "INT"
    BY <2>1 DEF GetterType
  <2> QED
    BY <1>2, <1>3, <1>4, <2>1, <2>2 DEF SoundValue
<1>5. CASE f \in char
  <2>1. f[1] \in {"FIX_MODE", "STATUS", "FIX_MODE_INDICATOR"}
        /\ f[1] # "SATELLITE"
    BY <1>5 DEF Field
  <2>2. GetterType(f) = "CHAR"
    BY <2>1 DEF GetterType, CharNames
  <2>3. f \notin number
    BY <2>1 DEF Field
  <2> QED
    BY <1>2, <1>3, <2>1, <2>2, <2>3 DEF SoundValue
<1> QED
  BY <1>1, <1>4, <1>5

FieldsInv ==
  /\ Settled
  /\ gsvTimer \in 1..epoch /\ heardAt \in 1..epoch
  /\ HoldsSaid(info)
  /\ Len(data.sats) <= MaxSatInView

(* A round that has been begun: nothing of it has been sent.               *)
LEMMA NewRound ==
  ASSUME NEW d, NEW v \in Nat, d.gll \in BOOLEAN, NEW q, q = Round(d, v)
  PROVE  LET n == RoundLength(d, v) - Len(q)
         IN  /\ n = 0 /\ IsList(q, Len(q))
             /\ \A i \in 1..Len(q) : q[i] = RoundAt(v, n + i)
<1> DEFINE L == RoundLength(d, v)
<1>1. IsList(q, L) /\ \A i \in 1..L : q[i] = RoundAt(v, i)
  BY RoundIs
<1>2. Len(q) = L /\ L \in Nat
  BY <1>1, ListFacts
<1> HIDE DEF L
<1>3. L - Len(q) = 0 /\ \A i \in 1..Len(q) : (L - Len(q)) + i = i
  BY <1>2
<1> QED
  BY <1>1, <1>2, <1>3 DEF L

LEMMA FieldsInit == Init => FieldsInv
<1> SUFFICES ASSUME Init PROVE FieldsInv
  OBVIOUS
<1> USE DEF Init
<1>1. DialectOK
  BY NmeaMergeAssumption DEF DialectOK
<1>2. TruthOK
  BY DEF TruthOK
<1>3. QueueOK
  <2>1. truth.view \in Nat
    BY <1>2, GroupsFacts
  <2>2. queue = Round(dialect, truth.view) /\ dialect.gll \in BOOLEAN
    BY <1>1 DEF DialectOK
  <2> QED
    BY <2>1, <2>2, NewRound DEF QueueOK, Done
<1>4. epoch \in 1..MaxEpochs /\ damaged \in Nat
  BY NmeaMergeAssumption
<1>5. gsvTimer \in 1..epoch /\ heardAt \in 1..epoch
  OBVIOUS
<1>6. HoldsSaid(info)
  BY NewSound
<1>7. Len(data.sats) <= MaxSatInView
  <2>1. Len(data.sats) = 0
    OBVIOUS
  <2> QED
    BY <2>1, NmeaDataAssumption DEF MaxSatInView
<1> QED
  BY <1>1, <1>2, <1>3, <1>4, <1>5, <1>6, <1>7, Zenon DEF FieldsInv, Settled

(* A sentence keeps what does not depend on it.                            *)
LEMMA SettledKept ==
  ASSUME Settled, NEW r, SentenceDone(r)
  PROVE  Settled' /\ epoch' = epoch /\ truth' = truth /\ dialect' = dialect
<1>1. dialect' = dialect /\ epoch' = epoch /\ truth' = truth
  BY DEF SentenceDone, recvVars
<1>2. DialectOK' /\ TruthOK' /\ QueueOK'
  BY <1>1 DEF DialectOK, TruthOK, Truths, SentenceDone, Settled
<1>3. damaged' \in Nat
  BY DEF SentenceDone, KindHeard, GsvHeard, NothingHeard, Settled
<1> QED
  BY <1>1, <1>2, <1>3 DEF Settled

(* The next epoch begins its round.                                        *)
LEMMA SettledNext ==
  ASSUME Settled, NextEpoch
  PROVE  Settled' /\ epoch' = epoch + 1 /\ Done' = 0
<1>1. truth' \in Truths /\ dialect' = dialect /\ epoch' = epoch + 1
      /\ damaged' = damaged /\ queue' = Round(dialect', truth'.view)
  BY DEF NextEpoch
<1>2. DialectOK' /\ TruthOK' /\ damaged' \in Nat
  BY <1>1 DEF DialectOK, TruthOK, Truths, Settled
<1>3. epoch' \in 1..MaxEpochs
  BY NmeaMergeAssumption DEF NextEpoch, Settled
<1>4. truth'.view \in Nat /\ dialect'.gll \in BOOLEAN
  <2>1. 0..MaxSatInView \subseteq Nat
    OBVIOUS
  <2> QED
    BY <1>1, <1>2, <2>1, NmeaMergeAssumption DEF Truths, DialectOK
<1>5. QueueOK' /\ Done' = 0
  BY <1>1, <1>4, NewRound DEF QueueOK, Done
<1> QED
  BY <1>1, <1>2, <1>3, <1>5 DEF Settled

LEMMA FieldsNext == FieldsInv /\ [Next]_vars => FieldsInv'
<1> SUFFICES ASSUME FieldsInv, [Next]_vars PROVE FieldsInv'
  OBVIOUS
<1>1. CASE Hear \/ HearDamaged
  <2>1. PICK r : SentenceDone(r)
    BY <1>1, OneSentence DEF FieldsInv
  <2>2. Settled' /\ epoch' = epoch
    BY <2>1, SettledKept DEF FieldsInv
  <2>3. HoldsSaid(r)
    <3>1. TruthOK /\ HoldsSaid(info)
      BY DEF FieldsInv, Settled
    <3> QED
      BY <2>1, <3>1, KindSound, GsvSound
      DEF SentenceDone, KindHeard, GsvHeard, NothingHeard
  <2>4. HoldsSaid(ClearSatsInView(r))
    BY <2>3, ClearedSound
  <2>5. info' = r \/ info' = ClearSatsInView(r)
    BY <2>1 DEF SentenceDone, KindHeard, GsvHeard, NothingHeard, DropsOld
  <2>6. HoldsSaid(info')
    BY <2>3, <2>4, <2>5
  <2>7. gsvTimer' \in 1..epoch /\ heardAt' \in 1..epoch
    BY <2>1 DEF SentenceDone, KindHeard, GsvHeard, NothingHeard, HearGsv,
                HearOther, TimerRuns, FieldsInv, Settled
  <2>8. Len(data'.sats) <= MaxSatInView
    <3>1. data'.sats = SatsInView(r)
      BY <2>1 DEF SentenceDone
    <3> QED
      BY <3>1, SatsAreFew
  <2> QED
    BY <2>2, <2>6, <2>7, <2>8 DEF FieldsInv, HoldsSaid
<1>2. CASE NextEpoch
  <2>1. Settled' /\ epoch' = epoch + 1
    BY <1>2, SettledNext DEF FieldsInv
  <2>2. UNCHANGED <<info, gsvTimer, data, heardAt>>
    BY <1>2 DEF NextEpoch
  <2>3. gsvTimer' \in 1..epoch' /\ heardAt' \in 1..epoch'
    BY <2>1, <2>2 DEF FieldsInv, Settled
  <2> QED
    BY <2>1, <2>2, <2>3 DEF FieldsInv, HoldsSaid
<1>3. CASE UNCHANGED vars
  <2>1. UNCHANGED <<dialect, epoch, truth, queue, info, gsvTimer, data,
                    damaged, heardAt>>
    BY <1>3 DEF vars, recvVars, gsvVars
  <2>2. Settled'
    BY <2>1 DEF FieldsInv, Settled, DialectOK, TruthOK, Truths, QueueOK, Done
  <2> QED
    BY <2>1, <2>2 DEF FieldsInv, HoldsSaid
<1> QED
  BY <1>1, <1>2, <1>3 DEF Next

LEMMA FieldsIs == FieldsInv => FieldsHoldTheirTokens
<1> SUFFICES ASSUME FieldsInv PROVE FieldsHoldTheirTokens
  OBVIOUS
<1>1. \A f \in DOMAIN info : SoundValue(f, info[f])
  BY DEF FieldsInv, HoldsSaid
<1>2. TypeOK
  <2>1. \A f \in DOMAIN info : info[f].type = GetterType(f)
    BY <1>1 DEF SoundValue
  <2>2. \A f \in DOMAIN info :
          f[1] = "SATELLITE" => f[2] \in 1..MaxSatInView
    BY <1>1 DEF SoundValue
  <2> QED
    BY <2>1, <2>2, Zenon DEF TypeOK, FieldsInv, Settled
<1>3. ASSUME NEW f \in DOMAIN info, f[1] = "SATELLITE"
      PROVE  \A p, q \in Range(GsvParts) :
               /\ info[f].v[p].means = Part(f[2], p)
               /\ info[f].v[p].epoch = info[f].v[q].epoch
  BY <1>1, <1>3 DEF SoundValue
<1>4. ASSUME NEW f \in DOMAIN info, f[1] # "SATELLITE"
      PROVE  info[f].v.means \in {f, NoValue.means}
  BY <1>1, <1>4 DEF SoundValue
<1> QED
  BY <1>2, <1>3, <1>4, Zenon DEF FieldsHoldTheirTokens

(* Whatever sentences NMEA::parse merges, from whichever receiver, every   *)
(* field of the Info holds a value of the type its getter asks for and     *)
(* nothing that was said of another field; a satellite has its numbers from*)
(* one description of it.                                                  *)
THEOREM FieldsAlwaysHoldTheirTokens == Spec => []FieldsHoldTheirTokens
<1>1. Spec => []FieldsInv
  BY FieldsInit, FieldsNext, PTL DEF Spec
<1> QED
  BY <1>1, FieldsIs, PTL

-----------------------------------------------------------------------------
(* What a fix is made of, and how old it is.                               *)

Quality(i) == i[Field("FIX_QUALITY")].v

NoPosition(i) == PositionFields \cap DOMAIN i = {}
NoHeight(i) == HeightFields \cap DOMAIN i = {}

PositionAt(i, e) ==
  /\ PositionFields \subseteq DOMAIN i
  /\ \A f \in PositionFields : i[f].v.epoch = e
  /\ i[Field("LATITUDE_NS")].v.n = e % 2
  /\ i[Field("LONGITUDE_EW")].v.n = e % 2

HeightAt(i, e) ==
  /\ HeightFields \subseteq DOMAIN i
  /\ \A f \in HeightFields : i[f].v.epoch = e

InUseAt(i, e) == \A f \in InUses \cap DOMAIN i : i[f].v.epoch = e

(* The last GGA was sent in epoch last, and the last one that came through *)
(* has set the quality: what came between the two was damaged.  A position *)
(* is as old as the quality or newer, a height exactly as old.             *)
FixAsOld(i, last, d) ==
  /\ Field("FIX_QUALITY") \in DOMAIN i
  /\ Quality(i).epoch \in Int /\ last - Quality(i).epoch \in 0..d
  /\ \/ NoPosition(i) /\ (Quality(i).n # 0 => d > 0)
     \/ \E e \in Quality(i).epoch..last : e # 0 /\ PositionAt(i, e)
  /\ NoHeight(i) \/ HeightAt(i, Quality(i).epoch)
  /\ \E e : InUseAt(i, e)

(* A quality of this epoch says whether there is a position in this epoch. *)
QualityNow(i) ==
  Quality(i).epoch = epoch => (Quality(i).n = 0 <=> truth.pos = "none")

FixFields ==
  PositionFields \union HeightFields \union InUses
  \union {Field("FIX_QUALITY")}

SameFix(r, to) ==
  \A f \in FixFields : /\ f \in DOMAIN r <=> f \in DOMAIN to
                       /\ f \in DOMAIN r => r[f] = to[f]

LEMMA SameFixAsOld ==
  ASSUME NEW r, NEW to, NEW last, NEW d, SameFix(r, to),
         FixAsOld(to, last, d), QualityNow(to)
  PROVE  FixAsOld(r, last, d) /\ QualityNow(r)
<1>1. /\ Field("FIX_QUALITY") \in DOMAIN r
      /\ r[Field("FIX_QUALITY")] = to[Field("FIX_QUALITY")]
  BY DEF SameFix, FixAsOld, FixFields
<1>2. Quality(r) = Quality(to)
  BY <1>1 DEF Quality
<1>3. \A S \in SUBSET FixFields :
        /\ S \cap DOMAIN r = S \cap DOMAIN to
        /\ S \subseteq DOMAIN to => S \subseteq DOMAIN r
        /\ \A f \in S : f \in DOMAIN to => r[f] = to[f]
  BY DEF SameFix
<1>4. /\ PositionFields \in SUBSET FixFields
      /\ HeightFields \in SUBSET FixFields /\ InUses \in SUBSET FixFields
  BY DEF FixFields
<1>5. Field("LATITUDE_NS") \in PositionFields
      /\ Field("LONGITUDE_EW") \in PositionFields
  BY DEF PositionFields
<1>6. NoPosition(to) => NoPosition(r)
  BY <1>3, <1>4 DEF NoPosition
<1>7. NoHeight(to) => NoHeight(r)
  BY <1>3, <1>4 DEF NoHeight
<1>8. \A e : PositionAt(to, e) => PositionAt(r, e)
  <2> SUFFICES ASSUME NEW e, PositionAt(to, e)
               PROVE  PositionAt(r, e)
    OBVIOUS
  <2>1. PositionFields \subseteq DOMAIN r
        /\ \A f \in PositionFields : r[f] = to[f]
    BY <1>3, <1>4 DEF PositionAt
  <2> QED
    BY <1>5, <2>1 DEF PositionAt
<1>9. \A e : HeightAt(to, e) => HeightAt(r, e)
  BY <1>3, <1>4 DEF HeightAt
<1>10. \A e : InUseAt(to, e) => InUseAt(r, e)
  BY <1>3, <1>4 DEF InUseAt
<1>11. QualityNow(r)
  BY <1>2 DEF QualityNow
<1>12. FixAsOld(r, last, d)
  BY <1>1, <1>2, <1>6, <1>7, <1>8, <1>9, <1>10, Zenon DEF FixAsOld
<1> QED
  BY <1>11, <1>12

(* Neither the satellites in view nor their removal concern a fix.         *)
LEMMA FixFieldsAreOthers ==
  \A f \in FixFields : f # Field("SAT_IN_VIEW") /\ \A n : f # Sat(n)
  BY DEF FixFields, PositionFields, HeightFields, InUses, InUse, Field, Sat

LEMMA GsvSameFix ==
  ASSUME NEW r, NEW m, NEW to, ReadsGsv(r, m, to)
  PROVE  SameFix(r, to)
<1> SUFFICES ASSUME NEW f \in FixFields
             PROVE  /\ f \in DOMAIN r <=> f \in DOMAIN to
                    /\ f \in DOMAIN r => r[f] = to[f]
  BY DEF SameFix
<1>1. f # Field("SAT_IN_VIEW") /\ \A n : f # Sat(n)
  BY FixFieldsAreOthers
<1>2. f \notin Gone(m) /\ f \notin {Sat(First(m) + k) : k \in Shown(m)}
  BY <1>1 DEF Gone
<1> QED
  BY <1>1, <1>2 DEF ReadsGsv

LEMMA ClearedSameFix ==
  ASSUME NEW i
  PROVE  SameFix(ClearSatsInView(i), i)
<1> DEFINE c == ClearSatsInView(i)
           view == Field("SAT_IN_VIEW")
           sats == {Sat(n) : n \in 1..MaxSatInView}
<1>1. /\ DOMAIN c = (DOMAIN i \ sats) \union {view}
      /\ \A f \in DOMAIN c : f # view => c[f] = i[f]
  BY ClearedIs, Zenon
<1>2. \A f \in FixFields : f # view /\ f \notin sats
  BY FixFieldsAreOthers
<1> HIDE DEF c, sats, view
<1> QED
  BY <1>1, <1>2 DEF SameFix, c

LastGga == IF Done = 0 THEN epoch - 1 ELSE epoch

(* What is left empty of a position, of a height and of a quality.         *)
LEMMA BlankIs ==
  /\ \A f \in PositionFields : Blank(f) <=> truth.pos = "none"
  /\ \A f \in HeightFields : Blank(f) <=> truth.pos # "3D"
  /\ ~Blank(Field("FIX_QUALITY"))
<1>1. \A f : f = InUse(MaxSatInUse) => f[1] = "SAT_IN_USE"
  BY DEF InUse
<1>2. \A f \in PositionFields : Blank(f) <=> truth.pos = "none"
  <2>1. \A f \in PositionFields :
          f[1] \in {"LATITUDE", "LATITUDE_NS", "LONGITUDE", "LONGITUDE_EW"}
    BY DEF PositionFields, Field
  <2> QED
    BY <1>1, <2>1 DEF Blank, PositionOnly, HeightOnly
<1>3. \A f \in HeightFields : Blank(f) <=> truth.pos # "3D"
  <2>1. \A f \in HeightFields :
          f[1] \in {"ALTITUDE", "ALTITUDE_UNITS", "DIFF", "DIFF_UNITS"}
    BY DEF HeightFields, Field
  <2> QED
    BY <1>1, <2>1 DEF Blank, PositionOnly, HeightOnly
<1>4. ~Blank(Field("FIX_QUALITY"))
  <2>1. Field("FIX_QUALITY")[1] = "FIX_QUALITY"
    BY DEF Field
  <2> QED
    BY <1>1, <2>1 DEF Blank, PositionOnly, HeightOnly
<1> QED
  BY <1>2, <1>3, <1>4

LEMMA ValuesReadAre ==
  ASSUME NEW junk
  PROVE  /\ \A f : ValueRead(f, junk).v.epoch = epoch
         /\ ValueRead(Field("FIX_QUALITY"), junk).v.n =
              IF truth.pos = "none" THEN 0 ELSE 1
         /\ ValueRead(Field("LATITUDE_NS"), junk).v.n = epoch % 2
         /\ ValueRead(Field("LONGITUDE_EW"), junk).v.n = epoch % 2
<1>1. \A f : /\ ValueRead(f, junk).v.epoch = epoch
             /\ ValueRead(f, junk).v.n = NumberRead(f, junk)
  BY DEF ValueRead, Variant
<1>2. /\ Field("FIX_QUALITY")[1] = "FIX_QUALITY"
      /\ Field("LATITUDE_NS")[1] = "LATITUDE_NS"
      /\ Field("LONGITUDE_EW")[1] = "LONGITUDE_EW"
  BY DEF Field
<1>3. /\ NumberRead(Field("FIX_QUALITY"), junk) =
           IF truth.pos = "none" THEN 0 ELSE 1
      /\ NumberRead(Field("LATITUDE_NS"), junk) = epoch % 2
      /\ NumberRead(Field("LONGITUDE_EW"), junk) = epoch % 2
  BY <1>2 DEF NumberRead, NumberIn, North
<1> QED
  BY <1>1, <1>3

(* A sentence that has a position puts this one or none in its place.      *)
LEMMA PositionRead ==
  ASSUME NEW r, NEW id \in Kinds, NEW to, NEW junk,
         ReadsKind(r, id, to, junk), id # "GSA"
  PROVE  IF truth.pos = "none" THEN NoPosition(r) ELSE PositionAt(r, epoch)
<1>1. PositionFields \subseteq FieldsIn(id)
  BY FieldsInKinds
<1>2. truth.pos = "none" => NoPosition(r)
  BY <1>1, BlankIs DEF ReadsKind, NoPosition
<1>3. truth.pos # "none" => PositionAt(r, epoch)
  <2> SUFFICES ASSUME truth.pos # "none"
               PROVE  PositionAt(r, epoch)
    OBVIOUS
  <2>1. \A f \in PositionFields :
          f \in DOMAIN r /\ r[f] = ValueRead(f, junk)
    BY <1>1, BlankIs DEF ReadsKind
  <2>2. Field("LATITUDE_NS") \in PositionFields
        /\ Field("LONGITUDE_EW") \in PositionFields
    BY DEF PositionFields
  <2> QED
    BY <2>1, <2>2, ValuesReadAre DEF PositionAt
<1> QED
  BY <1>2, <1>3

(* A sentence keeps the ages as they should be.                            *)
LEMMA KindAsOld ==
  ASSUME Settled, NEW r, NEW id \in Kinds, NEW junk, KindComes(id),
         ReadsKind(r, id, info, junk),
         FixAsOld(info, LastGga, damaged), QualityNow(info)
  PROVE  FixAsOld(r, epoch, damaged) /\ QualityNow(r)
<1> DEFINE quality == Field("FIX_QUALITY")
<1>0. epoch \in Nat \ {0} /\ damaged \in Nat
  BY DEF Settled
<1>1. \A f \in FieldsIn(id) :
        /\ f \in DOMAIN r <=> ~Blank(f)
        /\ f \in DOMAIN r => r[f] = ValueRead(f, junk)
  BY DEF ReadsKind
<1>2. \A f : f \notin FieldsIn(id) =>
        /\ f \in DOMAIN r <=> f \in DOMAIN info
        /\ f \in DOMAIN r => r[f] = info[f]
  BY DEF ReadsKind
<1>3. CASE id = "GGA"
  <2>1. r[quality] = ValueRead(quality, junk) /\ quality \in DOMAIN r
    BY <1>1, <1>3, FieldsInKinds, BlankIs
  <2>2. Quality(r).epoch = epoch
        /\ Quality(r).n = IF truth.pos = "none" THEN 0 ELSE 1
    BY <2>1, ValuesReadAre DEF Quality
  <2>3. NoHeight(r) \/ HeightAt(r, epoch)
    <3>1. HeightFields \subseteq FieldsIn(id)
      BY <1>3, FieldsInKinds
    <3>2. CASE truth.pos # "3D"
      BY <1>1, <3>1, <3>2, BlankIs DEF NoHeight
    <3>3. CASE truth.pos = "3D"
      BY <1>1, <3>1, <3>3, BlankIs, ValuesReadAre DEF HeightAt
    <3> QED
      BY <3>2, <3>3
  <2>4. \E e : InUseAt(r, e)
    <3>1. InUses \cap FieldsIn(id) = {}
      BY <1>3, FieldsInKinds
    <3>2. PICK e : InUseAt(info, e)
      BY DEF FixAsOld
    <3>3. InUseAt(r, e)
      BY <1>2, <3>1, <3>2 DEF InUseAt
    <3> QED
      BY <3>3
  <2>5. IF truth.pos = "none" THEN NoPosition(r) ELSE PositionAt(r, epoch)
    BY <1>3, PositionRead
  <2>6. \/ NoPosition(r) /\ (Quality(r).n # 0 => damaged > 0)
        \/ \E e \in Quality(r).epoch..epoch : e # 0 /\ PositionAt(r, e)
    BY <1>0, <2>2, <2>5
  <2>7. QualityNow(r)
    BY <2>2 DEF QualityNow
  <2>8. Quality(r).epoch \in Int /\ epoch - Quality(r).epoch \in 0..damaged
    BY <1>0, <2>2
  <2> QED
    BY <2>1, <2>2, <2>3, <2>4, <2>6, <2>7, <2>8 DEF FixAsOld
<1>4. CASE id # "GGA"
  <2>1. LastGga = epoch
    BY <1>4 DEF KindComes, LastGga
  <2>2. quality \notin FieldsIn(id)
    BY <1>4, FieldsInKinds
  <2>3. quality \in DOMAIN r /\ r[quality] = info[quality]
    BY <1>2, <2>2 DEF FixAsOld
  <2>4. Quality(r) = Quality(info) /\ QualityNow(r)
    BY <2>3 DEF Quality, QualityNow
  <2>5. Quality(r).epoch \in Int /\ epoch - Quality(r).epoch \in 0..damaged
    BY <2>1, <2>4 DEF FixAsOld
  <2>6. NoHeight(r) \/ HeightAt(r, Quality(r).epoch)
    <3>1. HeightFields \cap FieldsIn(id) = {}
      BY <1>4, FieldsInKinds
    <3>2. \A f \in HeightFields :
            /\ f \in DOMAIN r <=> f \in DOMAIN info
            /\ f \in DOMAIN r => r[f] = info[f]
      BY <1>2, <3>1
    <3>3. NoHeight(info) => NoHeight(r)
      BY <3>2 DEF NoHeight
    <3>4. HeightAt(info, Quality(info).epoch)
            => HeightAt(r, Quality(info).epoch)
      BY <3>2 DEF HeightAt
    <3> QED
      BY <2>4, <3>3, <3>4 DEF FixAsOld
  <2>7. CASE id = "GSA"
    <3>1. /\ InUses \subseteq FieldsIn(id)
          /\ PositionFields \cap FieldsIn(id) = {}
      BY <2>7, FieldsInKinds
    <3>2. InUseAt(r, epoch)
      BY <1>1, <3>1, ValuesReadAre DEF InUseAt
    <3>3. \A f \in PositionFields :
            /\ f \in DOMAIN r <=> f \in DOMAIN info
            /\ f \in DOMAIN r => r[f] = info[f]
      BY <1>2, <3>1
    <3>4. NoPosition(info) => NoPosition(r)
      BY <3>3 DEF NoPosition
    <3>5. \A e : PositionAt(info, e) => PositionAt(r, e)
      <4>1. Field("LATITUDE_NS") \in PositionFields
            /\ Field("LONGITUDE_EW") \in PositionFields
        BY DEF PositionFields
      <4> SUFFICES ASSUME NEW e, PositionAt(info, e)
                   PROVE  PositionAt(r, e)
        OBVIOUS
      <4>2. \A f \in PositionFields : f \in DOMAIN r /\ r[f] = info[f]
        BY <3>3 DEF PositionAt
      <4> QED
        BY <4>1, <4>2 DEF PositionAt
    <3>6. \/ NoPosition(r) /\ (Quality(r).n # 0 => damaged > 0)
          \/ \E e \in Quality(r).epoch..epoch : e # 0 /\ PositionAt(r, e)
      BY <2>1, <2>4, <3>4, <3>5 DEF FixAsOld
    <3> QED
      BY <2>3, <2>4, <2>5, <2>6, <3>2, <3>6, Zenon DEF FixAsOld
  <2>8. CASE id # "GSA"
    <3>1. IF truth.pos = "none" THEN NoPosition(r) ELSE PositionAt(r, epoch)
      BY <2>8, PositionRead
    <3>2. InUses \cap FieldsIn(id) = {}
      BY <2>8, FieldsInKinds
    <3>3. \E e : InUseAt(r, e)
      <4>1. PICK e : InUseAt(info, e)
        BY DEF FixAsOld
      <4>2. InUseAt(r, e)
        BY <1>2, <3>2, <4>1 DEF InUseAt
      <4> QED
        BY <4>2
    <3>4. epoch \in Quality(r).epoch..epoch
      BY <1>0, <2>5
    <3>5. truth.pos = "none" /\ Quality(r).n # 0 => damaged > 0
      BY <1>0, <2>4, <2>5 DEF QualityNow
    <3>6. \/ NoPosition(r) /\ (Quality(r).n # 0 => damaged > 0)
          \/ \E e \in Quality(r).epoch..epoch : e # 0 /\ PositionAt(r, e)
      BY <1>0, <3>1, <3>4, <3>5
    <3> QED
      BY <2>3, <2>4, <2>5, <2>6, <3>3, <3>6, Zenon DEF FixAsOld
  <2> QED
    BY <2>7, <2>8
<1> QED
  BY <1>3, <1>4

(* So does a sentence of which nothing is heard, if it counts as damaged.  *)
LEMMA SilenceAsOld ==
  ASSUME NEW i, NEW last \in Int, NEW now \in Int, NEW d \in Nat,
         NEW e \in Nat,
         FixAsOld(i, last, d), now - last \in 0..(e - d)
  PROVE  FixAsOld(i, now, e)
<1>1. Quality(i).epoch \in Int /\ last - Quality(i).epoch \in 0..d
  BY DEF FixAsOld
<1>2. now - Quality(i).epoch \in 0..e /\ d <= e /\ last <= now
  BY <1>1
<1>3. \A x \in Quality(i).epoch..last : x \in Quality(i).epoch..now
  BY <1>1, <1>2
<1>4. d > 0 => e > 0
  BY <1>2
<1> QED
  BY <1>1, <1>2, <1>3, <1>4, Zenon DEF FixAsOld

(* What FixLagsByDamage says of a fix.                                     *)
Lags(fix, d) ==
  fix.has =>
    /\ fix.latitude = NoValue => d > 0
    /\ fix.latitude # NoValue =>
         /\ fix.north = (fix.latitude.epoch % 2 = 1)
         /\ fix.east = (fix.longitude.epoch % 2 = 1)
         /\ fix.latitude.epoch - fix.quality.epoch \in 0..d
         /\ fix.altitude # NoValue =>
              fix.latitude.epoch - fix.altitude.epoch \in 0..d

LEMMA FixOfLags ==
  ASSUME NEW i, NEW last \in Int, NEW d \in Nat, FixAsOld(i, last, d)
  PROVE  Lags(FixOf(i), d)
<1> DEFINE fix == FixOf(i)
           q == Quality(i).epoch
<1>1. CASE AsInt(i, Field("FIX_QUALITY")) = 0
  <2>1. fix = NoFix
    BY <1>1 DEF FixOf
  <2> HIDE DEF fix
  <2> QED
    BY <2>1 DEF Lags, NoFix, fix
<1>2. CASE AsInt(i, Field("FIX_QUALITY")) # 0
  <2>1. /\ fix.has = TRUE
        /\ fix.quality = Reading(i, "FIX_QUALITY")
        /\ fix.latitude = Reading(i, "LATITUDE")
        /\ fix.longitude = Reading(i, "LONGITUDE")
        /\ fix.altitude = Reading(i, "ALTITUDE")
        /\ fix.north = IsNorth(i) /\ fix.east = IsEast(i)
    BY <1>2 DEF FixOf
  <2> HIDE DEF fix
  <2>2. Quality(i).n # 0 /\ fix.quality.epoch = q
    BY <1>2, <2>1 DEF AsInt, IsPresent, Quality, Reading, FixAsOld
  <2>3. q \in Int /\ last - q \in 0..d
    BY DEF FixAsOld
  <2> HIDE DEF q
  <2>4. /\ Field("LATITUDE") \in PositionFields
        /\ Field("LONGITUDE") \in PositionFields
        /\ Field("LATITUDE_NS") \in PositionFields
        /\ Field("LONGITUDE_EW") \in PositionFields
        /\ Field("ALTITUDE") \in HeightFields
    BY DEF PositionFields, HeightFields
  <2>5. CASE NoPosition(i) /\ d > 0
    <3>1. fix.latitude = NoValue
      BY <2>1, <2>4, <2>5 DEF NoPosition, Reading, IsPresent
    <3> QED
      BY <2>5, <3>1 DEF Lags, fix
  <2>6. ASSUME NEW e \in q..last, e # 0, PositionAt(i, e)
        PROVE  Lags(fix, d)
    <3>1. /\ fix.latitude.epoch = e /\ fix.longitude.epoch = e
          /\ IsNorth(i) = (e % 2 = 1) /\ IsEast(i) = (e % 2 = 1)
      BY <2>1, <2>4, <2>6 DEF PositionAt, Reading, IsPresent, IsNorth, IsEast
    <3>2. fix.latitude # NoValue
      <4>1. NoValue.epoch = 0
        BY DEF NoValue
      <4> QED
        BY <2>6, <3>1, <4>1
    <3>3. e - q \in 0..d
      BY <2>3
    <3>4. fix.altitude # NoValue => fix.altitude.epoch = q
      BY <2>1, <2>4 DEF FixAsOld, HeightAt, NoHeight, Reading, IsPresent, q
    <3> QED
      BY <2>1, <2>2, <3>1, <3>2, <3>3, <3>4 DEF Lags
  <2> QED
    <3>1. Lags(fix, d)
      BY <2>2, <2>5, <2>6 DEF FixAsOld, q, fix
    <3> QED
      BY <3>1 DEF fix
<1> QED
  BY <1>1, <1>2

FixInv ==
  /\ Settled
  /\ FixAsOld(info, LastGga, damaged) /\ QualityNow(info)
  /\ Lags(data.fix, damaged)

LEMMA FixInit == Init => FixInv
<1> SUFFICES ASSUME Init PROVE FixInv
  OBVIOUS
<1> DEFINE quality == Field("FIX_QUALITY")
<1>1. Settled
  BY FieldsInit DEF FieldsInv
<1>2. epoch = 1 /\ damaged = 0 /\ info = NewInfo /\ data.fix = NoFix
  BY DEF Init
<1>3. Done = 0 /\ LastGga = 0
  <2>1. truth.view \in Nat /\ dialect.gll \in BOOLEAN
    BY <1>1, GroupsFacts DEF Settled, DialectOK
  <2>2. queue = Round(dialect, truth.view)
    BY DEF Init
  <2>3. Done = 0
    BY <2>1, <2>2, NewRound DEF Done
  <2> QED
    BY <1>2, <2>3 DEF LastGga
<1>4. quality \in DOMAIN info /\ Quality(info).epoch = 0
      /\ Quality(info).n = 0
  <2>1. quality \in DOMAIN NewInfo
    BY DEF NewInfo
  <2>2. NewInfo[quality].v.epoch = 0
    BY DEF NewInfo, Variant
  <2>3. quality # Field("FIX_TYPE")
    BY DEF Field
  <2>4. NewInfo[quality].v.n = 0
    BY <2>3 DEF NewInfo, Variant
  <2> QED
    BY <1>2, <2>1, <2>2, <2>4 DEF Quality
<1>5. DOMAIN info = {Field("FIX_MODE"), Field("FIX_TYPE"),
                     Field("FIX_QUALITY"), Field("FIX_MODE_INDICATOR"),
                     Field("STATUS")}
  BY <1>2 DEF NewInfo
<1>6. NoPosition(info) /\ NoHeight(info) /\ InUseAt(info, 0)
  BY <1>5 DEF NoPosition, NoHeight, InUseAt, PositionFields, HeightFields,
              InUses, InUse, Field
<1>7. FixAsOld(info, LastGga, damaged)
  BY <1>2, <1>3, <1>4, <1>6 DEF FixAsOld
<1>8. QualityNow(info)
  BY <1>2, <1>4 DEF QualityNow
<1>9. Lags(data.fix, damaged)
  BY <1>2 DEF Lags, NoFix
<1> QED
  BY <1>1, <1>7, <1>8, <1>9 DEF FixInv

LEMMA FixNext == FixInv /\ [Next]_vars => FixInv'
<1> SUFFICES ASSUME FixInv, [Next]_vars PROVE FixInv'
  OBVIOUS
<1>0. /\ Settled /\ epoch \in Nat \ {0} /\ damaged \in Nat
      /\ FixAsOld(info, LastGga, damaged) /\ QualityNow(info)
  BY DEF FixInv, Settled
<1>1. CASE Hear \/ HearDamaged
  <2>1. PICK r : SentenceDone(r)
    BY <1>0, <1>1, OneSentence
  <2>2. Settled' /\ epoch' = epoch /\ truth' = truth
    BY <1>0, <2>1, SettledKept
  <2>3. LastGga' = epoch /\ damaged' \in Nat
    BY <1>0, <2>1, <2>2 DEF LastGga, SentenceDone, Settled, QueueOK
  <2>4. FixAsOld(r, epoch, damaged') /\ QualityNow(r)
    <3>1. ASSUME NEW id \in Kinds, NEW junk, KindHeard(r, id, junk)
          PROVE  FixAsOld(r, epoch, damaged') /\ QualityNow(r)
      BY <1>0, <3>1, KindAsOld DEF KindHeard
    <3>2. ASSUME NEW m \in 1..Groups, GsvHeard(r, m)
          PROVE  FixAsOld(r, epoch, damaged') /\ QualityNow(r)
      <4>1. SameFix(r, info) /\ damaged' = damaged
        BY <3>2, GsvSameFix DEF GsvHeard
      <4>2. LastGga = epoch
        BY <3>2 DEF GsvHeard, GsvComes, LastGga
      <4> QED
        BY <1>0, <4>1, <4>2, SameFixAsOld
    <3>3. CASE NothingHeard(r)
      <4>1. r = info /\ epoch - LastGga \in 0..(damaged' - damaged)
        BY <1>0, <3>3 DEF NothingHeard, LastGga
      <4>2. LastGga \in Int
        BY <1>0 DEF LastGga
      <4> QED
        <5>1. FixAsOld(info, epoch, damaged')
          <6> DEFINE d == damaged'
          <6>1. d \in Nat /\ epoch - LastGga \in 0..(d - damaged)
            BY <2>3, <4>1
          <6> HIDE DEF d
          <6>2. FixAsOld(info, epoch, d)
            BY <1>0, <4>2, <6>1, SilenceAsOld
          <6> QED
            BY <6>2 DEF d
        <5> QED
          BY <1>0, <4>1, <5>1
    <3> QED
      BY <2>1, <3>1, <3>2, <3>3 DEF SentenceDone
  <2>5. FixAsOld(info', epoch, damaged') /\ QualityNow(info')
    <3>1. info' = r \/ info' = ClearSatsInView(r)
      BY <2>1 DEF SentenceDone, KindHeard, GsvHeard, NothingHeard, DropsOld
    <3>2. /\ FixAsOld(ClearSatsInView(r), epoch, damaged')
          /\ QualityNow(ClearSatsInView(r))
      BY <2>4, ClearedSameFix, SameFixAsOld
    <3> QED
      BY <2>4, <3>1, <3>2
  <2>6. Lags(data'.fix, damaged')
    <3>1. data'.fix = FixOf(r)
      BY <2>1 DEF SentenceDone
    <3> QED
      BY <1>0, <2>3, <2>4, <3>1, FixOfLags
  <2>7. FixAsOld(info, LastGga, damaged)' /\ QualityNow(info)'
    BY <2>2, <2>3, <2>5
    DEF FixAsOld, QualityNow, Quality, NoPosition, NoHeight, PositionAt,
        HeightAt, InUseAt
  <2> QED
    BY <2>2, <2>6, <2>7 DEF FixInv, Lags
<1>2. CASE NextEpoch
  <2>1. Settled' /\ epoch' = epoch + 1 /\ Done' = 0
    BY <1>0, <1>2, SettledNext
  <2>2. UNCHANGED <<info, data, damaged>> /\ queue = <<>>
    BY <1>2 DEF NextEpoch
  <2>3. LastGga = epoch /\ LastGga' = epoch
    <3>1. Len(queue) = 0
      BY <2>2
    <3>2. Done # 0
      <4>1. truth.view \in Nat
        BY <1>0, GroupsFacts DEF Settled
      <4> QED
        BY <3>1, <4>1, GroupsPositive DEF Done, RoundLength
    <3> QED
      BY <1>0, <2>1, <3>2 DEF LastGga
  <2>4. Quality(info).epoch # epoch + 1
    BY <1>0, <2>3 DEF FixAsOld
  <2>5. QualityNow(info)'
    BY <2>1, <2>2, <2>4 DEF QualityNow, Quality
  <2>6. FixAsOld(info, LastGga, damaged)'
    BY <1>0, <2>2, <2>3
    DEF FixAsOld, Quality, NoPosition, NoHeight, PositionAt, HeightAt, InUseAt
  <2> QED
    BY <2>1, <2>2, <2>5, <2>6 DEF FixInv, Lags
<1>3. CASE UNCHANGED vars
  <2>1. UNCHANGED <<dialect, epoch, truth, queue, info, data, damaged>>
    BY <1>3 DEF vars, recvVars
  <2>2. Settled'
    BY <1>0, <2>1 DEF Settled, DialectOK, TruthOK, Truths, QueueOK, Done
  <2>3. LastGga' = LastGga
    BY <2>1 DEF LastGga, Done
  <2>4. FixAsOld(info, LastGga, damaged)' /\ QualityNow(info)'
    BY <1>0, <2>1, <2>3
    DEF FixAsOld, QualityNow, Quality, NoPosition, NoHeight, PositionAt,
        HeightAt, InUseAt
  <2> QED
    BY <2>1, <2>2, <2>4 DEF FixInv, Lags
<1> QED
  BY <1>1, <1>2, <1>3 DEF Next

LEMMA PairsAre ==
  ASSUME NEW i, NEW last, NEW d, FixAsOld(i, last, d)
  PROVE  \A p \in Pairs :
           /\ IsPresent(i, Field(p[1])) <=> IsPresent(i, Field(p[2]))
           /\ Reading(i, p[1]).epoch = Reading(i, p[2]).epoch
<1> SUFFICES ASSUME NEW p \in Pairs
             PROVE  /\ IsPresent(i, Field(p[1])) <=> IsPresent(i, Field(p[2]))
                    /\ Reading(i, p[1]).epoch = Reading(i, p[2]).epoch
  OBVIOUS
<1>1. \/ Field(p[1]) \in PositionFields /\ Field(p[2]) \in PositionFields
      \/ Field(p[1]) \in HeightFields /\ Field(p[2]) \in HeightFields
  BY DEF Pairs, PositionFields, HeightFields
<1>2. CASE Field(p[1]) \in PositionFields /\ Field(p[2]) \in PositionFields
  BY <1>2 DEF FixAsOld, NoPosition, PositionAt, IsPresent, Reading
<1>3. CASE Field(p[1]) \in HeightFields /\ Field(p[2]) \in HeightFields
  BY <1>3 DEF FixAsOld, NoHeight, HeightAt, IsPresent, Reading
<1> QED
  BY <1>1, <1>2, <1>3

LEMMA FixIs == FixInv => FixLagsByDamage
<1> SUFFICES ASSUME FixInv PROVE FixLagsByDamage
  OBVIOUS
<1>1. FixAsOld(info, LastGga, damaged)
  BY DEF FixInv
<1>2. PairsOfOneSentence
  <2>1. \A i, j \in 1..MaxSatInUse :
          IsPresent(info, InUse(i)) /\ IsPresent(info, InUse(j))
            => info[InUse(i)].v.epoch = info[InUse(j)].v.epoch
    <3>1. PICK e : InUseAt(info, e)
      BY <1>1 DEF FixAsOld
    <3>2. \A i \in 1..MaxSatInUse :
            IsPresent(info, InUse(i)) => info[InUse(i)].v.epoch = e
      BY <3>1 DEF InUseAt, InUses, IsPresent
    <3> QED
      BY <3>2
  <2> QED
    BY <1>1, <2>1, PairsAre, Zenon DEF PairsOfOneSentence
<1> QED
  BY <1>2, Zenon DEF FixLagsByDamage, FixInv, Lags

(* A fix that NMEAProtocol puts together of several sentences is never of  *)
(* more epochs than sentences have been damaged on the line: its quality   *)
(* and its height lag behind its position by as many at most, its letters  *)
(* are those of its numbers, and without damage it is not at 0, 0.         *)
THEOREM FixAlwaysLagsByDamage == Spec => []FixLagsByDamage
<1>1. Spec => []FixInv
  BY FixInit, FixNext, PTL DEF Spec
<1> QED
  BY <1>1, FixIs, PTL

-----------------------------------------------------------------------------
(* The satellites in view.                                                 *)

SameSats(r, to) ==
  \A n \in 1..MaxSatInView :
    /\ Sat(n) \in DOMAIN r <=> Sat(n) \in DOMAIN to
    /\ Sat(n) \in DOMAIN r => r[Sat(n)] = to[Sat(n)]

LEMMA SameSatsInView ==
  ASSUME NEW r, NEW to, SameSats(r, to)
  PROVE  SatsInView(r) = SatsInView(to) /\ Present(r) = Present(to)
<1> DEFINE I == Present(to)
<1>1. Present(r) = I
  BY DEF SameSats, Present, IsPresent
<1>2. \A k \in 1..Cardinality(I) : Nth(I, k) \in I
  <2>1. MaxSatInView \in Nat
    BY NmeaDataAssumption DEF MaxSatInView
  <2>2. I \in SUBSET (1..MaxSatInView)
    BY DEF Present
  <2> HIDE DEF I
  <2> QED
    BY <2>1, <2>2, NthIsOne
<1>3. \A n \in I : r[Sat(n)].v = to[Sat(n)].v
  BY DEF SameSats, Present, IsPresent
<1>4. SatsInView(r) = [k \in 1..Cardinality(I) |-> r[Sat(Nth(I, k))].v]
  BY <1>1, Zenon DEF SatsInView
<1>5. SatsInView(to) = [k \in 1..Cardinality(I) |-> to[Sat(Nth(I, k))].v]
  BY Zenon DEF SatsInView
<1> HIDE DEF I
<1>6. \A k \in 1..Cardinality(I) :
        r[Sat(Nth(I, k))].v = to[Sat(Nth(I, k))].v
  BY <1>2, <1>3
<1>7. SatsInView(r) = SatsInView(to)
  BY <1>4, <1>5, <1>6
<1> QED
  BY <1>1, <1>7 DEF I

LEMMA KindSameSats ==
  ASSUME NEW r, NEW id \in Kinds, NEW to, NEW junk, ReadsKind(r, id, to, junk)
  PROVE  SameSats(r, to)
<1> SUFFICES ASSUME NEW n \in 1..MaxSatInView
             PROVE  /\ Sat(n) \in DOMAIN r <=> Sat(n) \in DOMAIN to
                    /\ Sat(n) \in DOMAIN r => r[Sat(n)] = to[Sat(n)]
  BY DEF SameSats
<1>1. Sat(n)[1] = "SATELLITE"
  BY DEF Sat
<1>2. Sat(n) \notin FieldsIn(id)
  BY <1>1, FieldsInKinds
<1> QED
  BY <1>2 DEF ReadsKind

LEMMA ClearedHasNone ==
  ASSUME NEW i
  PROVE  Present(ClearSatsInView(i)) = {}
<1> DEFINE c == ClearSatsInView(i)
           view == Field("SAT_IN_VIEW")
           sats == {Sat(n) : n \in 1..MaxSatInView}
<1>1. DOMAIN c = (DOMAIN i \ sats) \union {view}
  BY ClearedIs, Zenon
<1>2. \A n \in 1..MaxSatInView : Sat(n) \in sats
  OBVIOUS
<1>3. \A n : Sat(n) # view
  BY DEF Sat, Field
<1> HIDE DEF c, sats, view
<1> QED
  BY <1>1, <1>2, <1>3 DEF Present, IsPresent, c

(* What a message makes of place n.                                        *)
LEMMA PlaceAfterMessage ==
  ASSUME TruthOK, NEW r, NEW m \in 1..Groups, NEW to, ReadsGsv(r, m, to),
         NEW n \in 1..MaxSatInView
  PROVE  LET here == n \in (First(m) + 1)..(First(m) + SatsPerMessage)
             behind == m = 1 /\ n > Groups * SatsPerMessage
         IN  /\ here => /\ Sat(n) \in DOMAIN r <=> n <= truth.view /\ n # 2
                        /\ Sat(n) \in DOMAIN r => r[Sat(n)] = SatelliteRead(n)
             /\ behind => Sat(n) \notin DOMAIN r
             /\ ~here /\ ~behind =>
                  /\ Sat(n) \in DOMAIN r <=> Sat(n) \in DOMAIN to
                  /\ Sat(n) \in DOMAIN r => r[Sat(n)] = to[Sat(n)]
<1> DEFINE a == First(m)
           S == SatsPerMessage
           p == Groups * S
           here == n \in (a + 1)..(a + S)
           behind == m = 1 /\ n > p
           shown == {Sat(a + k) : k \in Shown(m)}
<1>1. /\ a \in Nat /\ S \in Nat \ {0} /\ p \in Int /\ a + S <= p
      /\ MaxSatInView \in Nat /\ truth.view \in Int
  BY MessageFacts, GroupsFacts
<1>2. \A j, k : Sat(j) = Sat(k) <=> j = k
  BY DEF Sat
<1>3. Sat(n) # Field("SAT_IN_VIEW")
  BY DEF Sat, Field
<1>4. /\ DOMAIN r = (DOMAIN to \ Gone(m)) \union {Field("SAT_IN_VIEW")}
                    \union shown
      /\ \A k \in Shown(m) : r[Sat(a + k)] = SatelliteRead(a + k)
      /\ \A f \in DOMAIN to \ Gone(m) :
           f # Field("SAT_IN_VIEW") => r[f] = to[f]
  BY Zenon DEF ReadsGsv
<1>5. Shown(m) = {k \in 1..S : a + k <= truth.view /\ a + k # 2}
  BY DEF Shown
<1>6. Gone(m) = {Sat(a + k) : k \in 1..S}
                \union (IF m = 1 THEN {Sat(i) : i \in (p + 1)..MaxSatInView}
                        ELSE {})
  BY DEF Gone
<1> HIDE DEF a, S, p
<1>7. Sat(n) \in Gone(m) <=> here \/ behind
  <2>1. Sat(n) \in {Sat(a + k) : k \in 1..S} <=> here
    <3>1. here => n - a \in 1..S /\ n = a + (n - a)
      BY <1>1
    <3>2. \A k \in 1..S : n = a + k => here
      BY <1>1
    <3> QED
      BY <1>2, <3>1, <3>2
  <2>2. Sat(n) \in {Sat(i) : i \in (p + 1)..MaxSatInView} <=> n > p
    <3>1. n > p <=> n \in (p + 1)..MaxSatInView
      BY <1>1
    <3> HIDE DEF behind
    <3> QED
      BY <1>2, <3>1
  <2> QED
    BY <1>6, <2>1, <2>2
<1>8. Sat(n) \in shown <=> here /\ n <= truth.view /\ n # 2
  <2>1. ASSUME here, n <= truth.view, n # 2
        PROVE  n - a \in Shown(m) /\ n = a + (n - a)
    BY <1>1, <1>5, <2>1
  <2>2. \A k \in Shown(m) : n = a + k => here /\ n <= truth.view /\ n # 2
    BY <1>1, <1>5
  <2> QED
    BY <1>2, <2>1, <2>2
<1>9. Sat(n) \in shown => r[Sat(n)] = SatelliteRead(n)
  BY <1>2, <1>4
<1>10. behind => ~here
  BY <1>1
<1> HIDE DEF here, behind, shown
<1>11. /\ here => /\ Sat(n) \in DOMAIN r <=> n <= truth.view /\ n # 2
                  /\ Sat(n) \in DOMAIN r => r[Sat(n)] = SatelliteRead(n)
       /\ behind => Sat(n) \notin DOMAIN r
       /\ ~here /\ ~behind =>
            /\ Sat(n) \in DOMAIN r <=> Sat(n) \in DOMAIN to
            /\ Sat(n) \in DOMAIN r => r[Sat(n)] = to[Sat(n)]
  BY <1>3, <1>4, <1>7, <1>8, <1>9, <1>10
<1> QED
  BY <1>11, Zenon DEF here, behind, a, S, p

(* The places that the first m messages of this epoch's group fill, and    *)
(* those behind the group.                                                 *)
GroupHeard(i, m) ==
  /\ \A n \in 1..(m * SatsPerMessage) :
       /\ Sat(n) \in DOMAIN i <=> n <= truth.view /\ n # 2
       /\ Sat(n) \in DOMAIN i => i[Sat(n)] = SatelliteRead(n)
  /\ \A n \in (Groups * SatsPerMessage + 1)..MaxSatInView :
       Sat(n) \notin DOMAIN i

LEMMA GroupGoesOn ==
  ASSUME TruthOK, NEW r, NEW m \in 1..Groups, NEW to, ReadsGsv(r, m, to),
         m = 1 \/ GroupHeard(to, m - 1)
  PROVE  GroupHeard(r, m)
<1> DEFINE a == First(m)
           S == SatsPerMessage
           p == Groups * S
<1>1. /\ a \in Nat /\ S \in Nat \ {0} /\ p \in Int /\ a + S <= p
      /\ MaxSatInView \in Nat /\ p <= MaxSatInView /\ a + S = m * S
      /\ truth.view \in Int /\ m \in Int
  BY MessageFacts, GroupsFacts
<1>2. a = (m - 1) * S
  BY DEF First
<1>3. m = 1 => a = 0
  BY <1>1, <1>2
<1> HIDE DEF a, S
<1>4. ASSUME NEW n \in 1..(a + S)
      PROVE  /\ Sat(n) \in DOMAIN r <=> n <= truth.view /\ n # 2
             /\ Sat(n) \in DOMAIN r => r[Sat(n)] = SatelliteRead(n)
  <2>1. n \in 1..MaxSatInView /\ ~(n > p)
    BY <1>1
  <2>2. CASE n \in (a + 1)..(a + S)
    BY <2>1, <2>2, PlaceAfterMessage DEF a, S
  <2>3. CASE n \notin (a + 1)..(a + S)
    <3>1. n \in 1..a /\ m # 1
      BY <1>1, <1>3, <2>3
    <3>2. /\ Sat(n) \in DOMAIN to <=> n <= truth.view /\ n # 2
          /\ Sat(n) \in DOMAIN to => to[Sat(n)] = SatelliteRead(n)
      BY <1>2, <3>1 DEF GroupHeard, S
    <3>3. /\ Sat(n) \in DOMAIN r <=> Sat(n) \in DOMAIN to
          /\ Sat(n) \in DOMAIN r => r[Sat(n)] = to[Sat(n)]
      BY <2>1, <2>3, <3>1, PlaceAfterMessage DEF a, S
    <3> QED
      BY <3>2, <3>3
  <2> QED
    BY <2>2, <2>3
<1>5. ASSUME NEW n \in (p + 1)..MaxSatInView
      PROVE  Sat(n) \notin DOMAIN r
  <2>1. n \in 1..MaxSatInView /\ n > p /\ n \notin (a + 1)..(a + S)
    <3> HIDE DEF p
    <3>1. p >= 0
      BY <1>1
    <3> QED
      BY <1>1, <3>1
  <2>2. CASE m = 1
    BY <2>1, <2>2, PlaceAfterMessage DEF S
  <2>3. CASE m # 1
    <3>1. Sat(n) \notin DOMAIN to
      BY <2>3 DEF GroupHeard, S
    <3> QED
      BY <2>1, <2>3, <3>1, PlaceAfterMessage DEF a, S
  <2> QED
    BY <2>2, <2>3
<1>6. \A n \in 1..(m * S) :
        /\ Sat(n) \in DOMAIN r <=> n <= truth.view /\ n # 2
        /\ Sat(n) \in DOMAIN r => r[Sat(n)] = SatelliteRead(n)
  BY <1>1, <1>4
<1>7. \A n \in (Groups * S + 1)..MaxSatInView : Sat(n) \notin DOMAIN r
  BY <1>5
<1> QED
  BY <1>6, <1>7, Zenon DEF GroupHeard, S

(* When all its messages have been heard, the satellites are those told.   *)
LEMMA GroupIsTold ==
  ASSUME TruthOK, NEW i, GroupHeard(i, Groups)
  PROVE  SatsInView(i) = ToldSats
<1> DEFINE p == Groups * SatsPerMessage
           sat(n) == [q \in Range(GsvParts) |-> Token(Part(n, q), n).v]
<1>1. /\ p \in Nat /\ truth.view \in Nat /\ truth.view <= p
      /\ p <= MaxSatInView /\ MaxSatInView \in Nat
  BY GroupsFacts
<1>2. Whole = {n \in 1..truth.view : n # 2}
  BY DEF Whole, Incomplete
<1>3. \A n \in 1..MaxSatInView :
        Sat(n) \in DOMAIN i <=> n <= truth.view /\ n # 2
  <2>1. /\ \A n \in 1..p : Sat(n) \in DOMAIN i <=> n <= truth.view /\ n # 2
        /\ \A n \in (p + 1)..MaxSatInView : Sat(n) \notin DOMAIN i
    BY DEF GroupHeard
  <2> HIDE DEF p
  <2>2. \A n \in 1..MaxSatInView :
          n \in 1..p \/ (n \in (p + 1)..MaxSatInView /\ ~(n <= truth.view))
    BY <1>1
  <2> QED
    BY <2>1, <2>2
<1>4. Present(i) = Whole
  BY <1>1, <1>2, <1>3 DEF Present, IsPresent
<1>5. \A k \in 1..Cardinality(Whole) : Nth(Whole, k) \in Whole
  <2>1. Whole \in SUBSET (1..truth.view)
    BY DEF Whole
  <2> QED
    BY <1>1, <2>1, NthIsOne
<1>6. \A n \in Whole : i[Sat(n)].v = sat(n)
  <2> SUFFICES ASSUME NEW n \in Whole
               PROVE  i[Sat(n)].v = sat(n)
    OBVIOUS
  <2>1. n \in 1..p /\ n <= truth.view /\ n # 2
    <3> HIDE DEF p
    <3> QED
      BY <1>1, <1>2
  <2>2. i[Sat(n)] = SatelliteRead(n)
    BY <2>1 DEF GroupHeard
  <2>3. i[Sat(n)].v = [q \in Range(GsvParts) |-> SaidOf(n, q)]
    BY <2>2 DEF SatelliteRead, Variant
  <2>4. \A q : Token(Part(n, q), n).v = SaidOf(n, q)
    BY DEF Token, SaidOf
  <2> QED
    BY <2>3, <2>4
<1>7. ToldSats = [k \in 1..Cardinality(Whole) |-> sat(Nth(Whole, k))]
  BY Zenon DEF ToldSats
<1>8. SatsInView(i) =
        [k \in 1..Cardinality(Whole) |-> i[Sat(Nth(Whole, k))].v]
  BY <1>4, Zenon DEF SatsInView
<1> HIDE DEF sat
<1>9. \A k \in 1..Cardinality(Whole) :
        i[Sat(Nth(Whole, k))].v = sat(Nth(Whole, k))
  BY <1>5, <1>6
<1> QED
  BY <1>7, <1>8, <1>9

(* As long as GSV came through last nothing is too old; after that there   *)
(* are no satellites left, and they have been handed out once at most.     *)
StaleInv ==
  IF gsvTimer = heardAt THEN expired = 0
  ELSE /\ expired \in {0, 1} /\ Present(info) = {}
       /\ epoch - heardAt > GsvTimeout

(* While the group is sent, what was heard of it is at its places, if all  *)
(* the messages so far were heard.                                         *)
HeardInv ==
  /\ heard \in Nat
  /\ Done <= Groups + 2 => heard <= IF Done < 2 THEN 0 ELSE Done - 2
  /\ Done \in 3..(Groups + 2) /\ heard = Done - 2
       => GroupHeard(info, Done - 2)

ToldInv ==
  told.whole => /\ gsvTimer = heardAt => SatsInView(info) = told.sats
                /\ epoch - heardAt <= GsvTimeout => data.sats = told.sats

GroupInv ==
  /\ FieldsInv
  /\ StaleInv
  /\ HeardInv
  /\ ToldInv

LEMMA GroupInit == Init => GroupInv
<1> SUFFICES ASSUME Init PROVE GroupInv
  OBVIOUS
<1>1. FieldsInv
  BY FieldsInit
<1>2. StaleInv
  BY DEF Init, StaleInv
<1>3. Done = 0
  <2>1. truth.view \in Nat /\ dialect.gll \in BOOLEAN
    BY <1>1, GroupsFacts DEF FieldsInv, Settled, DialectOK
  <2>2. queue = Round(dialect, truth.view)
    BY DEF Init
  <2> QED
    BY <2>1, <2>2, NewRound DEF Done
<1>4. HeardInv
  BY <1>3 DEF Init, HeardInv
<1>5. ToldInv
  BY DEF Init, ToldInv, NothingTold
<1> QED
  BY <1>1, <1>2, <1>4, <1>5 DEF GroupInv

(* A sentence that is no GSV that came through.                            *)
LEMMA OtherKeepsGroup ==
  ASSUME GroupInv, FieldsInv', NEW r, SentenceDone(r), SameSats(r, info),
         DropsOld(r), TimerRuns, HearOther,
         Done \in 2..(Groups + 1) => r = info
  PROVE  GroupInv'
<1>1. /\ Settled /\ gsvTimer \in 1..epoch /\ heardAt \in 1..epoch
      /\ epoch \in Nat /\ GsvTimeout \in Nat /\ Done \in Nat
  BY NmeaMergeAssumption DEF GroupInv, FieldsInv, Settled, QueueOK
<1>2. /\ epoch' = epoch /\ truth' = truth /\ dialect' = dialect
      /\ Done' = Done + 1
      /\ data' = [fix |-> FixOf(r), sats |-> SatsInView(r)]
  BY <1>1, SettledKept DEF SentenceDone
<1>3. UNCHANGED <<heard, heardAt, told>>
  BY DEF HearOther
<1>4. SatsInView(r) = SatsInView(info) /\ Present(r) = Present(info)
  BY SameSatsInView
<1>5. data'.sats = SatsInView(info)
  BY <1>2, <1>4
<1>6. expired' = IF data'.sats # <<>> /\ epoch - heardAt > GsvTimeout
                 THEN expired + 1 ELSE expired
  BY DEF HearOther
<1>7. /\ HasRunOver <=> epoch - gsvTimer > GsvTimeout
      /\ gsvTimer' = IF HasRunOver THEN epoch ELSE gsvTimer
      /\ info' = IF HasRunOver THEN ClearSatsInView(r) ELSE r
  BY DEF HasRunOver, TimerRuns, DropsOld
<1>8. StaleInv'
  <2>1. CASE gsvTimer = heardAt
    <3>1. expired = 0
      BY <2>1 DEF GroupInv, StaleInv
    <3>2. CASE HasRunOver
      <4>1. gsvTimer' = epoch /\ epoch - heardAt > GsvTimeout
            /\ epoch # heardAt
        BY <1>1, <1>7, <2>1, <3>2
      <4>2. Present(info') = {}
        BY <1>7, <3>2, ClearedHasNone
      <4>3. expired' \in {0, 1}
        BY <1>6, <3>1
      <4> QED
        BY <1>2, <1>3, <4>1, <4>2, <4>3 DEF StaleInv, Present, IsPresent
    <3>3. CASE ~HasRunOver
      <4>1. gsvTimer' = gsvTimer /\ ~(epoch - heardAt > GsvTimeout)
        BY <1>7, <2>1, <3>3
      <4>2. expired' = 0
        BY <1>6, <3>1, <4>1
      <4> QED
        BY <1>3, <2>1, <4>1, <4>2 DEF StaleInv
    <3> QED
      BY <3>2, <3>3
  <2>2. CASE gsvTimer # heardAt
    <3>1. /\ expired \in {0, 1} /\ Present(info) = {}
          /\ epoch - heardAt > GsvTimeout
      BY <2>2 DEF GroupInv, StaleInv
    <3>2. data'.sats = <<>>
      BY <1>5, <3>1, SatsAreFew
    <3>3. expired' = expired
      BY <1>6, <3>2
    <3>4. Present(info') = {}
      BY <1>4, <1>7, <3>1, ClearedHasNone
    <3>5. gsvTimer' # heardAt
      BY <1>1, <1>7, <2>2, <3>1
    <3> QED
      BY <1>2, <1>3, <3>1, <3>3, <3>4, <3>5 DEF StaleInv, Present, IsPresent
  <2> QED
    BY <2>1, <2>2
<1>9. HeardInv'
  <2>1. /\ heard \in Nat
        /\ Done <= Groups + 2 => heard <= IF Done < 2 THEN 0 ELSE Done - 2
    BY DEF GroupInv, HeardInv
  <2>2. Groups' = Groups /\ Groups \in Nat
    <3>1. Groups \in 1..MaxGsvMessages
      BY <1>1, GroupsFacts DEF Settled
    <3> QED
      BY <1>2, <3>1 DEF Groups
  <2>3. Done' <= Groups + 2
          => heard <= IF Done' < 2 THEN 0 ELSE Done' - 2
    BY <1>1, <1>2, <2>1, <2>2
  <2>4. ~(Done' \in 3..(Groups + 2) /\ heard = Done' - 2)
    BY <1>1, <1>2, <2>1, <2>2
  <2> QED
    BY <1>3, <2>1, <2>2, <2>3, <2>4 DEF HeardInv
<1>10. ToldInv'
  <2> SUFFICES ASSUME told.whole
               PROVE  /\ gsvTimer' = heardAt => SatsInView(info') = told.sats
                      /\ epoch - heardAt <= GsvTimeout
                           => data'.sats = told.sats
    BY <1>2, <1>3 DEF ToldInv, SatsInView, Present, IsPresent
  <2>1. gsvTimer = heardAt => SatsInView(info) = told.sats
    BY DEF GroupInv, ToldInv
  <2>2. epoch - heardAt <= GsvTimeout => gsvTimer = heardAt
    BY <1>1 DEF GroupInv, StaleInv
  <2>3. gsvTimer' = heardAt => gsvTimer = heardAt /\ info' = r
    BY <1>1, <1>7, <2>2
  <2> QED
    BY <1>4, <1>5, <2>1, <2>2, <2>3
<1> QED
  BY <1>8, <1>9, <1>10 DEF GroupInv

(* A message of the group that came through.                               *)
LEMMA GsvKeepsGroup ==
  ASSUME GroupInv, FieldsInv', NEW r, SentenceDone(r), NEW m \in 1..Groups,
         GsvHeard(r, m)
  PROVE  GroupInv'
<1>1. /\ Settled /\ TruthOK /\ epoch \in Nat /\ Done \in Nat
  BY DEF GroupInv, FieldsInv, Settled, QueueOK
<1>2. /\ epoch' = epoch /\ truth' = truth /\ dialect' = dialect
      /\ Done' = Done + 1
      /\ data' = [fix |-> FixOf(r), sats |-> SatsInView(r)]
  BY <1>1, SettledKept DEF SentenceDone
<1>3. /\ Done = m + 1 /\ ReadsGsv(r, m, info) /\ info' = r
      /\ gsvTimer' = epoch /\ heard' = heard + 1 /\ heardAt' = epoch
      /\ told' = IF heard' = Groups THEN [whole |-> TRUE, sats |-> ToldSats]
                 ELSE NothingTold
      /\ expired' = 0
  BY DEF GsvHeard, GsvComes, HearGsv
<1>4. Groups' = Groups /\ Groups \in Nat /\ m \in Nat \ {0} /\ m <= Groups
  <2>1. Groups \in 1..MaxGsvMessages
    BY <1>1, GroupsFacts
  <2> QED
    BY <1>2, <2>1 DEF Groups
<1>5. /\ heard \in Nat /\ heard <= m - 1
      /\ m # 1 /\ heard = m - 1 => GroupHeard(info, m - 1)
  BY <1>3, <1>4 DEF GroupInv, HeardInv
<1>6. heard' = m => GroupHeard(r, m)
  <2> SUFFICES ASSUME heard' = m
               PROVE  GroupHeard(r, m)
    OBVIOUS
  <2>1. heard = m - 1
    BY <1>3, <1>4, <1>5
  <2>2. m = 1 \/ GroupHeard(info, m - 1)
    BY <1>5, <2>1
  <2> QED
    BY <1>1, <1>3, <2>2, GroupGoesOn
<1>7. HeardInv'
  <2>1. Done' = m + 2 /\ heard' \in Nat /\ heard' <= m /\ Done' - 2 = m
    BY <1>2, <1>3, <1>4, <1>5
  <2>2. heard' = m => GroupHeard(info, m)'
    <3>1. heard' = m => GroupHeard(info', m)
      BY <1>3, <1>6
    <3> QED
      BY <1>2, <1>4, <3>1 DEF GroupHeard, SatelliteRead, SaidOf
  <2>3. GroupHeard(info, m)' => GroupHeard(info, Done - 2)'
    BY <2>1 DEF GroupHeard
  <2>4. Done' <= Groups' + 2
          => heard' <= IF Done' < 2 THEN 0 ELSE Done' - 2
    BY <1>4, <2>1
  <2> QED
    BY <2>1, <2>2, <2>3, <2>4 DEF HeardInv
<1>8. StaleInv'
  BY <1>3 DEF StaleInv
<1>9. ToldInv'
  <2>1. CASE heard' = Groups
    <3>1. m = Groups
      BY <1>3, <1>4, <1>5, <2>1
    <3>2. GroupHeard(r, Groups)
      BY <1>6, <2>1, <3>1
    <3>3. SatsInView(r) = ToldSats
      BY <1>1, <3>2, GroupIsTold
    <3>4. told'.sats = ToldSats
      BY <1>3, <2>1
    <3>5. SatsInView(info') = told'.sats /\ data'.sats = told'.sats
      BY <1>2, <1>3, <3>3, <3>4
    <3> QED
      BY <3>5 DEF ToldInv, SatsInView, Present, IsPresent
  <2>2. CASE heard' # Groups
    <3>1. told'.whole = FALSE
      BY <1>3, <2>2 DEF NothingTold
    <3> QED
      BY <3>1 DEF ToldInv
  <2> QED
    BY <2>1, <2>2
<1> QED
  BY <1>7, <1>8, <1>9 DEF GroupInv

LEMMA GroupNext == GroupInv /\ [Next]_vars => GroupInv'
<1> SUFFICES ASSUME GroupInv, [Next]_vars PROVE GroupInv'
  OBVIOUS
<1>0. FieldsInv'
  BY FieldsNext DEF GroupInv
<1>1. Settled
  BY DEF GroupInv, FieldsInv
<1>2. CASE Hear \/ HearDamaged
  <2>1. PICK r : SentenceDone(r)
    BY <1>1, <1>2, OneSentence
  <2>2. ASSUME NEW id \in Kinds, NEW junk, KindHeard(r, id, junk)
        PROVE  GroupInv'
    <3>1. SameSats(r, info)
      BY <2>2, KindSameSats DEF KindHeard
    <3>2. Done \notin 2..(Groups + 1)
      BY <2>2 DEF KindHeard, KindComes
    <3> QED
      BY <1>0, <2>1, <2>2, <3>1, <3>2, OtherKeepsGroup DEF KindHeard
  <2>3. CASE \E m \in 1..Groups : GsvHeard(r, m)
    BY <1>0, <2>1, <2>3, GsvKeepsGroup
  <2>4. CASE NothingHeard(r)
    <3>1. SameSats(r, info) /\ r = info
      BY <2>4 DEF NothingHeard, SameSats
    <3> QED
      BY <1>0, <2>1, <2>4, <3>1, OtherKeepsGroup DEF NothingHeard
  <2> QED
    BY <2>1, <2>2, <2>3, <2>4 DEF SentenceDone
<1>3. CASE NextEpoch
  <2>1. epoch' = epoch + 1 /\ Done' = 0
    BY <1>1, <1>3, SettledNext
  <2>2. UNCHANGED <<info, gsvTimer, data, heardAt, told, expired>>
        /\ heard' = 0
    BY <1>3 DEF NextEpoch
  <2>3. epoch \in Nat /\ heardAt \in Nat /\ GsvTimeout \in Nat
    BY NmeaMergeAssumption DEF GroupInv, FieldsInv, Settled
  <2>4. StaleInv'
    BY <2>1, <2>2, <2>3 DEF GroupInv, StaleInv, Present, IsPresent
  <2>5. HeardInv'
    BY <2>1, <2>2 DEF HeardInv
  <2>6. ToldInv'
    BY <2>1, <2>2, <2>3
    DEF GroupInv, ToldInv, SatsInView, Present, IsPresent
  <2> QED
    BY <1>0, <2>4, <2>5, <2>6 DEF GroupInv
<1>4. CASE UNCHANGED vars
  <2>1. UNCHANGED <<dialect, epoch, truth, queue, info, gsvTimer, data,
                    damaged, heard, heardAt, told, expired>>
    BY <1>4 DEF vars, recvVars, gsvVars
  <2>2. Done' = Done /\ Groups' = Groups
    BY <2>1 DEF Done, Groups
  <2>3. StaleInv' /\ ToldInv'
    BY <2>1 DEF GroupInv, StaleInv, ToldInv, SatsInView, Present, IsPresent
  <2>4. GroupHeard(info, Done - 2) => GroupHeard(info, Done - 2)'
    BY <2>1, <2>2 DEF GroupHeard, SatelliteRead, SaidOf
  <2>5. HeardInv'
    BY <2>1, <2>2, <2>4 DEF GroupInv, HeardInv
  <2> QED
    BY <1>0, <2>3, <2>5 DEF GroupInv
<1> QED
  BY <1>2, <1>3, <1>4 DEF Next

LEMMA GroupIs == GroupInv => GroupDelivered
<1> SUFFICES ASSUME GroupInv PROVE GroupDelivered
  OBVIOUS
<1>1. OneStaleDelivery
  BY DEF GroupInv, StaleInv, OneStaleDelivery
<1>2. told.whole /\ epoch - heardAt <= GsvTimeout => data.sats = told.sats
  BY DEF GroupInv, ToldInv
<1> QED
  BY <1>1, <1>2 DEF GroupDelivered

(* tryParse hands out exactly the satellites of the last GSV group that    *)
(* came through whole, until the next one begins or GSV_TIMEOUT passes; and*)
(* satellites that are too old once at most after it has.                  *)
THEOREM GroupsAlwaysDelivered == Spec => []GroupDelivered
<1>1. Spec => []GroupInv
  BY GroupInit, GroupNext, PTL DEF Spec
<1> QED
  BY <1>1, GroupIs, PTL

-----------------------------------------------------------------------------
(* What has been merged can be written and read back.                      *)

IsReading(v) == v = [means |-> v.means, epoch |-> v.epoch, n |-> v.n]

(* A field holds a value and nothing else.                                 *)
PlainValue(f, x) ==
  /\ x = Variant(GetterType(f), x.v)
  /\ IF f[1] = "SATELLITE"
     THEN /\ x.v = [p \in Range(GsvParts) |-> x.v[p]]
          /\ \A p \in Range(GsvParts) : IsReading(x.v[p])
     ELSE IsReading(x.v)
  /\ f = Field("SAT_IN_VIEW") => x.v.n \in Int

HoldsPlain(i) == \A f \in DOMAIN i : PlainValue(f, i[f])

LEMMA ReadingsAre ==
  ASSUME NEW a, NEW e, NEW n
  PROVE  LET v == [means |-> a, epoch |-> e, n |-> n]
         IN  IsReading(v) /\ v.n = n
  BY DEF IsReading

LEMMA VariantsAre ==
  ASSUME NEW type, NEW v
  PROVE  /\ Variant(type, v).type = type /\ Variant(type, v).v = v
         /\ Variant(type, v) = Variant(type, Variant(type, v).v)
  BY DEF Variant

LEMMA ViewIs ==
  LET view == Field("SAT_IN_VIEW")
  IN  /\ GetterType(view) = "INT" /\ view[1] # "SATELLITE"
      /\ \A n : view # Sat(n)
      /\ \A n : PlainValue(view, Number0(n)) <=> n \in Int
<1> DEFINE view == Field("SAT_IN_VIEW")
<1>1. view[1] = "SAT_IN_VIEW" /\ view[1] # "SATELLITE"
      /\ view[1] \notin CharNames
  BY DEF Field, CharNames
<1>2. GetterType(view) = "INT"
  BY <1>1 DEF GetterType
<1>3. \A n : view # Sat(n)
  BY DEF Field, Sat
<1>4. ASSUME NEW n
      PROVE  PlainValue(view, Number0(n)) <=> n \in Int
  <2> DEFINE v == [means |-> <<"none", 0>>, epoch |-> 0, n |-> n]
  <2>1. Number0(n) = Variant("INT", v)
    BY DEF Number0, NoValue
  <2>2. IsReading(v) /\ v.n = n
    BY ReadingsAre
  <2> HIDE DEF v, view
  <2>3. Number0(n).v = v /\ Number0(n) = Variant("INT", Number0(n).v)
    BY <2>1, VariantsAre
  <2> QED
    BY <1>1, <1>2, <2>2, <2>3 DEF PlainValue, view
<1> QED
  BY <1>1, <1>2, <1>3, <1>4

LEMMA KindPlain ==
  ASSUME NEW r, NEW id \in Kinds, NEW to, NEW junk,
         ReadsKind(r, id, to, junk), HoldsPlain(to)
  PROVE  HoldsPlain(r)
<1> SUFFICES ASSUME NEW f \in DOMAIN r
             PROVE  PlainValue(f, r[f])
  BY DEF HoldsPlain
<1>1. CASE f \in FieldsIn(id)
  <2> DEFINE v == [means |-> f, epoch |-> epoch, n |-> NumberRead(f, junk)]
  <2>1. r[f] = Variant(GetterType(f), v)
    BY <1>1 DEF ReadsKind, ValueRead
  <2>2. f[1] # "SATELLITE" /\ f # Field("SAT_IN_VIEW")
    BY <1>1, FieldsInKinds
  <2>3. IsReading(v)
    BY ReadingsAre
  <2> HIDE DEF v
  <2>4. r[f].v = v
    BY <2>1, VariantsAre
  <2> QED
    BY <2>1, <2>2, <2>3, <2>4, Zenon DEF PlainValue
<1>2. CASE f \notin FieldsIn(id)
  <2>1. f \in DOMAIN to /\ r[f] = to[f]
    BY <1>2 DEF ReadsKind
  <2> QED
    BY <2>1 DEF HoldsPlain
<1> QED
  BY <1>1, <1>2

LEMMA GsvPlain ==
  ASSUME TruthOK, NEW r, NEW m \in 1..Groups, NEW to, ReadsGsv(r, m, to),
         HoldsPlain(to)
  PROVE  HoldsPlain(r)
<1> DEFINE view == Field("SAT_IN_VIEW")
<1> SUFFICES ASSUME NEW f \in DOMAIN r
             PROVE  PlainValue(f, r[f])
  BY DEF HoldsPlain
<1>1. CASE f = view
  <2> DEFINE v == [means |-> view, epoch |-> epoch, n |-> truth.view]
  <2>1. r[f] = Variant("INT", v)
    BY <1>1 DEF ReadsGsv, ViewRead
  <2>2. GetterType(f) = "INT" /\ f[1] # "SATELLITE"
    BY <1>1, ViewIs
  <2>3. IsReading(v) /\ v.n = truth.view
    BY ReadingsAre
  <2> HIDE DEF v
  <2>4. r[f].v = v
    BY <2>1, VariantsAre
  <2>5. truth.view \in Int
    BY GroupsFacts
  <2> QED
    BY <2>1, <2>2, <2>3, <2>4, <2>5 DEF PlainValue
<1>2. ASSUME NEW k \in Shown(m), f = Sat(First(m) + k)
      PROVE  PlainValue(f, r[f])
  <2> DEFINE j == First(m) + k
             v == [p \in Range(GsvParts) |-> SaidOf(j, p)]
  <2>1. r[f] = Variant("SATELLITE", v)
    BY <1>2 DEF ReadsGsv, SatelliteRead
  <2>2. \A p \in Range(GsvParts) : IsReading(SaidOf(j, p))
    BY ReadingsAre DEF SaidOf
  <2>3. v = [p \in Range(GsvParts) |-> v[p]]
        /\ \A p \in Range(GsvParts) : IsReading(v[p])
    BY <2>2
  <2> HIDE DEF j, v
  <2>4. r[f].v = v
    BY <2>1, VariantsAre
  <2>5. f[1] = "SATELLITE" /\ f # view
    BY <1>2 DEF Sat, Field
  <2>6. GetterType(f) = "SATELLITE"
    BY <2>5 DEF GetterType, CharNames
  <2> HIDE DEF view
  <2> QED
    BY <2>1, <2>3, <2>4, <2>5, <2>6, Zenon DEF PlainValue, view
<1>3. CASE f \in DOMAIN to \ Gone(m) /\ f # view
  BY <1>3 DEF ReadsGsv, HoldsPlain
<1> QED
  BY <1>1, <1>2, <1>3 DEF ReadsGsv

LEMMA ClearedPlain ==
  ASSUME NEW i, HoldsPlain(i)
  PROVE  HoldsPlain(ClearSatsInView(i))
<1> DEFINE c == ClearSatsInView(i)
           view == Field("SAT_IN_VIEW")
<1>1. /\ DOMAIN c = (DOMAIN i \ {Sat(n) : n \in 1..MaxSatInView})
                    \union {view}
      /\ c[view] = Number0(0)
      /\ \A g \in DOMAIN c : g # view => c[g] = i[g]
  BY ClearedIs, Zenon
<1>2. PlainValue(view, Number0(0))
  BY ViewIs
<1> HIDE DEF c, view
<1>3. \A f \in DOMAIN c : PlainValue(f, c[f])
  BY <1>1, <1>2 DEF HoldsPlain
<1> QED
  BY <1>3, Zenon DEF HoldsPlain, c

LEMMA NewPlain == HoldsPlain(NewInfo)
<1> DEFINE type(f) == IF f \in {Field("FIX_TYPE"), Field("FIX_QUALITY")}
                      THEN "INT" ELSE "CHAR"
           v(f) == [means |-> f, epoch |-> 0,
                    n |-> IF f = Field("FIX_TYPE") THEN 1 ELSE 0]
<1> SUFFICES ASSUME NEW f \in DOMAIN NewInfo
             PROVE  PlainValue(f, NewInfo[f])
  BY DEF HoldsPlain
<1>1. NewInfo[f] = Variant(type(f), v(f))
  BY DEF NewInfo
<1>2. f[1] # "SATELLITE" /\ f # Field("SAT_IN_VIEW")
  BY DEF NewInfo, Field
<1>3. NewInfo[f].type = GetterType(f)
  BY NewSound DEF HoldsSaid, SoundValue
<1>4. IsReading(v(f))
  BY ReadingsAre
<1> HIDE DEF v, type
<1>5. NewInfo[f].v = v(f) /\ NewInfo[f].type = type(f)
  BY <1>1, VariantsAre
<1> QED
  BY <1>1, <1>2, <1>3, <1>4, <1>5 DEF PlainValue

PlainInv == FieldsInv /\ HoldsPlain(info)

LEMMA PlainInit == Init => PlainInv
<1> SUFFICES ASSUME Init PROVE PlainInv
  OBVIOUS
<1>1. info = NewInfo
  BY DEF Init
<1> QED
  BY <1>1, FieldsInit, NewPlain DEF PlainInv

LEMMA PlainNext == PlainInv /\ [Next]_vars => PlainInv'
<1> SUFFICES ASSUME PlainInv, [Next]_vars PROVE PlainInv'
  OBVIOUS
<1>1. FieldsInv'
  BY FieldsNext DEF PlainInv
<1>2. CASE Hear \/ HearDamaged
  <2>1. PICK r : SentenceDone(r)
    BY <1>2, OneSentence DEF PlainInv, FieldsInv
  <2>2. HoldsPlain(r)
    <3>1. TruthOK /\ HoldsPlain(info)
      BY DEF PlainInv, FieldsInv, Settled
    <3> QED
      BY <2>1, <3>1, KindPlain, GsvPlain
      DEF SentenceDone, KindHeard, GsvHeard, NothingHeard
  <2>3. info' = r \/ info' = ClearSatsInView(r)
    BY <2>1 DEF SentenceDone, KindHeard, GsvHeard, NothingHeard, DropsOld
  <2>4. HoldsPlain(info')
    BY <2>2, <2>3, ClearedPlain
  <2> QED
    BY <1>1, <2>4 DEF PlainInv, HoldsPlain
<1>3. CASE NextEpoch \/ UNCHANGED vars
  <2>1. info' = info
    BY <1>3 DEF NextEpoch, vars
  <2> QED
    BY <1>1, <2>1 DEF PlainInv, HoldsPlain
<1> QED
  BY <1>2, <1>3 DEF Next

-----------------------------------------------------------------------------
(* Reading back what has been written.                                     *)

(* A value that a token of this kind keeps.                                *)
Survives(token, x) ==
  LET t == ToText(token, x)
  IN  t.length > 0 /\ Parses(token, t) /\ ValueOf(token, t, 0) = x

LEMMA PlainSurvives ==
  ASSUME NEW f, NEW token, Typed(f, token), NEW x, PlainValue(f, x),
         token = "time" => x.v.n \in {0} \union 10..99
  PROVE  Survives(token, x)
<1> DEFINE t == ToText(token, x)
           v == [means |-> x.v.means, epoch |-> x.v.epoch, n |-> x.v.n]
<1>1. token \in {"int", "float", "char", "time", "date"}
      /\ x = Variant(Type(token), v) /\ x.v = v
  BY DEF Typed, PlainValue, IsReading
<1>2. CASE token \in {"int", "float"}
  <2>1. t = [length |-> 2, number |-> TRUE, nan |-> FALSE, v |-> v]
    BY <1>1, <1>2 DEF ToText
  <2>2. t.length = 2 /\ t.number = TRUE /\ t.nan = FALSE /\ t.v = v
    BY <2>1
  <2> HIDE DEF t
  <2>3. Parses(token, t)
    BY <1>2, <2>2 DEF Parses
  <2>4. ValueOf(token, t, 0) = Variant(Type(token), [v EXCEPT !.n = v.n])
    BY <1>2, <2>2 DEF ValueOf
  <2>5. [v EXCEPT !.n = v.n] = v
    OBVIOUS
  <2> QED
    BY <1>1, <2>2, <2>3, <2>4, <2>5 DEF Survives, t
<1>3. CASE token \in {"char", "date"}
  <2>1. CASE token = "char"
    <3>1. t.length = 1 /\ t.v = v
      BY <1>1, <2>1 DEF ToText
    <3> HIDE DEF t
    <3>2. Parses(token, t) /\ t.length > 0
      BY <2>1, <3>1 DEF Parses
    <3>3. ValueOf(token, t, 0) = Variant(Type(token), v)
      BY <2>1, <3>1 DEF ValueOf
    <3> QED
      BY <1>1, <3>2, <3>3 DEF Survives, t
  <2>2. CASE token = "date"
    <3>1. t.length = 6 /\ t.v = v
      BY <1>1, <2>2 DEF ToText
    <3> HIDE DEF t
    <3>2. Parses(token, t) /\ t.length > 0
      BY <2>2, <3>1 DEF Parses
    <3>3. ValueOf(token, t, 0) = Variant(Type(token), v)
      BY <2>2, <3>1 DEF ValueOf
    <3> QED
      BY <1>1, <3>2, <3>3 DEF Survives, t
  <2> QED
    BY <1>3, <2>1, <2>2
<1>4. CASE token = "time"
  <2> DEFINE h == PrintedHundredths(v.n)
  <2>1. v.n = x.v.n /\ h = v.n
    BY <1>4 DEF PrintedHundredths
  <2>2. t.length = 9
    BY <1>4 DEF ToText
  <2>3. t.v = [x.v EXCEPT !.n = PrintedHundredths(x.v.n)]
    BY <1>4 DEF ToText
  <2>4. t.length = 9 /\ t.v = v
    BY <1>1, <2>1, <2>2, <2>3
  <2> HIDE DEF t
  <2>5. Parses(token, t) /\ t.length > 0
    BY <1>4, <2>4 DEF Parses
  <2>6. Hundredths(t, 0) = v.n
    BY <2>4 DEF Hundredths
  <2>7. ValueOf(token, t, 0) = Variant(Type(token), [v EXCEPT !.n = v.n])
    BY <1>4, <2>4, <2>6 DEF ValueOf
  <2>8. [v EXCEPT !.n = v.n] = v
    OBVIOUS
  <2> QED
    BY <1>1, <2>5, <2>7, <2>8 DEF Survives, t
<1> QED
  BY <1>1, <1>2, <1>3, <1>4

(* The fields F has a token for can be written and read back.              *)
CanBeWritten(F, K, from) ==
  \A i \in DOMAIN F :
    /\ F[i].token = K[F[i].field]
    /\ F[i].field \in DOMAIN from => Survives(F[i].token, from[F[i].field])

(* The fields of F are read as they were, and the others are left.         *)
ReadsBack(r, F, from, to) ==
  /\ DOMAIN r = (DOMAIN to \ FieldsOf(F)) \union (FieldsOf(F) \cap DOMAIN from)
  /\ \A f \in DOMAIN r : r[f] = IF f \in FieldsOf(F) THEN from[f] ELSE to[f]
  /\ r = [f \in DOMAIN r |-> r[f]]

LEMMA ReadBack ==
  ASSUME NEW F, NEW n, IsList(F, n), NEW K, NEW from, CanBeWritten(F, K, from),
         NEW to, NEW id, NEW head
  PROVE  LET s == ToString(Kind(id, head, F), from)
         IN  /\ s.head = head /\ s.intact = TRUE /\ Len(s.tokens) = Len(F)
             /\ ReadsBack(ParsePayload(F, s, to, 0), F, from, to)
<1> DEFINE s == ToString(Kind(id, head, F), from)
           word(i) == IF F[i].field \in DOMAIN from
                      THEN ToText(F[i].token, from[F[i].field])
                      ELSE EmptyToken
           words == [i \in DOMAIN F |-> word(i)]
           A == [f \in FieldsOf(F) |->
                   IF f \in DOMAIN from THEN ToText(K[f], from[f])
                   ELSE EmptyToken]
           r == ParsePayload(F, s, to, 0)
<1>1. s = Sentence(head, words)
  BY DEF ToString, Kind, IsPresent
<1>2. DOMAIN F = 1..n /\ Len(F) = n /\ n \in Nat
  BY ListFacts
<1>3. IsList(words, n) /\ \A i \in 1..n : words[i] = word(i)
  BY <1>2 DEF IsList
<1> HIDE DEF words
<1>4. s.head = head /\ s.intact = TRUE /\ s.tokens = words
  BY <1>1 DEF Sentence
<1>5. Len(words) = n
  BY <1>3, ListFacts
<1> HIDE DEF s
<1>6. \A i \in DOMAIN F : F[i].field \in FieldsOf(F)
  BY DEF FieldsOf
<1>7. Words(F, s, A, K)
  <2> SUFFICES ASSUME NEW i \in DOMAIN F
               PROVE  TokenAt(s, i) = A[F[i].field]
                      /\ F[i].token = K[F[i].field]
    BY Zenon DEF Words
  <2>1. F[i].token = K[F[i].field]
    BY DEF CanBeWritten
  <2>2. TokenAt(s, i) = word(i)
    BY <1>2, <1>3, <1>4, <1>5 DEF TokenAt
  <2>3. A[F[i].field] = word(i)
    BY <1>6, <2>1
  <2> QED
    BY <2>1, <2>2, <2>3
<1>8. \A f \in FieldsOf(F) :
        A[f] = IF f \in DOMAIN from THEN ToText(K[f], from[f]) ELSE EmptyToken
  OBVIOUS
<1> HIDE DEF A, word
<1>9. ReadsWords(r, F, to, A, K, 0)
  BY <1>7, PayloadIs, Zenon
<1>10. r = [f \in DOMAIN r |-> r[f]]
  BY DEF ParsePayload
<1> HIDE DEF r
<1>11. \A f \in FieldsOf(F) : f \in DOMAIN from => Survives(K[f], from[f])
  <2>1. \A f \in FieldsOf(F) : \E i \in DOMAIN F : F[i].field = f
    BY Zenon DEF FieldsOf
  <2> QED
    BY <2>1 DEF CanBeWritten
<1>12. SaidIn(F, A, K) = FieldsOf(F) \cap DOMAIN from
  <2>1. ASSUME NEW f \in FieldsOf(F)
        PROVE  A[f].length > 0 /\ Parses(K[f], A[f]) <=> f \in DOMAIN from
    <3>1. CASE f \in DOMAIN from
      BY <1>8, <1>11, <3>1 DEF Survives
    <3>2. CASE f \notin DOMAIN from
      BY <1>8, <3>2 DEF EmptyToken
    <3> QED
      BY <3>1, <3>2
  <2> QED
    BY <2>1, Zenon DEF SaidIn
<1>13. DOMAIN r = (DOMAIN to \ FieldsOf(F))
                  \union (FieldsOf(F) \cap DOMAIN from)
  BY <1>9, <1>12 DEF ReadsWords
<1>14. \A f \in DOMAIN r : r[f] = IF f \in FieldsOf(F) THEN from[f]
                                  ELSE to[f]
  <2>1. \A f \in FieldsOf(F) \cap DOMAIN from :
          ValueOf(K[f], A[f], 0) = from[f]
    BY <1>8, <1>11 DEF Survives
  <2> QED
    BY <1>9, <1>13, <2>1 DEF ReadsWords
<1> QED
  BY <1>2, <1>4, <1>5, <1>10, <1>13, <1>14, Zenon DEF ReadsBack, r, s

-----------------------------------------------------------------------------
(* No two formats of the chain have the head and the length of one another.*)
LEMMA ChainIsExact ==
  ASSUME NEW i \in DOMAIN Chain, NEW j \in DOMAIN Chain,
         Chain[i].head = Chain[j].head,
         Len(Chain[i].format) = Len(Chain[j].format)
  PROVE  i = j
<1> DEFINE S == SatsPerMessage
           m == MaxSatInUse
           At(k, h, l) ==
             \/ k = 1 /\ h = "GPGGA"
             \/ k = S + 6 /\ h = "GPGLL"
             \/ k = 2 /\ h = "GPGSA" /\ l = m + 5
             \/ k = 3 /\ h = "GPGSA" /\ l = m + 6
             \/ k = 4 /\ h = "GPGSV" /\ l = 3 + 4 * S
             \/ k - 4 \in 1..(S - 1) /\ h = "GPGSV" /\ l = 3 + 4 * (k - 4)
             \/ k = S + 4 /\ h = "GPRMC" /\ l = 11
             \/ k = S + 5 /\ h = "GPRMC" /\ l = 12
<1>1. S \in Nat \ {0} /\ m \in Nat
  BY ChainIs, FormatLengths
<1>2. \A k \in Nat : Len(GSV(k)) = 3 + 4 * k
  BY GsvFormat, ListFacts
<1>3. ASSUME NEW k \in DOMAIN Chain
      PROVE  At(k, Chain[k].head, Len(Chain[k].format)) /\ k \in Nat
  <2>1. k \in Nat
    BY <1>1, ChainIs, ListFacts
  <2>2. ASSUME NEW id, NEW h, NEW F, Chain[k] = Kind(id, h, F)
        PROVE  Chain[k].head = h /\ Chain[k].format = F
    BY <2>2 DEF Kind
  <2>3. ASSUME NEW n \in 1..(S - 1), k = 4 + n,
               Chain[k] = Kind("GSV", "GPGSV", GSV(n))
        PROVE  At(k, Chain[k].head, Len(Chain[k].format))
    <3>1. Chain[k].head = "GPGSV" /\ Chain[k].format = GSV(n)
      BY <2>2, <2>3
    <3>2. Len(GSV(n)) = 3 + 4 * n /\ n = k - 4
      BY <1>1, <1>2, <2>3
    <3> QED
      BY <3>1, <3>2
  <2>4. Len(GSV(S)) = 3 + 4 * S
    BY <1>1, <1>2
  <2>5. CASE \E n \in 1..(S - 1) :
               k = 4 + n /\ Chain[k] = Kind("GSV", "GPGSV", GSV(n))
    BY <2>3, <2>5
  <2>6. CASE k = 1 /\ Chain[k] = Kind("GGA", "GPGGA", GGA)
    <3>1. Chain[k].head = "GPGGA"
      BY <2>2, <2>6, Zenon
    <3> QED
      BY <2>1, <2>6, <3>1, Zenon
  <2>7. CASE k = 2 /\ Chain[k] = Kind("GSA", "GPGSA", GSA)
    BY <2>2, <2>7, FormatLengths
  <2>8. CASE k = 3 /\ Chain[k] = Kind("GSA", "GPGSA", GSA1)
    BY <2>2, <2>8, FormatLengths
  <2>9. CASE k = 4 /\ Chain[k] = Kind("GSV", "GPGSV", GSV(S))
    BY <2>2, <2>4, <2>9
  <2>10. CASE k = S + 4 /\ Chain[k] = Kind("RMC", "GPRMC", RMC)
    <3>1. Chain[k].head = "GPRMC" /\ Chain[k].format = RMC
      BY <2>2, <2>10, Zenon
    <3> QED
      BY <2>1, <2>10, <3>1, FormatLengths
  <2>11. CASE k = S + 5 /\ Chain[k] = Kind("RMC", "GPRMC", RMC1)
    <3>1. Chain[k].head = "GPRMC" /\ Chain[k].format = RMC1
      BY <2>2, <2>11, Zenon
    <3> QED
      BY <2>1, <2>11, <3>1, FormatLengths
  <2>12. CASE k = S + 6 /\ Chain[k] = Kind("GLL", "GPGLL", GLL)
    <3>1. Chain[k].head = "GPGLL"
      BY <2>2, <2>12, Zenon
    <3> QED
      BY <2>1, <2>12, <3>1, Zenon
  <2> HIDE DEF At
  <2> QED
    BY <2>1, <2>5, <2>6, <2>7, <2>8, <2>9, <2>10, <2>11, <2>12,
       ChainByNumber, Zenon
<1>4. ASSUME NEW h, NEW l, At(i, h, l), At(j, h, l)
      PROVE  i = j
  <2>1. i \in Nat /\ j \in Nat
    BY <1>3
  <2> HIDE DEF S, m
  <2> QED
    BY <1>1, <1>4, <2>1
<1> HIDE DEF At
<1> QED
  BY <1>3, <1>4, Zenon

(* What a format takes no other does.                                      *)
LEMMA RecognisedIs ==
  ASSUME NEW i \in DOMAIN Chain, NEW s, NEW junk,
         Recognises(Chain[i], s, junk)
  PROVE  /\ Recognised(s, junk) = {i}
         /\ \A to : Merge(s, to, junk) =
              IF Chain[i].id = "GSV" THEN MergeGsv(Chain[i], s, to, junk)
              ELSE ParsePayload(Chain[i].format, s, to, junk)
<1>1. \A j \in DOMAIN Chain : Recognises(Chain[j], s, junk) =>
        s.head = Chain[j].head /\ Len(s.tokens) = Len(Chain[j].format)
  BY Zenon DEF Recognises, TakesGsv, Takes
<1>2. \A j \in DOMAIN Chain : Recognises(Chain[j], s, junk) => j = i
  <2> SUFFICES ASSUME NEW j \in DOMAIN Chain, Recognises(Chain[j], s, junk)
               PROVE  j = i
    OBVIOUS
  <2>1. /\ Chain[i].head = Chain[j].head
        /\ Len(Chain[i].format) = Len(Chain[j].format)
    BY <1>1
  <2> QED
    BY <2>1, ChainIsExact
<1>3. Recognised(s, junk) = {i}
  BY <1>2 DEF Recognised
<1>4. i \in Int
  <2>1. DOMAIN Chain = 1..(SatsPerMessage + 6)
    BY ChainIs, ListFacts
  <2> QED
    BY <2>1
<1>5. FirstOf(Recognised(s, junk)) = i /\ Recognised(s, junk) # {}
  BY <1>3, <1>4, FirstOfOne
<1> QED
  BY <1>3, <1>5, Zenon DEF Merge

-----------------------------------------------------------------------------
(* What has been read of a set of fields that is written.                  *)

Only(from, G) == Restrict(from, DOMAIN from \cap G)

(* A function on D that agrees with the fields that are written.          *)
Agrees(r, D, from) ==
  /\ r = [f \in DOMAIN r |-> r[f]] /\ DOMAIN r = D
  /\ \A f \in DOMAIN r : r[f] = from[f]

LEMMA OnlyIs ==
  ASSUME NEW from, NEW G
  PROVE  /\ Agrees(Only(from, G), DOMAIN from \cap G, from)
         /\ \A r : Agrees(r, DOMAIN from \cap G, from) => r = Only(from, G)
<1> DEFINE D == DOMAIN from \cap G
           o == Only(from, G)
<1>1. o = [f \in D |-> from[f]]
  BY DEF Only, Restrict
<1>2. Agrees(o, D, from)
  BY <1>1 DEF Agrees
<1>3. ASSUME NEW r, Agrees(r, D, from)
      PROVE  r = o
  <2>1. r = [f \in D |-> r[f]] /\ \A f \in D : r[f] = from[f]
    BY <1>3, Zenon DEF Agrees
  <2>2. [f \in D |-> r[f]] = [f \in D |-> from[f]]
    BY <2>1, Zenon
  <2> QED
    BY <1>1, <2>1, <2>2, Zenon
<1> QED
  BY <1>2, <1>3, Zenon

LEMMA OnlyMore ==
  ASSUME NEW r, NEW F, NEW from, NEW G, ReadsBack(r, F, from, Only(from, G))
  PROVE  r = Only(from, G \union FieldsOf(F))
<1> DEFINE to == Only(from, G)
           H == G \union FieldsOf(F)
<1>1. /\ DOMAIN to = DOMAIN from \cap G
      /\ \A f \in DOMAIN to : to[f] = from[f]
  BY OnlyIs, Zenon DEF Agrees
<1> HIDE DEF to
<1>2. /\ DOMAIN r = (DOMAIN to \ FieldsOf(F))
                    \union (FieldsOf(F) \cap DOMAIN from)
      /\ \A f \in DOMAIN r :
           r[f] = IF f \in FieldsOf(F) THEN from[f] ELSE to[f]
      /\ r = [f \in DOMAIN r |-> r[f]]
  BY DEF ReadsBack, to
<1>3. DOMAIN r = DOMAIN from \cap H
  BY <1>1, <1>2
<1>4. \A f \in DOMAIN r : r[f] = from[f]
  BY <1>1, <1>2
<1>5. Agrees(r, DOMAIN from \cap H, from)
  BY <1>2, <1>3, <1>4, Zenon DEF Agrees
<1> QED
  BY <1>5, OnlyIs, Zenon

(* The formats generate() writes, but for GSV.                             *)
Plainly(i) ==
  /\ i \in DOMAIN Chain /\ Chain[i].id # "GSV"
  /\ Chain[i] = Kind(Chain[i].id, Chain[i].head, Chain[i].format)
  /\ \E L, n : Fits(Chain[i].format, L, n)
  /\ \A f \in FieldsOf(Chain[i].format) : f[1] = "TIME" => f = Field("TIME")

LEMMA PlainlyWritten ==
  LET S == SatsPerMessage
  IN  Plainly(1) /\ Plainly(2) /\ Plainly(S + 4) /\ Plainly(S + 6)
<1> DEFINE S == SatsPerMessage
<1>1. /\ S \in Nat \ {0} /\ DOMAIN Chain = 1..(S + 6)
      /\ Chain[1] = Kind("GGA", "GPGGA", GGA)
      /\ Chain[2] = Kind("GSA", "GPGSA", GSA)
      /\ Chain[S + 4] = Kind("RMC", "GPRMC", RMC)
      /\ Chain[S + 6] = Kind("GLL", "GPGLL", GLL)
  BY ChainIs, ListFacts
<1>2. ASSUME NEW i \in DOMAIN Chain, NEW id, NEW h, NEW F,
             Chain[i] = Kind(id, h, F), id # "GSV",
             \E L, n : Fits(F, L, n),
             \A f \in FieldsOf(F) : f[1] = "TIME" => f = Field("TIME")
      PROVE  Plainly(i)
  <2>1. Chain[i].id = id /\ Chain[i].head = h /\ Chain[i].format = F
    BY <1>2 DEF Kind
  <2> QED
    BY <1>2, <2>1, Zenon DEF Plainly
<1>3. (\E K : Fits(GGA, K, 14)) /\ (\E K : Fits(GLL, K, 6))
      /\ (\E K : Fits(RMC, K, 11))
  BY GgaFits, GllFits, RmcFits, Zenon DEF GGA, GLL, RMC
<1>4. \E K, n : Fits(GSA, K, n)
  <2>1. \E K, n : Fits(GSABegin, K, n)
    BY GsaBeginFits, InUseFits, FitsJoined, Zenon DEF GSABegin
  <2> QED
    BY <2>1, GsaEndFits, FitsJoined, Zenon DEF GSA
<1>5. \A names : \A f \in Fields(names) : f[1] = "TIME" => f = Field("TIME")
  BY DEF Fields, Field
<1>6. \A f \in InUses : f[1] # "TIME"
  BY DEF InUses, InUse
<1>7. 1 \in DOMAIN Chain /\ 2 \in DOMAIN Chain /\ S + 4 \in DOMAIN Chain
      /\ S + 6 \in DOMAIN Chain
  BY <1>1
<1>8. Plainly(1)
  BY <1>1, <1>2, <1>3, <1>5, <1>7, FieldsOfFormats
<1>9. Plainly(S + 6)
  BY <1>1, <1>2, <1>3, <1>5, <1>7, FieldsOfFormats
<1>10. Plainly(S + 4)
  BY <1>1, <1>2, <1>3, <1>5, <1>7, FieldsOfFormats
<1>11. Plainly(2)
  <2>1. \A f \in FieldsOf(GSA) : f[1] = "TIME" => f = Field("TIME")
    BY <1>5, <1>6, FieldsOfFormats DEF GsaNames
  <2> QED
    BY <1>1, <1>2, <1>4, <1>7, <2>1
<1> QED
  BY <1>8, <1>9, <1>10, <1>11

TimeIsPrinted(from) ==
  Field("TIME") \in DOMAIN from
    => from[Field("TIME")].v.n \in {0} \union 10..99

(* A sentence written of a set of fields, and read.                        *)
LEMMA KindReadBack ==
  ASSUME NEW i, Plainly(i), NEW from, HoldsPlain(from), TimeIsPrinted(from),
         NEW G
  PROVE  Merge(ToString(Chain[i], from), Only(from, G), 0)
           = Only(from, G \union FieldsOf(Chain[i].format))
<1> DEFINE k == Chain[i]
           F == k.format
           s == ToString(k, from)
           to == Only(from, G)
           r == ParsePayload(F, s, to, 0)
           K == [f \in FieldsOf(F) |-> TokenFor(f)]
<1>1. i \in DOMAIN Chain /\ k.id # "GSV" /\ k = Kind(k.id, k.head, F)
  BY Zenon DEF Plainly
<1>2. PICK L, n : Fits(F, L, n)
  BY Zenon DEF Plainly
<1>3. IsList(F, n) /\ DOMAIN F = 1..n
      /\ \A j \in 1..n : Typed(F[j].field, F[j].token)
  BY <1>2, ListFacts DEF Fits
<1>4. CanBeWritten(F, K, from)
  <2> SUFFICES ASSUME NEW j \in DOMAIN F
               PROVE  /\ F[j].token = K[F[j].field]
                      /\ F[j].field \in DOMAIN from
                           => Survives(F[j].token, from[F[j].field])
    BY Zenon DEF CanBeWritten
  <2>1. Typed(F[j].field, F[j].token)
    BY <1>3
  <2>2. F[j].field \in FieldsOf(F)
    BY Zenon DEF FieldsOf
  <2>3. K[F[j].field] = F[j].token
    BY <2>1, <2>2, TokenForIs
  <2>4. ASSUME F[j].field \in DOMAIN from
        PROVE  Survives(F[j].token, from[F[j].field])
    <3> DEFINE f == F[j].field
               x == from[f]
               token == F[j].token
    <3>1. PlainValue(f, x)
      BY <2>4 DEF HoldsPlain
    <3>2. token = "time" => f[1] = "TIME"
      <4>1. Type(token) = GetterType(f)
        BY <2>1 DEF Typed
      <4> HIDE DEF f, token
      <4> QED
        BY <4>1 DEF Type, GetterType
    <3>3. f[1] = "TIME" => f = Field("TIME")
      BY <2>2, Zenon DEF Plainly
    <3>4. token = "time" => x.v.n \in {0} \union 10..99
      BY <2>4, <3>2, <3>3 DEF TimeIsPrinted
    <3> HIDE DEF f, x, token
    <3>5. Typed(f, token)
      BY <2>1 DEF f, token
    <3>6. Survives(token, x)
      BY <3>1, <3>4, <3>5, PlainSurvives
    <3> QED
      BY <3>6 DEF f, x, token
  <2> QED
    BY <2>3, <2>4
<1> HIDE DEF K, F, k
<1>5. s = ToString(Kind(k.id, k.head, F), from)
  BY <1>1
<1> HIDE DEF s, to
<1>6. /\ s.head = k.head /\ s.intact = TRUE /\ Len(s.tokens) = Len(F)
      /\ ReadsBack(r, F, from, to)
  <2> DEFINE t == ToString(Kind(k.id, k.head, F), from)
  <2>1. /\ t.head = k.head /\ t.intact = TRUE /\ Len(t.tokens) = Len(F)
        /\ ReadsBack(ParsePayload(F, t, to, 0), F, from, to)
    BY <1>3, <1>4, ReadBack
  <2> HIDE DEF t
  <2>2. s = t
    BY <1>5 DEF t
  <2> QED
    BY <2>1, <2>2, Zenon DEF r
<1> HIDE DEF r
<1>7. r = Only(from, G \union FieldsOf(F))
  BY <1>6, OnlyMore DEF to
<1>8. Recognises(k, s, 0)
  BY <1>1, <1>6 DEF Recognises, Takes, F
<1>9. Merge(s, to, 0) = r
  BY <1>1, <1>8, RecognisedIs, Zenon DEF k, F, r
<1> QED
  BY <1>7, <1>9 DEF s, to, F, k

-----------------------------------------------------------------------------
LEMMA NumberSurvives ==
  ASSUME NEW v, IsReading(v)
  PROVE  Survives("int", Variant("INT", v))
<1> DEFINE f == Field("FIX_TYPE")
           x == Variant("INT", v)
<1>1. Typed(f, "int")
  BY TypesOfNames
<1>2. f[1] # "SATELLITE" /\ f # Field("SAT_IN_VIEW")
  BY DEF Field
<1>3. GetterType(f) = "INT"
  BY <1>1 DEF Typed, Type
<1>4. x.v = v
  BY VariantsAre
<1>5. x = Variant("INT", x.v) /\ IsReading(x.v)
  BY <1>4
<1> HIDE DEF f, x
<1>6. PlainValue(f, x)
  BY <1>2, <1>3, <1>5, Zenon DEF PlainValue, f
<1>7. Survives("int", x)
  BY <1>1, <1>6, PlainSurvives
<1> QED
  BY <1>7 DEF x

(* The places of message m that are taken in a set of fields.              *)
Taken(from, m) == {n \in 1..SatsPerMessage : Sat(First(m) + n) \in DOMAIN from}

TakenParts(from, m) ==
  {Part(n, p) : n \in Taken(from, m), p \in Range(GsvParts)}

(* What message m of c has to say.                                         *)
IsMessage(d, from, m, c) ==
  /\ DOMAIN d = HeaderFields \union TakenParts(from, m)
  /\ d[Field("MESSAGE_COUNT")] = Number0(c)
  /\ d[Field("MESSAGE_NUMBER")] = Number0(m)
  /\ d[Field("SAT_IN_VIEW")] = from[Field("SAT_IN_VIEW")]
  /\ \A n \in Taken(from, m) : \A p \in Range(GsvParts) :
       d[Part(n, p)] = Variant("INT", from[Sat(First(m) + n)].v[p])

LEMMA GsvDataIs ==
  ASSUME NEW from, Field("SAT_IN_VIEW") \in DOMAIN from, NEW m, NEW c
  PROVE  IsMessage(GsvData(from, m, c), from, m, c)
<1> DEFINE count == Field("MESSAGE_COUNT")
           number == Field("MESSAGE_NUMBER")
           view == Field("SAT_IN_VIEW")
           at(n) == Sat((m - 1) * SatsPerMessage + n)
           sats == {n \in 1..SatsPerMessage : IsPresent(from, at(n))}
           names == {Part(n, p) : n \in sats, p \in Range(GsvParts)}
           value(n, p) == Variant("INT", from[at(n)].v[p])
           parts == [f \in names |-> value(f[2], f[1])]
           one == Set(parts, count, Number0(c))
           two == Set(one, number, Number0(m))
           d == GsvData(from, m, c)
<1>1. d = Copied(from, view, two)
  BY DEF GsvData
<1>2. sats = Taken(from, m) /\ \A n : at(n) = Sat(First(m) + n)
  BY DEF Taken, IsPresent, First
<1>3. \A n, p : Part(n, p)[1] = p /\ Part(n, p)[2] = n
  BY DEF Part
<1>4. DOMAIN parts = names
      /\ \A n \in sats : \A p \in Range(GsvParts) :
           parts[Part(n, p)] = value(n, p)
  BY <1>3
<1>5. count # number /\ count # view /\ number # view
  BY DEF Field
<1>6. \A f \in names : f # count /\ f # number /\ f # view
  BY GsvPartsAre DEF Part, Field
<1> HIDE DEF count, number, view, sats, names, parts, value, at
<1>7. DOMAIN one = names \union {count} /\ one[count] = Number0(c)
      /\ \A f \in names : one[f] = parts[f]
  BY <1>4, <1>6 DEF Set
<1> HIDE DEF one
<1>8. DOMAIN two = names \union {count, number} /\ two[number] = Number0(m)
      /\ two[count] = Number0(c) /\ \A f \in names : two[f] = parts[f]
  BY <1>5, <1>6, <1>7 DEF Set
<1> HIDE DEF two, d
<1>9. d = Set(two, view, from[view])
  BY <1>1 DEF Copied, IsPresent, view
<1>10. DOMAIN d = names \union {count, number, view} /\ d[view] = from[view]
       /\ d[number] = Number0(m) /\ d[count] = Number0(c)
       /\ \A f \in names : d[f] = parts[f]
  BY <1>5, <1>6, <1>8, <1>9 DEF Set
<1>11. \A n \in Taken(from, m) : \A p \in Range(GsvParts) :
         d[Part(n, p)] = Variant("INT", from[Sat(First(m) + n)].v[p])
  <2> SUFFICES ASSUME NEW n \in Taken(from, m), NEW p \in Range(GsvParts)
               PROVE  d[Part(n, p)] =
                        Variant("INT", from[Sat(First(m) + n)].v[p])
    OBVIOUS
  <2>1. Part(n, p) \in names
    BY <1>2 DEF names
  <2>2. d[Part(n, p)] = value(n, p)
    BY <1>2, <1>4, <1>10, <2>1
  <2> QED
    BY <1>2, <2>2 DEF value
<1>12. DOMAIN d = HeaderFields \union TakenParts(from, m)
  BY <1>2, <1>10
  DEF HeaderFields, TakenParts, names, count, number, view
<1>13. IsMessage(d, from, m, c)
  BY <1>10, <1>11, <1>12, Zenon DEF IsMessage, count, number, view
<1> QED
  BY <1>13 DEF d

(* A GSV message that is written as number m of c, and what it is read as. *)
LEMMA MessageParsed ==
  ASSUME NEW from, HoldsPlain(from), Field("SAT_IN_VIEW") \in DOMAIN from,
         NEW m \in Int, NEW c \in Int
  PROVE  LET k == Chain[4]
             d == GsvData(from, m, c)
             s == ToString(k, d)
             gsv == GsvOf(k, s, 0)
         IN  /\ Takes(k, s)
             /\ DOMAIN gsv = DOMAIN d
             /\ \A f \in DOMAIN gsv : gsv[f] = d[f]
<1> DEFINE S == SatsPerMessage
           F == GSV(S)
           k == Chain[4]
           d == GsvData(from, m, c)
           s == ToString(k, d)
           gsv == GsvOf(k, s, 0)
           view == Field("SAT_IN_VIEW")
           parts == TakenParts(from, m)
           K == [f \in FieldsOf(F) |-> "int"]
<1>1. S \in Nat \ {0} /\ k = Kind("GSV", "GPGSV", F)
  BY ChainIs
<1>2. IsList(F, 3 + 4 * S) /\ FieldsOf(F) = HeaderFields \union PartFields(S)
  BY <1>1, GsvFormat, FieldsOfGsv
<1>3. \A i \in DOMAIN F : F[i].token = "int"
  <2> SUFFICES ASSUME NEW i \in 1..(3 + 4 * S)
               PROVE  F[i].token = "int"
    BY <1>2, ListFacts
  <2>1. /\ F[1].token = "int" /\ F[2].token = "int" /\ F[3].token = "int"
        /\ \A j \in 1..(4 * S) : F[3 + j].token = "int"
    <3>1. /\ F[1] = field(Field("MESSAGE_COUNT"), "int")
          /\ F[2] = field(Field("MESSAGE_NUMBER"), "int")
          /\ F[3] = field(Field("SAT_IN_VIEW"), "int")
          /\ \A j \in 1..(4 * S) :
               F[3 + j] = field(Part(SatAt(j), PartAt(j)), "int")
      BY <1>1, GsvFormat
    <3> HIDE DEF F
    <3> QED
      <4>1. \A f, t : field(f, t).token = t
        BY DEF field
      <4> QED
        BY <3>1, <4>1
  <2> HIDE DEF F
  <2>2. CASE i \in 1..3
    BY <2>1, <2>2
  <2>3. CASE i \notin 1..3
    <3>1. i - 3 \in 1..(4 * S) /\ i = 3 + (i - 3)
      BY <1>1, <2>3
    <3> QED
      BY <2>1, <3>1
  <2> QED
    BY <2>2, <2>3
<1>4. /\ DOMAIN d = HeaderFields \union parts
      /\ d[Field("MESSAGE_COUNT")] = Number0(c)
      /\ d[Field("MESSAGE_NUMBER")] = Number0(m)
      /\ d[view] = from[view]
      /\ \A n \in Taken(from, m) : \A p \in Range(GsvParts) :
           d[Part(n, p)] = Variant("INT", from[Sat(First(m) + n)].v[p])
  <2>1. IsMessage(d, from, m, c)
    BY GsvDataIs
  <2> HIDE DEF d
  <2> QED
    BY <2>1, Zenon DEF IsMessage
<1> HIDE DEF d, view
<1>5. \A x \in Int : Survives("int", Number0(x))
  <2> SUFFICES ASSUME NEW x \in Int PROVE Survives("int", Number0(x))
    OBVIOUS
  <2> DEFINE v == [means |-> <<"none", 0>>, epoch |-> 0, n |-> x]
  <2>1. Number0(x) = Variant("INT", v) /\ IsReading(v)
    BY ReadingsAre DEF Number0, NoValue
  <2> HIDE DEF v
  <2> QED
    BY <2>1, NumberSurvives
<1>6. Survives("int", d[view])
  <2>1. PlainValue(view, from[view])
    BY DEF HoldsPlain, view
  <2>2. GetterType(view) = "INT" /\ view[1] # "SATELLITE"
    BY ViewIs DEF view
  <2>3. from[view] = Variant("INT", from[view].v) /\ IsReading(from[view].v)
    BY <2>1, <2>2 DEF PlainValue
  <2> QED
    BY <1>4, <2>3, NumberSurvives
<1>7. ASSUME NEW n \in Taken(from, m), NEW p \in Range(GsvParts)
      PROVE  Survives("int", d[Part(n, p)])
  <2> DEFINE f == Sat(First(m) + n)
  <2>1. f \in DOMAIN from /\ f[1] = "SATELLITE"
    BY DEF Taken, Sat
  <2> HIDE DEF f
  <2>2. IsReading(from[f].v[p])
    BY <2>1 DEF HoldsPlain, PlainValue
  <2>3. d[Part(n, p)] = Variant("INT", from[f].v[p])
    BY <1>4 DEF f
  <2> QED
    BY <2>2, <2>3, NumberSurvives
<1>8. \A f \in DOMAIN d : Survives("int", d[f])
  <2>1. \A f \in HeaderFields : Survives("int", d[f])
    BY <1>4, <1>5, <1>6 DEF HeaderFields, view
  <2>2. \A f \in parts : Survives("int", d[f])
    BY <1>7 DEF TakenParts
  <2> QED
    BY <1>4, <2>1, <2>2
<1>9. CanBeWritten(F, K, d)
  <2>1. \A i \in DOMAIN F : F[i].field \in FieldsOf(F)
    BY DEF FieldsOf
  <2>2. \A i \in DOMAIN F : K[F[i].field] = "int"
    BY <2>1
  <2> HIDE DEF K, F
  <2> QED
    BY <1>3, <1>8, <2>2 DEF CanBeWritten
<1>10. DOMAIN d \subseteq FieldsOf(F)
  BY <1>2, <1>4 DEF PartFields, Taken, TakenParts
<1> DEFINE t == ToString(Kind("GSV", "GPGSV", F), d)
<1> HIDE DEF K, F
<1>11. /\ t.head = "GPGSV" /\ t.intact = TRUE /\ Len(t.tokens) = Len(F)
       /\ ReadsBack(ParsePayload(F, t, NoData, 0), F, d, NoData)
  BY <1>2, <1>9, ReadBack
<1>12. s = t
  BY <1>1
<1> HIDE DEF s, t
<1>13. k.head = "GPGSV" /\ k.format = F
  BY <1>1 DEF Kind
<1> HIDE DEF k
<1>14. Takes(k, s)
  BY <1>11, <1>12, <1>13 DEF Takes
<1>15. ReadsBack(gsv, F, d, NoData)
  BY <1>11, <1>12, <1>13 DEF GsvOf
<1> HIDE DEF gsv
<1>16. DOMAIN NoData = {}
  BY DEF NoData
<1>17. DOMAIN gsv = DOMAIN d
  BY <1>10, <1>15, <1>16 DEF ReadsBack
<1>18. \A f \in DOMAIN gsv : gsv[f] = d[f]
  BY <1>10, <1>15, <1>17 DEF ReadsBack
<1> QED
  BY <1>14, <1>17, <1>18, Zenon DEF k, d, s, gsv

(* Number m of c, when there are no satellites behind the group, is read   *)
(* as those of its places.                                                 *)
LEMMA MessageReadBack ==
  ASSUME NEW from, HoldsPlain(from), Field("SAT_IN_VIEW") \in DOMAIN from,
         NEW c \in 1..MaxGsvMessages, NEW m \in 1..c, NEW G,
         \A i \in (c * SatsPerMessage + 1)..MaxSatInView :
           Sat(i) \notin DOMAIN from
  PROVE  LET places == {Sat(First(m) + n) : n \in 1..SatsPerMessage}
         IN  Merge(ToString(Chain[4], GsvData(from, m, c)), Only(from, G), 0)
               = Only(from, G \union ({Field("SAT_IN_VIEW")} \union places))
<1> DEFINE S == SatsPerMessage
           k == Chain[4]
           d == GsvData(from, m, c)
           s == ToString(k, d)
           gsv == GsvOf(k, s, 0)
           view == Field("SAT_IN_VIEW")
           to == Only(from, G)
           r == Merge(s, to, 0)
           place(n) == Sat(First(m) + n)
           places == {place(n) : n \in 1..S}
           T == Taken(from, m)
           shown == {place(n) : n \in T}
           H == G \union ({view} \union places)
<1>0. S \in Nat \ {0} /\ MaxGsvMessages \in Nat \ {0} /\ m \in Int /\ c \in Int
      /\ First(m) \in Int
  BY NmeaDataAssumption DEF First
<1>1. /\ Takes(k, s) /\ DOMAIN gsv = DOMAIN d
      /\ \A f \in DOMAIN gsv : gsv[f] = d[f]
  BY <1>0, MessageParsed
<1>2. /\ DOMAIN d = HeaderFields \union TakenParts(from, m)
      /\ d[Field("MESSAGE_COUNT")] = Number0(c)
      /\ d[Field("MESSAGE_NUMBER")] = Number0(m)
      /\ d[view] = from[view]
      /\ \A n \in T : \A p \in Range(GsvParts) :
           d[Part(n, p)] = Variant("INT", from[place(n)].v[p])
  <2>1. IsMessage(d, from, m, c)
    BY GsvDataIs
  <2> HIDE DEF d
  <2> QED
    BY <2>1, Zenon DEF IsMessage
<1>3. k = Kind("GSV", "GPGSV", GSV(S)) /\ 4 \in DOMAIN Chain
  BY ChainIs, ListFacts
<1> HIDE DEF d, gsv
<1>4. Count(gsv) = c /\ Number(gsv) = m
  <2>1. \A x : Number0(x).v.n = x
    BY DEF Number0, NoValue, Variant
  <2>2. HeaderFields \subseteq DOMAIN gsv
    BY <1>1, <1>2
  <2>3. /\ Field("MESSAGE_COUNT") \in DOMAIN gsv
        /\ Field("MESSAGE_NUMBER") \in DOMAIN gsv
    BY <2>2 DEF HeaderFields
  <2> QED
    BY <1>1, <1>2, <2>1, <2>3 DEF Count, Number, AsInt, IsPresent
<1>5. k.id = "GSV"
  BY <1>3 DEF Kind
<1>6. Recognises(k, s, 0)
  BY <1>1, <1>4, <1>5 DEF Recognises, TakesGsv, gsv
<1>7. r = MergeGsv(k, s, to, 0)
  BY <1>3, <1>5, <1>6, RecognisedIs, Zenon
<1>8. \A n \in 1..S : IsWhole(gsv, n) <=> n \in T
  <2> SUFFICES ASSUME NEW n \in 1..S
               PROVE  IsWhole(gsv, n) <=> n \in T
    OBVIOUS
  <2>1. "PRN" \in Range(GsvParts)
    BY GsvPartsAre
  <2>2. \A p \in Range(GsvParts) : Part(n, p) \in DOMAIN gsv <=> n \in T
    <3> SUFFICES ASSUME NEW p \in Range(GsvParts)
                 PROVE  Part(n, p) \in DOMAIN gsv <=> n \in T
      OBVIOUS
    <3>1. Part(n, p) \notin HeaderFields
      BY GsvPartsAre DEF Part, Field, HeaderFields
    <3>2. \A x, q : Part(n, p) = Part(x, q) => n = x
      BY DEF Part
    <3> QED
      BY <1>1, <1>2, <3>1, <3>2 DEF TakenParts, T
  <2> QED
    BY <2>1, <2>2 DEF IsWhole, IsPresent
<1>9. T \subseteq 1..S /\ \A n \in T : place(n) \in DOMAIN from
  BY DEF Taken
<1>10. \A n \in T : SatelliteOf(gsv, n) = from[place(n)]
  <2> SUFFICES ASSUME NEW n \in T
               PROVE  SatelliteOf(gsv, n) = from[place(n)]
    OBVIOUS
  <2> DEFINE x == from[place(n)]
             f == place(n)
  <2>1. f \in DOMAIN from /\ f[1] = "SATELLITE"
    BY <1>9 DEF Sat
  <2>2. PlainValue(f, x)
    BY <2>1 DEF HoldsPlain
  <2>3. GetterType(f) = "SATELLITE"
    BY <2>1 DEF GetterType, CharNames
  <2> HIDE DEF f
  <2>4. x = Variant("SATELLITE", x.v)
        /\ x.v = [p \in Range(GsvParts) |-> x.v[p]]
    BY <2>1, <2>2, <2>3 DEF PlainValue
  <2>5. \A p \in Range(GsvParts) : Part(n, p) \in DOMAIN gsv
    BY <1>1, <1>2 DEF TakenParts
  <2>6. \A p \in Range(GsvParts) : gsv[Part(n, p)].v = x.v[p]
    BY <1>1, <1>2, <2>5, VariantsAre
  <2> HIDE DEF x
  <2>7. [p \in Range(GsvParts) |-> gsv[Part(n, p)].v]
          = [p \in Range(GsvParts) |-> x.v[p]]
    BY <2>6
  <2>8. SatelliteOf(gsv, n) = x
    BY <2>4, <2>7 DEF SatelliteOf
  <2> QED
    BY <2>8 DEF x
<1>11. \A f \in Cleared(gsv) : f \notin DOMAIN from
  BY <1>4 DEF Cleared
<1>12. DOMAIN to = DOMAIN from \cap G /\ \A f \in DOMAIN to : to[f] = from[f]
  BY OnlyIs, Zenon DEF Agrees
<1> HIDE DEF to
<1> DEFINE gone == Cleared(gsv) \union places
           kept == Copied(gsv, view, Remove(to, gone))
<1>13. /\ view \in DOMAIN gsv /\ gsv[view] = from[view]
  <2>1. view \in HeaderFields
    BY DEF HeaderFields
  <2> QED
    BY <1>1, <1>2, <2>1
<1>14. /\ DOMAIN kept = (DOMAIN to \ gone) \union {view}
       /\ \A f \in DOMAIN kept : kept[f] = from[f]
  <2>1. kept = Set(Remove(to, gone), view, from[view])
    BY <1>13, Zenon DEF Copied, IsPresent
  <2> DEFINE left == Remove(to, gone)
  <2>2. DOMAIN left = DOMAIN to \ gone
        /\ \A f \in DOMAIN left : left[f] = from[f]
    BY <1>12 DEF Remove, Restrict
  <2> HIDE DEF left, gone, view
  <2>3. DOMAIN Set(left, view, from[view]) = DOMAIN left \union {view}
        /\ \A f \in DOMAIN left \union {view} :
             Set(left, view, from[view])[f] = from[f]
    BY <2>2 DEF Set
  <2> HIDE DEF kept
  <2> QED
    BY <2>1, <2>2, <2>3 DEF left
<1>15. r = [f \in DOMAIN kept \union shown |->
              IF f \in shown
              THEN SatelliteOf(gsv, CHOOSE n \in T : place(n) = f)
              ELSE kept[f]]
  <2> DEFINE at(n) == Sat((Number(gsv) - 1) * S + n)
             whole == {n \in 1..S : IsWhole(gsv, n)}
             left == Remove(to, Cleared(gsv)
                                \union {at(n) : n \in Places(gsv)})
             got == Copied(gsv, view, left)
             was(f) == CHOOSE n \in whole : at(n) = f
             is(f) == CHOOSE n \in T : place(n) = f
  <2>1. r = [f \in DOMAIN got \union {at(n) : n \in whole} |->
               IF f \in {at(n) : n \in whole}
               THEN SatelliteOf(gsv, was(f))
               ELSE got[f]]
    BY <1>7, Zenon DEF MergeGsv, gsv
  <2>2. \A n : at(n) = place(n)
    BY <1>4 DEF First
  <2>3. whole = T
    BY <1>8, <1>9
  <2>4. Places(gsv) = 1..S
    BY DEF Places
  <2> HIDE DEF whole, at, place, T
  <2>5. /\ {at(n) : n \in whole} = shown
        /\ {at(n) : n \in Places(gsv)} = places
    BY <2>2, <2>3, <2>4
  <2>6. got = kept
    BY <2>5
  <2>7. \A f : was(f) = is(f)
    BY <2>2, <2>3
  <2> HIDE DEF got, kept, shown, r, was, is
  <2>8. r = [f \in DOMAIN kept \union shown |->
               IF f \in shown THEN SatelliteOf(gsv, is(f)) ELSE kept[f]]
    BY <2>1, <2>5, <2>6, <2>7
  <2> QED
    BY <2>8, Zenon DEF is
<1> HIDE DEF r, kept
<1>16. \A n \in T : (CHOOSE x \in T : place(x) = place(n)) = n
  <2>1. \A n, x \in T : place(x) = place(n) => x = n
    BY <1>0, <1>9 DEF Sat
  <2> HIDE DEF T, place
  <2> QED
    BY <2>1
<1>17. \A f \in shown : r[f] = from[f]
  BY <1>10, <1>15, <1>16
<1>18. /\ DOMAIN r = DOMAIN kept \union shown
       /\ \A f \in DOMAIN kept \ shown : r[f] = kept[f]
       /\ r = [f \in DOMAIN r |-> r[f]]
  BY <1>15
<1>19. \A f \in DOMAIN r : r[f] = from[f]
  BY <1>14, <1>17, <1>18
<1>20. \A f \in places : f \in DOMAIN from <=> f \in shown
  BY DEF Taken
<1>21. shown \subseteq places
  BY <1>9
<1> HIDE DEF shown, places, view
<1>22. DOMAIN r = DOMAIN from \cap H
  <2>1. view \in DOMAIN from
    BY DEF view
  <2> QED
    BY <1>11, <1>12, <1>14, <1>18, <1>20, <1>21, <2>1
<1> HIDE DEF H
<1>23. Agrees(r, DOMAIN from \cap H, from)
  <2>1. r = [f \in DOMAIN r |-> r[f]]
    BY <1>18, Zenon
  <2> QED
    BY <1>19, <1>22, <2>1, Zenon DEF Agrees
<1>24. r = Only(from, H)
  BY <1>23, OnlyIs, Zenon
<1> QED
  BY <1>24, Zenon DEF r, H, places, view, to, s, d, k

-----------------------------------------------------------------------------
(* The sentences generate() writes, and all of them read.                  *)

Merging(line, to, g) ==
  [i \in 0..Len(line) |-> IF i = 0 THEN to ELSE Merge(line[i], g[i - 1], 0)]

Merged(line, to) == CHOOSE g : g = Merging(line, to, g)

(* parse() is known when what there is after each sentence is.             *)
LEMMA ParseIs ==
  ASSUME NEW line, NEW n, IsList(line, n), NEW W,
         W = [i \in 0..n |-> W[i]],
         \A i \in 1..n : W[i] = Merge(line[i], W[i - 1], 0)
  PROVE  Parse(line, W[0], 0) = W[n]
<1> DEFINE to == W[0]
           M == Merged(line, to)
<1>1. n \in Nat /\ Len(line) = n
  BY ListFacts
<1>2. W = Merging(line, to, W)
  <2>1. \A i \in 0..n :
          W[i] = IF i = 0 THEN to ELSE Merge(line[i], W[i - 1], 0)
    <3> SUFFICES ASSUME NEW i \in 0..n
                 PROVE  W[i] = IF i = 0 THEN to
                               ELSE Merge(line[i], W[i - 1], 0)
      OBVIOUS
    <3>1. CASE i = 0
      BY <3>1, Zenon
    <3>2. CASE i # 0
      <4>1. i \in 1..n
        BY <1>1, <3>2
      <4>2. W[i] = Merge(line[i], W[i - 1], 0)
        BY <4>1, Zenon
      <4> QED
        BY <3>2, <4>2, Zenon
    <3> QED
      BY <3>1, <3>2, Zenon
  <2> HIDE DEF to
  <2>2. [i \in 0..n |-> W[i]] =
          [i \in 0..n |-> IF i = 0 THEN to ELSE Merge(line[i], W[i - 1], 0)]
    BY <2>1, Zenon
  <2> QED
    BY <1>1, <2>2 DEF Merging
<1>3. M = Merging(line, to, M)
  BY <1>2, Zenon DEF Merged
<1>4. Parse(line, to, 0) = M[n]
  <2>1. Parse(line, to, 0) = M[Len(line)]
    BY Zenon DEF Parse, Merged, Merging
  <2> QED
    BY <1>1, <2>1
<1> HIDE DEF M
<1>5. /\ M[0] = to
      /\ \A i \in 1..n : M[i] = Merge(line[i], M[i - 1], 0)
  <2> HIDE DEF to
  <2>1. M = [i \in 0..n |-> IF i = 0 THEN to
                            ELSE Merge(line[i], M[i - 1], 0)]
    <3>1. M = [i \in 0..Len(line) |-> IF i = 0 THEN to
                                      ELSE Merge(line[i], M[i - 1], 0)]
      BY <1>3, Zenon DEF Merging
    <3> QED
      BY <1>1, <3>1, Zenon
  <2>2. \A i \in 0..n : M[i] = IF i = 0 THEN to
                               ELSE Merge(line[i], M[i - 1], 0)
    BY <2>1, Zenon
  <2>3. 0 \in 0..n /\ \A i \in 1..n : i \in 0..n /\ i # 0
    BY <1>1
  <2> QED
    BY <2>2, <2>3, Zenon
<1> HIDE DEF to
<1> DEFINE Wrong == {i \in 0..n : M[i] # W[i]}
<1>6. Wrong = {}
  <2> SUFFICES ASSUME Wrong # {} PROVE FALSE
    OBVIOUS
  <2>1. Wrong \in SUBSET Nat
    BY <1>1
  <2>2. PICK i \in Wrong : \A j \in Wrong : i <= j
    BY <2>1, LeastExists
  <2>3. i \in 1..n
    BY <1>1, <1>5, <2>2 DEF to
  <2>4. i - 1 \in 0..n /\ i - 1 \notin Wrong
    BY <1>1, <2>2, <2>3
  <2>5. M[i - 1] = W[i - 1]
    BY <2>4
  <2>6. M[i] = W[i]
    BY <1>5, <2>3, <2>5
  <2> QED
    BY <2>2, <2>6
<1>7. M[n] = W[n]
  BY <1>1, <1>6
<1> QED
  BY <1>4, <1>7 DEF to

View(from) == AsInt(from, Field("SAT_IN_VIEW"))

(* How many GSV messages are written.                                      *)
MessagesOf(from) ==
  IF View(from) <= 0 THEN 0
  ELSE Messages(IF View(from) > MaxSatInView THEN MaxSatInView
                ELSE View(from))

(* The satellites that are there are numbered by their count.              *)
SatsAreCounted(from) ==
  /\ View(from) \in Int
  /\ \A i \in 1..MaxSatInView : Sat(i) \in DOMAIN from => i <= View(from)

LEMMA CountsAre ==
  ASSUME NEW from, SatsAreCounted(from)
  PROVE  LET c == MessagesOf(from)
         IN  /\ c \in 0..MaxGsvMessages /\ c \in Nat
             /\ c # 0 => Field("SAT_IN_VIEW") \in DOMAIN from
             /\ \A i \in 1..MaxSatInView :
                  Sat(i) \in DOMAIN from => c # 0 /\ i <= c * SatsPerMessage
<1> DEFINE v == View(from)
           S == SatsPerMessage
           c == MessagesOf(from)
           w == IF v > MaxSatInView THEN MaxSatInView ELSE v
<1>1. S \in Nat \ {0} /\ MaxGsvMessages \in Nat \ {0}
  BY NmeaDataAssumption
<1>2. MaxSatInView \in Nat /\ MaxSatInView > 0
  <2>1. \A a, b \in Nat \ {0} : a * b \in Nat \ {0}
    <3> SUFFICES ASSUME NEW a \in Nat \ {0}, NEW b \in Nat \ {0}
                 PROVE  a * b \in Nat \ {0}
      OBVIOUS
    <3>1. a * b \in Nat /\ a * b > 0
      BY Z3
    <3> QED
      BY <3>1
  <2>2. MaxSatInView \in Nat \ {0}
    BY <1>1, <2>1 DEF MaxSatInView
  <2> QED
    BY <2>2
<1>3. v \in Int
  BY DEF SatsAreCounted
<1>4. v # 0 => Field("SAT_IN_VIEW") \in DOMAIN from
  BY DEF View, AsInt, IsPresent
<1>5. c = IF v <= 0 THEN 0 ELSE Messages(w)
  BY DEF MessagesOf
<1>6. \A i \in 1..MaxSatInView : Sat(i) \in DOMAIN from => i <= v
  BY DEF SatsAreCounted
<1> HIDE DEF v, c
<1>7. CASE v <= 0
  BY <1>1, <1>2, <1>3, <1>5, <1>6, <1>7 DEF c
<1>8. CASE ~(v <= 0)
  <2>1. w \in 1..MaxSatInView
    BY <1>2, <1>3, <1>8
  <2> HIDE DEF w
  <2>2. Messages(w) \in 1..MaxGsvMessages /\ w <= Messages(w) * S
    BY <2>1, MessagesFacts
  <2>3. c = Messages(w)
    BY <1>5, <1>8
  <2>4. c \in Nat /\ c # 0 /\ c \in 0..MaxGsvMessages
    BY <1>1, <2>2, <2>3
  <2>5. c * S \in Int /\ w <= c * S
    BY <1>1, <2>2, <2>3, <2>4
  <2>6. \A i \in 1..MaxSatInView : Sat(i) \in DOMAIN from => i <= w
    BY <1>2, <1>3, <1>6 DEF w
  <2>7. \A i \in 1..MaxSatInView : i <= w => i <= c * S
    BY <1>2, <2>1, <2>5
  <2>8. Field("SAT_IN_VIEW") \in DOMAIN from
    BY <1>3, <1>4, <1>8
  <2> QED
    BY <2>4, <2>6, <2>7, <2>8 DEF c
<1> QED
  BY <1>7, <1>8

(* All that is written, in its order.                                      *)
IsLine(line, from) ==
  LET c == MessagesOf(from)
  IN  /\ IsList(line, c + 4)
      /\ line[1] = ToString(Chain[1], from)
      /\ line[2] = ToString(Chain[2], from)
      /\ \A m \in 1..c :
           line[2 + m] = ToString(Chain[4], GsvData(from, m, c))
      /\ line[c + 3] = ToString(Chain[SatsPerMessage + 4], from)
      /\ line[c + 4] = ToString(Chain[SatsPerMessage + 6], from)

LEMMA GeneratedAre ==
  /\ Generated[1] = Chain[1] /\ Generated[2] = Chain[2]
  /\ Generated[3] = Chain[4] /\ Generated[4] = Chain[SatsPerMessage + 4]
  /\ Generated[5] = Chain[SatsPerMessage + 6]
<1> DEFINE rmc == Kind("RMC", "GPRMC", RMC)
           gll == Kind("GLL", "GPGLL", GLL)
<1>1. rmc = Chain[SatsPerMessage + 4] /\ gll = Chain[SatsPerMessage + 6]
  BY ChainIs
<1>2. Generated = << Chain[1], Chain[2], Chain[4], rmc, gll >>
  BY Zenon DEF Generated
<1> HIDE DEF rmc, gll
<1> QED
  BY <1>1, <1>2

LEMMA LineIs ==
  ASSUME NEW from, SatsAreCounted(from)
  PROVE  IsLine(Generate(from), from)
<1> DEFINE c == MessagesOf(from)
           S == SatsPerMessage
           a == ToString(Chain[1], from)
           b == ToString(Chain[2], from)
           message(m) == ToString(Chain[4], GsvData(from, m, c))
           x == ToString(Chain[S + 4], from)
           y == ToString(Chain[S + 6], from)
           g == GsvToString(Chain[4], from)
<1>1. c \in Nat
  BY CountsAre
<1>2. /\ Chain[1].id # "GSV" /\ Chain[2].id # "GSV" /\ Chain[4].id = "GSV"
      /\ Chain[S + 4].id # "GSV" /\ Chain[S + 6].id # "GSV"
  BY ChainIs, PlainlyWritten DEF Kind, Plainly
<1>3. Generate(from) = <<a>> \o <<b>> \o g \o <<x>> \o <<y>>
  <2>1. Generate(from) =
          Written(Chain[1], from) \o Written(Chain[2], from)
            \o Written(Chain[4], from) \o Written(Chain[S + 4], from)
            \o Written(Chain[S + 6], from)
    BY GeneratedAre, Zenon DEF Generate
  <2>2. /\ Written(Chain[1], from) = <<a>>
        /\ Written(Chain[2], from) = <<b>>
        /\ Written(Chain[4], from) = g
        /\ Written(Chain[S + 4], from) = <<x>>
        /\ Written(Chain[S + 6], from) = <<y>>
    BY <1>2, Zenon DEF Written
  <2> QED
    BY <2>1, <2>2, Zenon
<1>4. IsList(g, c) /\ \A m \in 1..c : g[m] = message(m)
  <2> DEFINE v == View(from)
             w == IF v > MaxSatInView THEN MaxSatInView ELSE v
  <2>1. CASE v <= 0
    <3>1. g = <<>> /\ c = 0
      BY <2>1 DEF GsvToString, MessagesOf, View
    <3>2. IsList(<<>>, 0)
      BY DEF IsList
    <3> HIDE DEF g, c
    <3> QED
      BY <3>1, <3>2
  <2>2. CASE ~(v <= 0)
    <3>1. c = Messages(w)
      BY <2>2 DEF MessagesOf
    <3>2. g = [m \in 1..Messages(w) |->
                 ToString(Chain[4], GsvData(from, m, Messages(w)))]
      BY <2>2, Zenon DEF GsvToString, View
    <3>3. g = [m \in 1..c |-> message(m)]
      BY <3>1, <3>2
    <3> HIDE DEF g, c, message
    <3> QED
      BY <1>1, <3>3 DEF IsList
  <2> QED
    BY <2>1, <2>2
<1> HIDE DEF c, a, b, message, x, y, g
<1>5. \A z : IsList(<<z>>, 1) /\ <<z>>[1] = z
  BY DEF IsList
<1> DEFINE p == <<a>> \o <<b>>
           q == p \o g
           r == q \o <<x>>
           line == r \o <<y>>
<1>6. IsList(p, 2) /\ p[1] = a /\ p[2] = b
  <2>1. Joins(p, <<a>>, 1, <<b>>, 1)
    BY <1>5, ConcatIs, Zenon
  <2> HIDE DEF p
  <2> QED
    BY <1>5, <2>1 DEF Joins
<1> HIDE DEF p
<1>7. /\ IsList(q, 2 + c) /\ q[1] = a /\ q[2] = b
      /\ \A m \in 1..c : q[2 + m] = message(m)
  <2>1. Joins(q, p, 2, g, c)
    BY <1>4, <1>6, ConcatIs, Zenon
  <2> HIDE DEF q
  <2> QED
    BY <1>4, <1>6, <2>1 DEF Joins
<1> HIDE DEF q
<1>8. /\ IsList(r, c + 3) /\ r[1] = a /\ r[2] = b /\ r[c + 3] = x
      /\ \A m \in 1..c : r[2 + m] = message(m)
  <2>1. Joins(r, q, 2 + c, <<x>>, 1)
    BY <1>5, <1>7, ConcatIs, Zenon
  <2>2. (2 + c) + 1 = c + 3 /\ 1 \in 1..(2 + c) /\ 2 \in 1..(2 + c)
        /\ \A m \in 1..c : 2 + m \in 1..(2 + c)
    BY <1>1
  <2> HIDE DEF r
  <2> QED
    BY <1>5, <1>7, <2>1, <2>2 DEF Joins
<1> HIDE DEF r
<1>9. /\ IsList(line, c + 4) /\ line[1] = a /\ line[2] = b
      /\ line[c + 3] = x /\ line[c + 4] = y
      /\ \A m \in 1..c : line[2 + m] = message(m)
  <2>1. Joins(line, r, c + 3, <<y>>, 1)
    BY <1>5, <1>8, ConcatIs, Zenon
  <2>2. /\ (c + 3) + 1 = c + 4 /\ 1 \in 1..(c + 3) /\ 2 \in 1..(c + 3)
        /\ c + 3 \in 1..(c + 3)
        /\ \A m \in 1..c : 2 + m \in 1..(c + 3)
    BY <1>1
  <2> HIDE DEF line
  <2> QED
    BY <1>5, <1>8, <2>1, <2>2 DEF Joins
<1> HIDE DEF line
<1>10. IsLine(line, from)
  BY <1>9, Zenon DEF IsLine, a, b, c, x, y, message, S
<1> QED
  BY <1>3, <1>10 DEF line, r, q, p

When(b, F) == IF b THEN F ELSE {}

(* The fields of the first m messages, and of the first i sentences.       *)
InMessages(m) ==
  When(m # 0, {Field("SAT_IN_VIEW")}
              \union {Sat(j) : j \in 1..(m * SatsPerMessage)})

InLine(i, c) ==
  When(i >= 1, FieldsOf(GGA)) \union When(i >= 2, FieldsOf(GSA))
  \union InMessages(IF i <= 2 THEN 0 ELSE IF i <= c + 2 THEN i - 2 ELSE c)
  \union When(i >= c + 3, FieldsOf(RMC))
  \union When(i >= c + 4, FieldsOf(GLL))

LEMMA InLineIs ==
  ASSUME NEW c \in Nat
  PROVE  /\ InLine(0, c) = {}
         /\ InLine(1, c) = InLine(0, c) \union FieldsOf(GGA)
         /\ InLine(2, c) = InLine(1, c) \union FieldsOf(GSA)
         /\ \A m \in 1..c :
              InLine(2 + m, c) = InLine(1 + m, c) \union
                ({Field("SAT_IN_VIEW")}
                 \union {Sat(First(m) + n) : n \in 1..SatsPerMessage})
         /\ InLine(c + 3, c) = InLine(c + 2, c) \union FieldsOf(RMC)
         /\ InLine(c + 4, c) = InLine(c + 3, c) \union FieldsOf(GLL)
<1>1. InMessages(0) = {}
  BY DEF InMessages, When
<1>2. InLine(0, c) = {}
  BY <1>1 DEF InLine, When
<1>3. InLine(1, c) = InLine(0, c) \union FieldsOf(GGA)
  BY <1>1 DEF InLine, When
<1>4. InLine(2, c) = InLine(1, c) \union FieldsOf(GSA)
  BY <1>1 DEF InLine, When
<1>5. InLine(c + 3, c) = InLine(c + 2, c) \union FieldsOf(RMC)
  <2>1. CASE c = 0
    BY <1>1, <2>1 DEF InLine, When
  <2>2. CASE c # 0
    BY <2>2 DEF InLine, When
  <2> QED
    BY <2>1, <2>2
<1>6. InLine(c + 4, c) = InLine(c + 3, c) \union FieldsOf(GLL)
  BY DEF InLine, When
<1>7. ASSUME NEW m \in 1..c
      PROVE  InLine(2 + m, c) = InLine(1 + m, c) \union
               ({Field("SAT_IN_VIEW")}
                \union {Sat(First(m) + n) : n \in 1..SatsPerMessage})
  <2> DEFINE S == SatsPerMessage
             here == {Field("SAT_IN_VIEW")}
                     \union {Sat(First(m) + n) : n \in 1..S}
             p == First(m)
  <2>1. S \in Nat \ {0}
    BY NmeaDataAssumption
  <2>2. p \in Nat /\ m * S = p + S /\ (m - 1) * S = p
    <3>1. m - 1 \in Nat
      OBVIOUS
    <3> QED
      BY <2>1, <3>1 DEF First
  <2> HIDE DEF p, S
  <2>3. InMessages(m) = InMessages(m - 1) \union here
    <3>1. \A j \in 1..(p + S) : \/ j \in 1..p
                                \/ j - p \in 1..S /\ p + (j - p) = j
      BY <2>1, <2>2
    <3>2. \A j \in 1..p : j \in 1..(p + S)
      BY <2>1, <2>2
    <3>3. \A n \in 1..S : p + n \in 1..(p + S)
      BY <2>1, <2>2
    <3>4. {Sat(j) : j \in 1..(p + S)} =
            {Sat(j) : j \in 1..p} \union {Sat(p + n) : n \in 1..S}
      BY <3>1, <3>2, <3>3
    <3>5. InMessages(m) = {Field("SAT_IN_VIEW")}
                          \union {Sat(j) : j \in 1..(p + S)}
      BY <2>2 DEF InMessages, When, S
    <3>6. InMessages(m - 1) =
            When(m - 1 # 0, {Field("SAT_IN_VIEW")}
                            \union {Sat(j) : j \in 1..p})
      BY <2>2 DEF InMessages, S
    <3>7. m - 1 = 0 => {Sat(j) : j \in 1..p} = {}
      <4>1. m - 1 = 0 => p = 0
        <5>1. p + S = m * S /\ (m = 1 => m * S = S)
          BY <2>1, <2>2
        <5> QED
          BY <2>1, <2>2, <5>1
      <4> QED
        BY <4>1
    <3> QED
      BY <3>4, <3>5, <3>6, <3>7 DEF When, p
  <2> HIDE DEF here
  <2>4. InLine(2 + m, c) = InLine(1 + m, c) \union here
    <3>1. InMessages(IF 2 + m <= 2 THEN 0
                     ELSE IF 2 + m <= c + 2 THEN (2 + m) - 2 ELSE c)
            = InMessages(m)
      <4>1. (IF 2 + m <= 2 THEN 0
             ELSE IF 2 + m <= c + 2 THEN (2 + m) - 2 ELSE c) = m
        OBVIOUS
      <4> QED
        BY <4>1
    <3>2. InMessages(IF 1 + m <= 2 THEN 0
                     ELSE IF 1 + m <= c + 2 THEN (1 + m) - 2 ELSE c)
            = InMessages(m - 1)
      <4>1. (IF 1 + m <= 2 THEN 0
             ELSE IF 1 + m <= c + 2 THEN (1 + m) - 2 ELSE c) = m - 1
        OBVIOUS
      <4> QED
        BY <4>1
    <3>3. /\ 2 + m >= 1 /\ 1 + m >= 1 /\ 2 + m >= 2 /\ 1 + m >= 2
          /\ ~(2 + m >= c + 3) /\ ~(1 + m >= c + 3)
          /\ ~(2 + m >= c + 4) /\ ~(1 + m >= c + 4)
      OBVIOUS
    <3> QED
      BY <2>3, <3>1, <3>2, <3>3 DEF InLine, When
  <2> QED
    BY <2>4 DEF here, S
<1> QED
  BY <1>2, <1>3, <1>4, <1>5, <1>6, <1>7

(* What is read of all that is written.                                    *)
LEMMA AllReadBack ==
  ASSUME NEW from, HoldsPlain(from), TimeIsPrinted(from), SatsAreCounted(from)
  PROVE  Parse(Generate(from), NoData, 0)
           = Only(from, InLine(MessagesOf(from) + 4, MessagesOf(from)))
<1> DEFINE c == MessagesOf(from)
           S == SatsPerMessage
           N == c + 4
           line == Generate(from)
           W == [i \in 0..N |-> Only(from, InLine(i, c))]
           back(i) == Merge(line[i], W[i - 1], 0)
<1>1. /\ c \in 0..MaxGsvMessages /\ c \in Nat
      /\ c # 0 => Field("SAT_IN_VIEW") \in DOMAIN from
      /\ \A i \in 1..MaxSatInView : Sat(i) \in DOMAIN from => i <= c * S
  BY CountsAre
<1>2. IsLine(line, from)
  BY LineIs
<1> HIDE DEF line
<1>3. /\ IsList(line, N)
      /\ line[1] = ToString(Chain[1], from)
      /\ line[2] = ToString(Chain[2], from)
      /\ \A m \in 1..c :
           line[2 + m] = ToString(Chain[4], GsvData(from, m, c))
      /\ line[c + 3] = ToString(Chain[S + 4], from)
      /\ line[c + 4] = ToString(Chain[S + 6], from)
  BY <1>2, Zenon DEF IsLine
<1>4. S \in Nat \ {0} /\ MaxGsvMessages \in Nat /\ MaxSatInView \in Nat
  <2>1. S \in Nat \ {0} /\ MaxGsvMessages \in Nat
    BY NmeaDataAssumption
  <2>2. MaxGsvMessages * S \in Nat
    BY <2>1
  <2> QED
    BY <2>1, <2>2 DEF MaxSatInView
<1> HIDE DEF c, S
<1>5. \A i \in 0..N : W[i] = Only(from, InLine(i, c))
  OBVIOUS
<1>6. W = [i \in 0..N |-> W[i]]
  OBVIOUS
<1> HIDE DEF W
<1>7. /\ Chain[1].format = GGA /\ Chain[2].format = GSA
      /\ Chain[S + 4].format = RMC /\ Chain[S + 6].format = GLL
  BY ChainIs DEF Kind, S
<1>8. \A k : Plainly(k) => \A G :
        Merge(ToString(Chain[k], from), Only(from, G), 0)
          = Only(from, G \union FieldsOf(Chain[k].format))
  BY KindReadBack
<1>9. Plainly(1) /\ Plainly(2) /\ Plainly(S + 4) /\ Plainly(S + 6)
  BY PlainlyWritten DEF S
<1>10. W[1] = back(1)
  <2>1. W[0] = Only(from, InLine(0, c)) /\ W[1] = Only(from, InLine(1, c))
    BY <1>1, <1>5
  <2>2. InLine(1, c) = InLine(0, c) \union FieldsOf(GGA)
    BY <1>1, InLineIs
  <2>3. 1 - 1 = 0
    OBVIOUS
  <2> QED
    BY <1>3, <1>7, <1>8, <1>9, <2>1, <2>2, <2>3
<1>11. W[2] = back(2)
  <2>1. W[1] = Only(from, InLine(1, c)) /\ W[2] = Only(from, InLine(2, c))
    BY <1>1, <1>5
  <2>2. InLine(2, c) = InLine(1, c) \union FieldsOf(GSA)
    BY <1>1, InLineIs
  <2>3. 2 - 1 = 1
    OBVIOUS
  <2> QED
    BY <1>3, <1>7, <1>8, <1>9, <2>1, <2>2, <2>3
<1>12. W[c + 3] = back(c + 3)
  <2>1. /\ W[c + 2] = Only(from, InLine(c + 2, c))
        /\ W[c + 3] = Only(from, InLine(c + 3, c))
    BY <1>1, <1>5
  <2>2. InLine(c + 3, c) = InLine(c + 2, c) \union FieldsOf(RMC)
    BY <1>1, InLineIs
  <2>3. (c + 3) - 1 = c + 2
    BY <1>1
  <2> QED
    BY <1>3, <1>7, <1>8, <1>9, <2>1, <2>2, <2>3
<1>13. W[c + 4] = back(c + 4)
  <2>1. /\ W[c + 3] = Only(from, InLine(c + 3, c))
        /\ W[c + 4] = Only(from, InLine(c + 4, c))
    BY <1>1, <1>5
  <2>2. InLine(c + 4, c) = InLine(c + 3, c) \union FieldsOf(GLL)
    BY <1>1, InLineIs
  <2>3. (c + 4) - 1 = c + 3
    BY <1>1
  <2> QED
    BY <1>3, <1>7, <1>8, <1>9, <2>1, <2>2, <2>3
<1>14. ASSUME NEW m \in 1..c
       PROVE  W[2 + m] = back(2 + m)
  <2> DEFINE here == {Field("SAT_IN_VIEW")}
                     \union {Sat(First(m) + n) : n \in 1..SatsPerMessage}
  <2>1. /\ W[1 + m] = Only(from, InLine(1 + m, c))
        /\ W[2 + m] = Only(from, InLine(2 + m, c))
    BY <1>1, <1>5
  <2>2. InLine(2 + m, c) = InLine(1 + m, c) \union here
    BY <1>1, InLineIs
  <2>3. (2 + m) - 1 = 1 + m
    BY <1>1
  <2>4. c \in 1..MaxGsvMessages /\ Field("SAT_IN_VIEW") \in DOMAIN from
    BY <1>1, <1>4
  <2>5. \A i \in (c * SatsPerMessage + 1)..MaxSatInView :
          Sat(i) \notin DOMAIN from
    <3> SUFFICES ASSUME NEW i \in (c * S + 1)..MaxSatInView,
                        Sat(i) \in DOMAIN from
                 PROVE  FALSE
      BY DEF S
    <3>1. c * S \in Nat
      BY <1>1, <1>4
    <3>2. i \in 1..MaxSatInView /\ ~(i <= c * S)
      BY <1>4, <3>1
    <3> QED
      BY <1>1, <3>2
  <2>6. Merge(ToString(Chain[4], GsvData(from, m, c)),
              Only(from, InLine(1 + m, c)), 0)
          = Only(from, InLine(1 + m, c) \union here)
    BY <2>4, <2>5, MessageReadBack
  <2> HIDE DEF here
  <2>7. line[2 + m] = ToString(Chain[4], GsvData(from, m, c))
    BY <1>3
  <2> QED
    BY <2>1, <2>2, <2>3, <2>6, <2>7
<1> HIDE DEF back
<1>15. \A i \in 1..N : W[i] = back(i)
  <2> SUFFICES ASSUME NEW i \in 1..N PROVE W[i] = back(i)
    OBVIOUS
  <2>1. \/ i = 1 \/ i = 2 \/ i = c + 3 \/ i = c + 4
        \/ i - 2 \in 1..c /\ 2 + (i - 2) = i
    BY <1>1
  <2> QED
    BY <1>10, <1>11, <1>12, <1>13, <1>14, <2>1
<1>16. Parse(line, W[0], 0) = W[N]
  <2>1. \A i \in 1..N : W[i] = Merge(line[i], W[i - 1], 0)
    BY <1>15, Zenon DEF back
  <2> HIDE DEF N
  <2>2. IsList(line, N) /\ W = [i \in 0..N |-> W[i]]
    BY <1>3, <1>6, Zenon DEF N
  <2> QED
    BY <2>1, <2>2, ParseIs, Zenon
<1>17. W[0] = NoData
  <2>1. W[0] = Only(from, {})
    <3>1. 0 \in 0..N
      BY <1>1
    <3>2. W[0] = Only(from, InLine(0, c))
      BY <1>5, <3>1, Zenon
    <3>3. InLine(0, c) = {}
      BY <1>1, InLineIs, Zenon
    <3> QED
      BY <3>2, <3>3, Zenon
  <2>2. NoData = [f \in DOMAIN NoData |-> NoData[f]] /\ DOMAIN NoData = {}
    BY DEF NoData
  <2>3. DOMAIN from \cap {} = {}
    OBVIOUS
  <2>4. Agrees(NoData, DOMAIN from \cap {}, from)
    BY <2>2, <2>3 DEF Agrees
  <2> QED
    BY <2>1, <2>4, OnlyIs, Zenon
<1>18. W[N] = Only(from, InLine(N, c))
  BY <1>1, <1>5
<1> QED
  BY <1>16, <1>17, <1>18 DEF line, c

LEMMA LoopBackIs == PlainInv => LoopBack
<1> SUFFICES ASSUME PlainInv, InfoCanBeWritten PROVE LoopBack
  BY DEF LoopBack
<1> DEFINE c == MessagesOf(info)
           S == SatsPerMessage
           G == InLine(c + 4, c)
           again == Parse(Generate(info), NoData, 0)
<1>1. HoldsPlain(info)
  BY DEF PlainInv
<1>2. TimeIsPrinted(info)
  BY DEF TimeIsPrinted, InfoCanBeWritten, Reading, IsPresent
<1>3. SatsAreCounted(info)
  <2>1. View(info) \in Int
    <3>1. CASE Field("SAT_IN_VIEW") \in DOMAIN info
      <4>1. PlainValue(Field("SAT_IN_VIEW"), info[Field("SAT_IN_VIEW")])
        BY <1>1, <3>1, Zenon DEF HoldsPlain
      <4> QED
        BY <3>1, <4>1 DEF View, AsInt, IsPresent, PlainValue
    <3>2. CASE Field("SAT_IN_VIEW") \notin DOMAIN info
      BY <3>2 DEF View, AsInt, IsPresent
    <3> QED
      BY <3>1, <3>2
  <2> QED
    BY <2>1, Zenon DEF SatsAreCounted, InfoCanBeWritten, IsPresent, View
<1>4. again = Only(info, G)
  BY <1>1, <1>2, <1>3, AllReadBack
<1> HIDE DEF again
<1>5. c \in Nat /\ \A i \in 1..MaxSatInView :
        Sat(i) \in DOMAIN info => c # 0 /\ i <= c * S
  BY <1>3, CountsAre
<1>6. S \in Nat \ {0}
  BY NmeaDataAssumption
<1> HIDE DEF c, S
<1>7. G = FieldsOf(GGA) \union FieldsOf(GSA) \union InMessages(c)
          \union FieldsOf(RMC) \union FieldsOf(GLL)
  <2>1. (IF c + 4 <= 2 THEN 0
         ELSE IF c + 4 <= c + 2 THEN (c + 4) - 2 ELSE c) = c
    BY <1>5
  <2>2. c + 4 >= 1 /\ c + 4 >= 2 /\ c + 4 >= c + 3 /\ c + 4 >= c + 4
    BY <1>5
  <2> QED
    BY <2>1, <2>2 DEF InLine, When
<1> HIDE DEF G
<1>8. \A i \in 1..MaxSatInView : Sat(i) \in DOMAIN info => Sat(i) \in G
  <2> SUFFICES ASSUME NEW i \in 1..MaxSatInView, Sat(i) \in DOMAIN info
               PROVE  Sat(i) \in G
    OBVIOUS
  <2>1. c # 0 /\ i <= c * S
    BY <1>5
  <2>2. i \in 1..(c * S)
    BY <1>5, <1>6, <2>1
  <2> QED
    BY <1>7, <2>1, <2>2 DEF InMessages, When, S
<1>9. \A f \in GeneratedFields : f \in DOMAIN info => f \in G
  <2> SUFFICES ASSUME NEW f \in GeneratedFields, f \in DOMAIN info
               PROVE  f \in G
    OBVIOUS
  <2>1. \/ \E i \in {1, 2, 4, 5} : f \in FieldsOf(Generated[i].format)
        \/ \E i \in 1..MaxSatInView : f = Sat(i)
    <3> DEFINE fields(i) == {Generated[i].format[j].field :
                               j \in DOMAIN Generated[i].format}
    <3>1. GeneratedFields = (UNION {fields(i) : i \in {1, 2, 4, 5}})
                            \union {Sat(i) : i \in 1..MaxSatInView}
      BY Zenon DEF GeneratedFields
    <3>2. \A i : fields(i) = FieldsOf(Generated[i].format)
      BY Zenon DEF FieldsOf
    <3> HIDE DEF fields
    <3>3. \/ \E i \in {1, 2, 4, 5} : f \in fields(i)
          \/ \E i \in 1..MaxSatInView : f = Sat(i)
      BY <3>1, Zenon
    <3> QED
      BY <3>2, <3>3
  <2>2. /\ Generated[1].format = GGA /\ Generated[2].format = GSA
        /\ Generated[4].format = RMC /\ Generated[5].format = GLL
    BY GeneratedAre, ChainIs DEF Kind
  <2>3. ASSUME NEW i \in {1, 2, 4, 5}, f \in FieldsOf(Generated[i].format)
        PROVE  f \in G
    <3>1. \/ f \in FieldsOf(GGA) \/ f \in FieldsOf(GSA)
          \/ f \in FieldsOf(RMC) \/ f \in FieldsOf(GLL)
      BY <2>2, <2>3
    <3> QED
      BY <1>7, <3>1, Zenon
  <2>4. ASSUME NEW i \in 1..MaxSatInView, f = Sat(i)
        PROVE  f \in G
    BY <1>8, <2>4, Zenon
  <2> QED
    BY <2>1, <2>3, <2>4, Zenon
<1>10. /\ DOMAIN again = DOMAIN info \cap G
       /\ \A f \in DOMAIN again : again[f] = info[f]
  <2>1. Agrees(Only(info, G), DOMAIN info \cap G, info)
    BY OnlyIs, Zenon
  <2> QED
    BY <1>4, <2>1, Zenon DEF Agrees
<1>11. \A f \in GeneratedFields :
         /\ IsPresent(info, f) <=> IsPresent(again, f)
         /\ IsPresent(info, f) => again[f] = info[f]
  BY <1>9, <1>10 DEF IsPresent
<1> QED
  BY <1>11, Zenon DEF LoopBack, again

(* What NMEA::generate writes of whatever has been merged, from whichever  *)
(* receiver, NMEA::parse reads back as it was, but for the counts of       *)
(* satellites that do not fit and the hundredths of a second it mistakes.  *)
THEOREM AlwaysLoopsBack == Spec => []LoopBack
<1>1. Spec => []PlainInv
  BY PlainInit, PlainNext, PTL DEF Spec
<1> QED
  BY <1>1, LoopBackIs, PTL

=============================================================================
