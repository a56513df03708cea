----------------------------- MODULE NmeaMerge ------------------------------
(***************************************************************************)
(* NMEAProtocol and its NMEA::Info: a receiver that sends, in every epoch, *)
(* a round of sentences in a dialect of its own, of which some are damaged *)
(* on the line, and the data the protocol makes of them after each one.    *)
(* How the sentences are found in the bytes is the matter of GpsFeed.      *)
(***************************************************************************)
EXTENDS NmeaSentence, FiniteSets

CONSTANTS
  Dialects,     \* the dialects of NMEA receivers speak
  Views,        \* how many satellites can be in view
  Junk,         \* what an uninitialised int can hold
  GsvTimeout,   \* GSV_TIMEOUT, in epochs
  MaxEpochs,    \* bound: epochs of the receiver
  MaxDamage     \* bound: sentences damaged on the line

ASSUME NmeaMergeAssumption ==
  /\ Dialects \subseteq [gsa1 : BOOLEAN, rmc1 : BOOLEAN, padded : BOOLEAN,
                         gll : BOOLEAN, time : {6, 8, 9, 10}]
  /\ Views \subseteq 0..MaxSatInView
  /\ Junk \subseteq Int /\ GsvTimeout \in Nat
  /\ MaxEpochs \in Nat \ {0} /\ MaxDamage \in Nat

VARIABLES
  dialect,   \* how the receiver words its sentences
  epoch,     \* its present epoch, which also stands for the host's clock
  truth,     \* what it knows of its position, its satellites in view
  queue,     \* sentences of this epoch it has still to send
  info,      \* NMEAProtocol::_info
  gsvTimer,  \* when _gsvTimer was reset
  data       \* GPSProtocol::_data

(* History: none of the steps reads these but for the bounds.              *)
VARIABLES
  damaged,   \* sentences damaged so far
  heard,     \* messages of this epoch's GSV group that came through
  heardAt,   \* when a GSV came through last
  told,      \* the satellites of the last GSV group that came through whole
             \* and has not begun to be replaced, if there is one
  expired    \* data handed out since then with satellites timed out

recvVars == <<dialect, epoch, truth>>
gsvVars == <<heard, heardAt, told, expired>>
vars == <<recvVars, queue, info, gsvTimer, data, damaged, gsvVars>>

-----------------------------------------------------------------------------
(* The receiver (external): what the standard says of each sentence.       *)

InUseNames == [i \in 1..MaxSatInUse |-> InUse(i)]
Plain(names) == [i \in 1..Len(names) |-> Field(names[i])]

SatNames(from, n) ==
  [i \in 1..(4 * n) |->
     Part(from + ((i - 1) \div 4),
          <<"PRN", "ELV", "AZM", "SNR">>[1 + ((i - 1) % 4)])]

Layout(id) ==
  CASE id = "GGA" ->
         Plain(<<"TIME", "LATITUDE", "LATITUDE_NS", "LONGITUDE",
                 "LONGITUDE_EW", "FIX_QUALITY", "SAT_IN_USE_COUNT", "HDOP",
                 "ALTITUDE", "ALTITUDE_UNITS", "DIFF", "DIFF_UNITS",
                 "DGPS_TIME", "DGPS_ID">>)
    [] id = "GSA" ->
         Plain(<<"FIX_MODE", "FIX_TYPE">>) \o InUseNames
         \o Plain(IF dialect.gsa1 THEN <<"GSA_UNKNOWN_1", "PDOP", "HDOP",
                                          "VDOP">>
                  ELSE <<"PDOP", "HDOP", "VDOP">>)
    [] id = "RMC" ->
         Plain(<<"TIME", "STATUS", "LATITUDE", "LATITUDE_NS", "LONGITUDE",
                 "LONGITUDE_EW", "SPEED", "DIRECTION", "DATE", "DECLINATION",
                 "DECLINATION_EW">>)
         \o Plain(IF dialect.rmc1 THEN <<"FIX_MODE_INDICATOR">> ELSE <<>>)
    [] id = "GLL" ->
         Plain(<<"LATITUDE", "LATITUDE_NS", "LONGITUDE", "LONGITUDE_EW",
                 "TIME", "STATUS">>)

CharNames ==
  {"FIX_MODE", "STATUS", "LATITUDE_NS", "LONGITUDE_EW", "ALTITUDE_UNITS",
   "DIFF_UNITS", "DECLINATION_EW", "FIX_MODE_INDICATOR"}

(* What is left empty without a position, and without a height.            *)
PositionOnly ==
  {"LATITUDE", "LATITUDE_NS", "LONGITUDE", "LONGITUDE_EW", "HDOP", "SPEED",
   "DIRECTION", "SAT_IN_USE"}
HeightOnly == {"ALTITUDE", "ALTITUDE_UNITS", "DIFF", "DIFF_UNITS"}

Blank(f) ==
  \/ f[1] \in PositionOnly /\ truth.pos = "none"
  \/ f[1] \in HeightOnly /\ truth.pos # "3D"
  \/ f[1] \in {"DECLINATION", "DECLINATION_EW", "DGPS_TIME", "DGPS_ID"}
  \/ f = InUse(MaxSatInUse) /\ epoch % 2 = 0

(* Hundredths of a second, and north and east, as they are in this epoch.  *)
TrueHundredths == 25
North == epoch % 2

Fraction ==
  CASE dialect.time = 6  -> 0
    [] dialect.time = 8  -> TrueHundredths \div 10
    [] dialect.time = 9  -> TrueHundredths
    [] dialect.time = 10 -> TrueHundredths * 10

NumberIn(name) ==
  CASE name = "FIX_QUALITY" -> IF truth.pos = "none" THEN 0 ELSE 1
    [] name = "TIME" -> Fraction
    [] name \in {"LATITUDE_NS", "LONGITUDE_EW"} -> North
    [] OTHER -> 7

Token(f, n) ==
  [length |-> CASE f[1] \in CharNames -> 1 [] f[1] = "TIME" -> dialect.time
                [] f[1] = "DATE" -> 6 [] OTHER -> 2,
   number |-> f[1] \notin CharNames \union {"TIME", "DATE"}, nan |-> FALSE,
   v |-> [means |-> f, epoch |-> epoch, n |-> n]]

Said(f) == IF Blank(f) THEN EmptyToken ELSE Token(f, NumberIn(f[1]))

Groups == IF truth.view = 0 THEN 1
          ELSE (truth.view + SatsPerMessage - 1) \div SatsPerMessage

(* Of the second satellite the receiver has no signal to noise ratio.      *)
Incomplete(i) == i = 2

SaidOfSat(f) ==
  LET i == f[2]
  IN IF i > truth.view \/ (Incomplete(i) /\ f[1] = "SNR") THEN EmptyToken
     ELSE Token(f, i)

(* Message m of the group names its satellites by their place in the sky;  *)
(* the places of the last one that are empty are left out or padded.       *)
GsvMessage(m) ==
  LET first == (m - 1) * SatsPerMessage
      sats == IF dialect.padded THEN SatsPerMessage
              ELSE IF truth.view - first > SatsPerMessage THEN SatsPerMessage
              ELSE truth.view - first
      says(i) == SaidOfSat(SatNames(first + 1, sats)[i])
  IN Sentence("GPGSV",
       << Token(Field("MESSAGE_COUNT"), Groups),
          Token(Field("MESSAGE_NUMBER"), m),
          Token(Field("SAT_IN_VIEW"), truth.view) >>
       \o [i \in 1..(4 * sats) |-> says(i)])

Heads ==
  [GGA |-> "GPGGA", GSA |-> "GPGSA", RMC |-> "GPRMC", GLL |-> "GPGLL"]

Sent(id) ==
  IF id[1] = "GSV" THEN GsvMessage(id[2])
  ELSE Sentence(Heads[id[1]],
         [i \in DOMAIN Layout(id[1]) |-> Said(Layout(id[1])[i])])

Round(d, view) ==
  << <<"GGA", 0>>, <<"GSA", 0>> >>
  \o [m \in 1..(IF view = 0 THEN 1
                ELSE (view + SatsPerMessage - 1) \div SatsPerMessage) |->
        <<"GSV", m>>]
  \o << <<"RMC", 0>> >> \o (IF d.gll THEN << <<"GLL", 0>> >> ELSE <<>>)

-----------------------------------------------------------------------------
(* NMEA::Info.                                                             *)

(* The constructor sets the fields the format of which has the value.      *)
NewInfo ==
  [f \in {Field("FIX_MODE"), Field("FIX_TYPE"), Field("FIX_QUALITY"),
          Field("FIX_MODE_INDICATOR"), Field("STATUS")} |->
     Variant(IF f \in {Field("FIX_TYPE"), Field("FIX_QUALITY")} THEN "INT"
             ELSE "CHAR",
             [means |-> f, epoch |-> 0,
              n |-> IF f = Field("FIX_TYPE") THEN 1 ELSE 0])]

ClearSatsInView(i) ==
  Set(Remove(i, {Sat(n) : n \in 1..MaxSatInView}),
      Field("SAT_IN_VIEW"), Number0(0))

(* The number in I that k numbers of I do not exceed.                      *)
Nth(I, k) == CHOOSE n \in I : Cardinality({m \in I : m <= n}) = k

(* getSatsInView and getSatsInUse go by what is present, not by the counts.*)
Present(i) == {n \in 1..MaxSatInView : IsPresent(i, Sat(n))}

SatsInView(i) ==
  [k \in 1..Cardinality(Present(i)) |-> i[Sat(Nth(Present(i), k))].v]

SatsInUse(i) ==
  [n \in 1..MaxSatInUse |->
     IF IsPresent(i, InUse(n)) THEN i[InUse(n)].v ELSE NoValue]

(* A field the fix takes as a number: absent, it reads as zero.            *)
Reading(i, f) == IF IsPresent(i, Field(f)) THEN i[Field(f)].v ELSE NoValue

(* Without its letter a latitude is taken for a southern one.              *)
IsNorth(i) == Reading(i, "LATITUDE_NS").n = 1
IsEast(i) == Reading(i, "LONGITUDE_EW").n = 1

-----------------------------------------------------------------------------
(* NMEAProtocol.                                                           *)

NoFix == [has |-> FALSE]

TimeOf(i) ==
  IF IsPresent(i, Field("TIME")) /\ IsPresent(i, Field("DATE"))
  THEN [clock |-> "gps", time |-> Reading(i, "TIME"),
        date |-> Reading(i, "DATE").epoch]
  ELSE [clock |-> "host", time |-> [NoValue EXCEPT !.epoch = epoch],
        date |-> epoch]

HeightOf(i) ==
  IF IsPresent(i, Field("ALTITUDE")) /\ IsPresent(i, Field("DIFF"))
  THEN Reading(i, "DIFF") ELSE NoValue

FixOf(i) ==
  IF AsInt(i, Field("FIX_QUALITY")) = 0 THEN NoFix
  ELSE [has       |-> TRUE,
        quality   |-> Reading(i, "FIX_QUALITY"),
        latitude  |-> Reading(i, "LATITUDE"),
        north     |-> IsNorth(i),
        longitude |-> Reading(i, "LONGITUDE"),
        east      |-> IsEast(i),
        altitude  |-> Reading(i, "ALTITUDE"),
        height    |-> HeightOf(i),
        hdop      |-> Reading(i, "HDOP"),
        speed     |-> Reading(i, "SPEED"),
        bearing   |-> Reading(i, "DIRECTION"),
        prn       |-> SatsInUse(i),
        gpsTime   |-> TimeOf(i)]

HasRunOver == epoch - gsvTimer > GsvTimeout

(* tryParse: the data are made of what has been merged, and only then are  *)
(* satellites dropped of which no GSV has told for GsvTimeout.             *)
TryParse(s, junk) ==
  /\ info' = IF Id(s, junk) # "GSV" /\ HasRunOver
             THEN ClearSatsInView(Merge(s, info, junk))
             ELSE Merge(s, info, junk)
  /\ gsvTimer' = IF Id(s, junk) = "GSV" \/ HasRunOver THEN epoch ELSE gsvTimer
  /\ data' = [fix  |-> FixOf(Merge(s, info, junk)),
              sats |-> SatsInView(Merge(s, info, junk))]

Sentences == queue # <<>> /\ queue' = Tail(queue)

(* History.  A GSV of no satellites that is not padded is no GSV to parse. *)
IsGsv == Head(queue)[1] = "GSV" /\ (truth.view > 0 \/ dialect.padded)

Whole == {n \in 1..truth.view : ~Incomplete(n)}

ToldSats ==
  LET sat(n) == [p \in Range(GsvParts) |-> Token(Part(n, p), n).v]
  IN [k \in 1..Cardinality(Whole) |-> sat(Nth(Whole, k))]

NothingTold == [whole |-> FALSE, sats |-> <<>>]

HearGsv ==
  /\ heard' = heard + 1
  /\ heardAt' = epoch
  /\ told' = IF heard' = Groups THEN [whole |-> TRUE, sats |-> ToldSats]
             ELSE NothingTold
  /\ expired' = 0

HearOther ==
  /\ expired' = IF data'.sats # <<>> /\ epoch - heardAt > GsvTimeout
                THEN expired + 1 ELSE expired
  /\ UNCHANGED <<heard, heardAt, told>>

Hear ==
  /\ Sentences
  /\ \E junk \in IF dialect.time = 6 THEN Junk ELSE {0} :
       TryParse(Sent(Head(queue)), junk)
  /\ IF IsGsv THEN HearGsv ELSE HearOther
  /\ UNCHANGED <<recvVars, damaged>>

(* A sentence whose checksum is wrong is found in the bytes all the same.  *)
HearDamaged ==
  /\ damaged < MaxDamage
  /\ Sentences
  /\ TryParse([Sent(Head(queue)) EXCEPT !.intact = FALSE], 0)
  /\ damaged' = damaged + 1
  /\ HearOther
  /\ UNCHANGED recvVars

Truths == [pos : {"none", "2D", "3D"}, view : Views]

NextEpoch ==
  /\ queue = <<>>
  /\ epoch < MaxEpochs
  /\ epoch' = epoch + 1
  /\ truth' \in Truths
  /\ queue' = Round(dialect, truth'.view)
  /\ heard' = 0
  /\ UNCHANGED <<dialect, info, gsvTimer, data, damaged, heardAt, told,
                 expired>>

Init ==
  /\ dialect \in Dialects
  /\ epoch = 1
  /\ truth \in Truths
  /\ queue = Round(dialect, truth.view)
  /\ info = NewInfo
  /\ gsvTimer = epoch
  /\ data = [fix |-> NoFix, sats |-> <<>>]
  /\ damaged = 0
  /\ heard = 0
  /\ heardAt = epoch
  /\ told = NothingTold
  /\ expired = 0

Next == Hear \/ HearDamaged \/ NextEpoch

Spec == Init /\ [][Next]_vars

-----------------------------------------------------------------------------
(* Properties.                                                             *)

(* The type the getter of a field asks of its value; any other would run   *)
(* into the assertions of Variant.                                         *)
GetterType(f) ==
  CASE f[1] \in CharNames -> "CHAR"
    [] f[1] = "TIME" -> "TIME"
    [] f[1] = "DATE" -> "DATE"
    [] f[1] = "SATELLITE" -> "SATELLITE"
    [] f[1] \in {"FIX_TYPE", "FIX_QUALITY", "SAT_IN_USE_COUNT", "DGPS_ID",
                 "SAT_IN_USE", "SAT_IN_VIEW", "GSA_UNKNOWN_1"} -> "INT"
    [] OTHER -> "DOUBLE"

(* Whatever sentences have been merged, every field holds a value of the   *)
(* type it is read as, and the places of satellites are those there are.   *)
TypeOK ==
  /\ \A f \in DOMAIN info : info[f].type = GetterType(f)
  /\ \A f \in DOMAIN info : f[1] = "SATELLITE" => f[2] \in 1..MaxSatInView
  /\ Len(data.sats) <= MaxSatInView
  /\ gsvTimer \in 1..epoch /\ epoch \in 1..MaxEpochs

(* No field holds what the receiver said of another, in whichever of the   *)
(* forms of a sentence it speaks; and a satellite has all its numbers from *)
(* one description of it, at its own place in the group.                   *)
FieldsHoldTheirTokens ==
  /\ TypeOK
  /\ \A f \in DOMAIN info :
       IF f[1] = "SATELLITE"
       THEN \A p, q \in Range(GsvParts) :
              /\ info[f].v[p].means = Part(f[2], p)
              /\ info[f].v[p].epoch = info[f].v[q].epoch
       ELSE info[f].v.means \in {f, NoValue.means}

Pairs ==
  {<<"LATITUDE", "LATITUDE_NS">>, <<"LATITUDE", "LONGITUDE">>,
   <<"LONGITUDE", "LONGITUDE_EW">>, <<"ALTITUDE", "ALTITUDE_UNITS">>,
   <<"ALTITUDE", "DIFF">>, <<"DIFF", "DIFF_UNITS">>}

(* Fields that mean something only together come and go together and are   *)
(* of one epoch: a latitude never has another one's letter, and the list of*)
(* satellites in use is never a mixture of two.                            *)
PairsOfOneSentence ==
  /\ \A p \in Pairs :
       /\ IsPresent(info, Field(p[1])) <=> IsPresent(info, Field(p[2]))
       /\ Reading(info, p[1]).epoch = Reading(info, p[2]).epoch
  /\ \A i, j \in 1..MaxSatInUse :
       IsPresent(info, InUse(i)) /\ IsPresent(info, InUse(j))
         => info[InUse(i)].v.epoch = info[InUse(j)].v.epoch

(* A fix puts together what several sentences say.  Its altitude and its   *)
(* quality, which only GGA has, are as old as its position unless sentences*)
(* have been damaged, and then older by as many epochs at most; it is on   *)
(* the right side of the equator; and it is without a position, that is at *)
(* 0, 0, only if a sentence has been damaged.                              *)
FixLagsByDamage ==
  /\ PairsOfOneSentence
  /\ data.fix.has =>
       /\ data.fix.latitude = NoValue => damaged > 0
       /\ data.fix.latitude # NoValue =>
            /\ data.fix.north = (data.fix.latitude.epoch % 2 = 1)
            /\ data.fix.east = (data.fix.longitude.epoch % 2 = 1)
            /\ data.fix.latitude.epoch - data.fix.quality.epoch
                 \in 0..damaged
            /\ data.fix.altitude # NoValue =>
                 data.fix.latitude.epoch - data.fix.altitude.epoch
                   \in 0..damaged

(* Satellites of which nothing has been heard for GSV_TIMEOUT are handed   *)
(* out once more at most: tryParse looks at the timer after it has made the*)
(* data.                                                                   *)
OneStaleDelivery == expired <= 1

(* Once a group of GSV messages has come through whole, the satellites     *)
(* handed out are those of the group, without the incomplete ones, in their*)
(* order, until the next group begins or GSV_TIMEOUT has passed.           *)
GroupDelivered ==
  /\ OneStaleDelivery
  /\ told.whole /\ epoch - heardAt <= GsvTimeout => data.sats = told.sats

GeneratedFields ==
  (UNION {{Generated[i].format[j].field : j \in DOMAIN Generated[i].format} :
             i \in {1, 2, 4, 5}})
  \union {Sat(i) : i \in 1..MaxSatInView}

InfoCanBeWritten ==
  /\ \A i \in 1..MaxSatInView : IsPresent(info, Sat(i))
       => i <= AsInt(info, Field("SAT_IN_VIEW"))
  /\ Reading(info, "TIME").n \in {0} \union 10..99

(* What generate() writes, parse() reads back, as test_loop_back has it for*)
(* one example; but for hundredths of a second that it takes for tenths.   *)
LoopBack ==
  InfoCanBeWritten =>
    LET again == Parse(Generate(info), NoData, 0)
    IN \A f \in GeneratedFields :
         /\ IsPresent(info, f) <=> IsPresent(again, f)
         /\ IsPresent(info, f) => again[f] = info[f]

(* What Types.h says of hsecond: it is in hundredths of a second.  After a *)
(* time without them it is whatever was on the stack.                      *)
HundredthsOfSecond ==
  data.fix.has /\ data.fix.gpsTime.clock = "gps"
    => data.fix.gpsTime.time.n \in 0..99
=============================================================================
