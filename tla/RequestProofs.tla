---------------------------- MODULE RequestProofs ----------------------------
(***************************************************************************)
(* Theorems about Request, for any surroundings, any range of a timer and  *)
(* any number of events: the cell that is known is the one the serving     *)
(* modem says now; the access points, cells and fixes of a request are     *)
(* those there were, in order, with their names and their ages; scans are  *)
(* asked of a Wi-Fi Direct interface only if there is no other; and the    *)
(* process comes to its end for three reasons and no other.                *)
(***************************************************************************)
EXTENDS Request, ValuesProofs, FiniteSetTheorems

-----------------------------------------------------------------------------
(* Numbers and sequences.                                                  *)

(* A function on the first numbers is a sequence of that length.           *)
LEMMA FunctionIsSeq ==
  ASSUME NEW n \in Nat, NEW f, DOMAIN f = 1..n, f = [i \in 1..n |-> f[i]]
  PROVE  Len(f) = n
<1> DEFINE S == {f[i] : i \in 1..n}
<1>1. f \in [1..n -> S]
  OBVIOUS
<1> HIDE DEF S
<1>2. f \in Seq(S)
  BY <1>1
<1> QED
  BY <1>2

-----------------------------------------------------------------------------
(* What a selection keeps of a sequence.                                   *)

(* The numbers of I up to i.                                               *)
UpTo(I, i) == {j \in I : j <= i}

LEMMA UpToIs ==
  ASSUME NEW I \in SUBSET Nat, NEW i \in Nat \ {0}
  PROVE  /\ UpTo(I, 0) = I \cap {0}
         /\ UpTo(I, i) = IF i \in I THEN UpTo(I, i - 1) \union {i}
                        ELSE UpTo(I, i - 1)
         /\ i \notin UpTo(I, i - 1)
<1>1. \A j \in I : j <= i <=> (j <= i - 1 \/ j = i)
  OBVIOUS
<1>2. \A j \in I : j <= 0 <=> j = 0
  OBVIOUS
<1>3. i \notin UpTo(I, i - 1) /\ \A j \in UpTo(I, i - 1) : j \in I
  BY DEF UpTo
<1>4. UpTo(I, 0) = I \cap {0}
  BY <1>2, Zenon DEF UpTo
<1>5. i \in I => UpTo(I, i) = UpTo(I, i - 1) \union {i}
  BY <1>1, <1>3, Zenon DEF UpTo
<1>6. i \notin I => UpTo(I, i) = UpTo(I, i - 1)
  BY <1>1, <1>3, Zenon DEF UpTo
<1> QED
  BY <1>3, <1>4, <1>5, <1>6

(* Kept has the elements at the places I, each once and in their order: the*)
(* one at place m is that of the place in I with m places of I up to it.   *)
LEMMA KeptInOrder ==
  ASSUME NEW S, NEW s \in Seq(S), NEW I \in SUBSET DOMAIN s
  PROVE  /\ Len(Kept(s, I)) = Cardinality(I) /\ Cardinality(I) \in Nat
         /\ DOMAIN Kept(s, I) = 1..Cardinality(I)
         /\ \A m \in 1..Cardinality(I) :
              /\ Kept(s, I)[m] \in S
              /\ \E i \in I : /\ Kept(s, I)[m] = s[i]
                              /\ Cardinality(UpTo(I, i)) = m
<1> DEFINE k == Cardinality(I)
           kept == Kept(s, I)
           n == Len(s)
<1>0. n \in Nat /\ I \in SUBSET (1..n) /\ \A i \in I : s[i] \in S
  OBVIOUS
<1> HIDE DEF n
<1>1. IsFiniteSet(I) /\ k \in Nat
  <2>1. IsFiniteSet(1..n)
    BY <1>0, FS_Interval
  <2> QED
    BY <1>0, <2>1, FS_Subset, FS_CardinalityType
<1>2. kept = [m \in 1..k |-> s[CHOOSE i \in I : Cardinality(UpTo(I, i)) = m]]
  BY Zenon DEF Kept, UpTo
<1>3. \A i : IsFiniteSet(UpTo(I, i)) /\ Cardinality(UpTo(I, i)) \in Nat
  <2>1. \A i : UpTo(I, i) \in SUBSET I
    BY DEF UpTo
  <2> QED
    BY <1>1, <2>1, FS_Subset, FS_CardinalityType
<1>4. ASSUME NEW m \in 1..k
      PROVE  \E i \in I : Cardinality(UpTo(I, i)) = m
  <2> DEFINE T == {i \in 1..n : Cardinality(UpTo(I, i)) >= m}
             i == Min(T)
  <2>0. I \in SUBSET Nat
    BY <1>0
  <2>1. n \in T
    <3>1. UpTo(I, n) = I
      <4>1. \A j \in I : j <= n
        BY <1>0
      <4> QED
        BY <4>1, Zenon DEF UpTo
    <3>2. I # {}
      BY <1>1, FS_EmptySet
    <3>3. PICK j : j \in I
      BY <3>2
    <3>4. n \in 1..n
      BY <1>0, <3>3
    <3>5. Cardinality(UpTo(I, n)) >= m
      BY <1>1, <3>1
    <3> QED
      BY <3>4, <3>5
  <2>2. i \in T /\ \A j \in T : i <= j
    <3>1. T \in SUBSET Nat
      OBVIOUS
    <3> HIDE DEF T
    <3> QED
      BY <2>1, <3>1, Least
  <2>3. i \in 1..n /\ Cardinality(UpTo(I, i)) >= m
    BY <2>2
  <2>4. i - 1 \in 1..n => ~(Cardinality(UpTo(I, i - 1)) >= m)
    <3>1. ASSUME i - 1 \in T PROVE FALSE
      BY <2>2, <2>3, <3>1
    <3> QED
      BY <3>1
  <2> HIDE DEF T, i
  <2>5. Cardinality(UpTo(I, 0)) = 0
    <3>1. UpTo(I, 0) = {}
      BY <1>0, UpToIs
    <3> QED
      BY <3>1, FS_EmptySet, Zenon
  <2>6. ~(Cardinality(UpTo(I, i - 1)) >= m)
    <3>1. CASE i = 1
      <4>1. i - 1 = 0
        BY <3>1
      <4> QED
        BY <2>5, <4>1
    <3>2. CASE i # 1
      BY <1>0, <2>3, <2>4, <3>2
    <3> QED
      BY <3>1, <3>2
  <2> DEFINE below == UpTo(I, i - 1)
  <2>7. /\ UpTo(I, i) = IF i \in I THEN below \union {i} ELSE below
        /\ i \notin below
    <3>1. i \in Nat \ {0}
      BY <1>0, <2>3
    <3> QED
      BY <2>0, <3>1, UpToIs, Zenon
  <2>8. IsFiniteSet(below) /\ Cardinality(below) \in Nat
    BY <1>3
  <2>9. Cardinality(below \union {i}) =
          IF i \in below THEN Cardinality(below) ELSE Cardinality(below) + 1
    BY <2>8, FS_AddElement
  <2> HIDE DEF below
  <2>10. i \in I
    BY <2>3, <2>6, <2>7, Zenon DEF below
  <2>11. Cardinality(UpTo(I, i)) = Cardinality(below) + 1
    BY <2>7, <2>9, <2>10, Zenon
  <2>12. Cardinality(UpTo(I, i)) = m
    BY <2>3, <2>6, <2>8, <2>11 DEF below
  <2> QED
    BY <2>10, <2>12
<1>5. DOMAIN kept = 1..k /\ kept = [m \in 1..k |-> kept[m]]
  BY <1>2
<1>6. Len(kept) = k
  BY <1>1, <1>5, FunctionIsSeq
<1>7. ASSUME NEW m \in 1..k
      PROVE  /\ kept[m] \in S
             /\ \E i \in I : kept[m] = s[i] /\ Cardinality(UpTo(I, i)) = m
  <2> DEFINE i == CHOOSE i \in I : Cardinality(UpTo(I, i)) = m
  <2>1. i \in I /\ Cardinality(UpTo(I, i)) = m
    BY <1>4, <1>7, Zenon
  <2>2. kept[m] = s[i]
    BY <1>2, <1>7
  <2> QED
    BY <1>0, <2>1, <2>2, Zenon
<1> QED
  BY <1>0, <1>1, <1>5, <1>6, <1>7, Zenon

-----------------------------------------------------------------------------
(* The modem that serves: the first that is online.                        *)

Modem == [online : BOOLEAN, network : Registration]

(* A modem's network is a registration.                                    *)
LEMMA NetworkType ==
  ASSUME NEW ms \in Seq(Modem), NEW i \in DOMAIN ms
  PROVE  ms[i].network \in Registration
<1>1. ms[i] \in Modem
  OBVIOUS
<1> QED
  BY <1>1 DEF Modem

(* The modems that are online.                                             *)
OnlineIn(ms) == {i \in DOMAIN ms : ms[i].online}

(* getCurrentModem finds it, if there is one.                              *)
LEMMA CurrentModemIsFirst ==
  ASSUME NEW ms \in Seq(Modem)
  PROVE  LET c == getCurrentModem(ms)
         IN /\ c = 0 => \A i \in DOMAIN ms : ~ms[i].online
            /\ c # 0 => /\ c \in DOMAIN ms /\ ms[c].online
                        /\ \A j \in 1..(c - 1) : ~ms[j].online
<1> DEFINE S == OnlineIn(ms)
<1>1. S \in SUBSET Nat /\ 0 \notin S
  BY DEF OnlineIn
<1>2. getCurrentModem(ms) = IF S = {} THEN 0 ELSE Min(S)
  BY Zenon DEF getCurrentModem, OnlineIn
<1>3. CASE S = {}
  BY <1>2, <1>3 DEF OnlineIn
<1>4. CASE S # {}
  <2>1. Min(S) \in S /\ \A j \in S : Min(S) <= j
    BY <1>1, <1>4, Least
  <2> HIDE DEF S
  <2> DEFINE c == getCurrentModem(ms)
  <2>2. c = Min(S)
    BY <1>2, <1>4
  <2>3. c \in S /\ c # 0 /\ \A j \in S : c <= j
    BY <1>1, <2>1, <2>2
  <2> HIDE DEF c
  <2>4. c \in DOMAIN ms /\ ms[c].online /\ DOMAIN ms = 1..Len(ms)
    BY <2>3 DEF S, OnlineIn
  <2>5. \A j \in 1..(c - 1) : ~ms[j].online
    BY <2>3, <2>4 DEF S, OnlineIn
  <2> QED
    BY <2>3, <2>4, <2>5 DEF c
<1> QED
  BY <1>3, <1>4

(* The modems after a change of registration of one.                       *)
Registered(ms, i, n) == [ms EXCEPT ![i].network = n]

(* Another registration does not change which one it is.                   *)
LEMMA CurrentModemStays ==
  ASSUME NEW ms \in Seq(Modem), NEW i \in DOMAIN ms, NEW n \in Registration
  PROVE  LET new == Registered(ms, i, n)
         IN /\ new \in Seq(Modem)
            /\ getCurrentModem(new) = getCurrentModem(ms)
            /\ new[i].network = n
            /\ \A j \in DOMAIN ms : j # i => new[j] = ms[j]
<1> DEFINE new == Registered(ms, i, n)
<1>1. /\ DOMAIN new = DOMAIN ms /\ DOMAIN ms = 1..Len(ms) /\ Len(ms) \in Nat
      /\ \A j \in DOMAIN ms : ms[j] \in Modem
  BY DEF Registered
<1>2. \A j \in DOMAIN ms : /\ new[j] \in Modem
                           /\ new[j].online = ms[j].online
                           /\ j # i => new[j] = ms[j]
                           /\ j = i => new[j].network = n
  BY <1>1 DEF Modem, Registered
<1>3. new \in Seq(Modem)
  <2>1. new = [j \in DOMAIN ms |-> new[j]]
    BY DEF Registered
  <2> QED
    BY <1>1, <1>2, <2>1
<1>4. OnlineIn(new) = OnlineIn(ms)
  BY <1>1, <1>2, Zenon DEF OnlineIn
<1>5. getCurrentModem(new) = getCurrentModem(ms)
  BY <1>4, Zenon DEF getCurrentModem, OnlineIn
<1> QED
  BY <1>1, <1>2, <1>3, <1>5

-----------------------------------------------------------------------------
(* The cell a registration names.                                          *)

(* A reading the constructors of its parts have let through.               *)
IsReading(c) ==
  /\ IsTower(c.cell) /\ Asserted(c.cell)
  /\ c.cell.type # "LTE" => c.cell.tac = -1
  /\ c.cell.tac \in Int
  /\ c.rssi \in -255..0

(* The reading c is of the cell that the registration n names.             *)
IsOf(c, n) ==
  /\ IsReading(c)
  /\ c.rssi = n.strength - 110
  /\ c.cell.mcc = n.mcc % 2^16 /\ c.cell.mnc = n.mnc % 2^16
  /\ c.cell.ci = n.ci
  /\ c.cell.type # "LTE" => c.cell.lac = n.lac

(* The readings are what is to be read of the registration n.              *)
Says(cells, n) ==
  IF NamesCell(n) THEN cells = <<Head(cells)>> /\ IsOf(Head(cells), n)
  ELSE cells = <<>>

(* The ranges of the constructors are those of the standard.               *)
LEMMA CodeRanges ==
  ASSUME NEW mcc \in Nat, NEW mnc \in Nat
  PROVE  isValidMccMnc(mcc, mnc) <=> NamesNetwork(mcc, mnc)
  BY SMTT(20) DEF isValidMccMnc, NamesNetwork

(* Whether there is an area, which is -1 if the modem did not tell.        *)
LEMMA AreaRange ==
  /\ \A lac \in Int :
       isValidLac(lac) <=> lac \in 1..(2^16 - 1) /\ lac # 2^16 - 2
  /\ ~isValidLac(-1)
<1>1. Word = 65536
  BY SMT DEF Word
<1>2. \A lac \in Nat : lac \div Word = 0 <=> lac < Word
  BY <1>1, SMT
<1>3. \A lac \in Int : lac < 0 => ~isValidLac(lac)
  BY <1>1, SMT DEF isValidLac
<1>4. \A lac \in Nat :
        isValidLac(lac) <=> 1 <= lac /\ lac <= 65535 /\ lac # 65534
  BY <1>1, <1>2, SMT DEF isValidLac
<1>5. 2^16 = 65536
  BY SMT
<1>6. \A lac \in Int : lac < 0 \/ lac \in Nat
  BY SMT
<1> QED
  BY <1>3, <1>4, <1>5, <1>6, SMT

(* A code is what there is in 16 bits of what the modem gives.             *)
LEMMA CodeIs ==
  ASSUME NEW n \in Int
  PROVE  Code(n) = n % 2^16 /\ Code(n) \in Nat
<1>1. Word = 2^16 /\ Word \in Nat \ {0}
  BY SMT DEF Word
<1>2. n % Word \in 0..(Word - 1)
  BY <1>1, ModFacts
<1>3. Code(n) = n % Word
  BY DEF Code
<1>4. Code(n) = n % 2^16
  BY <1>1, <1>3, Zenon
<1>5. Code(n) \in Nat
  BY <1>1, <1>2, <1>3
<1> QED
  BY <1>4, <1>5

(* A registration names a cell if a tower can be made of it.               *)
LEMMA NamesCellIsCell ==
  ASSUME NEW n \in Registration, NEW lac \in Int,
         lac = IF "LocationAreaCode" \in n.has THEN n.lac ELSE -1
  PROVE  NamesCell(n) <=>
           /\ CellProperties \subseteq n.has
           /\ IsCell(toCellType(n.technology), Code(n.mcc), Code(n.mnc), n.ci,
                     lac)
<1>1. n.mcc \in Int /\ n.mnc \in Int /\ n.ci \in Int /\ n.lac \in Int
  BY DEF Registration
<1> DEFINE mcc == Code(n.mcc)
           mnc == Code(n.mnc)
<1>0. mcc = n.mcc % 2^16 /\ mnc = n.mnc % 2^16 /\ mcc \in Nat /\ mnc \in Nat
  BY <1>1, CodeIs
<1> HIDE DEF mcc, mnc
<1>2. isValidMccMnc(mcc, mnc) <=> NamesNetwork(n.mcc % 2^16, n.mnc % 2^16)
  <2>1. isValidMccMnc(mcc, mnc) <=> NamesNetwork(mcc, mnc)
    BY <1>0, CodeRanges
  <2> QED
    BY <1>0, <2>1, Zenon
<1>3. isValidLac(lac) <=> NamesArea(n)
  <2>1. isValidLac(n.lac) <=> n.lac \in 1..(2^16 - 1) /\ n.lac # 2^16 - 2
    BY <1>1, AreaRange, Zenon
  <2> QED
    BY <2>1, AreaRange, Zenon DEF NamesArea
<1>4. /\ n.ci \div CiRange["GSM"] = 0 <=> NumberFits(n, 16)
      /\ n.ci \div CiRange["UMTS"] = 0 <=> NumberFits(n, 28)
      /\ n.ci \div CiRange["LTE"] = 0 <=> NumberFits(n, 28)
  <2>1. n.ci \div Word = 0 <=> 0 <= n.ci /\ n.ci < 2^16
    BY <1>1, SMT DEF Word
  <2>2. n.ci \div (4096 * Word) = 0 <=> 0 <= n.ci /\ n.ci < 2^28
    BY <1>1, SMT DEF Word
  <2> QED
    BY <2>1, <2>2, SMT DEF CiRange, NumberFits
<1>5. DOMAIN CiRange = {"GSM", "UMTS", "LTE"}
  BY DEF CiRange
<1>6. CASE n.technology \in {"gsm", "edge"}
  <2>1. toCellType(n.technology) = "GSM"
    BY <1>6 DEF toCellType
  <2>2. IsCell("GSM", mcc, mnc, n.ci, lac) <=>
          /\ NamesNetwork(n.mcc % 2^16, n.mnc % 2^16)
          /\ NamesArea(n) /\ NumberFits(n, 16)
    BY <1>2, <1>3, <1>4, <1>5 DEF IsCell, isValidGsmUmtsCommon
  <2> QED
    BY <1>6, <2>1, <2>2, Zenon DEF NamesCell, CellProperties, mcc, mnc
<1>7. CASE n.technology \in {"umts", "hspa"}
  <2>1. toCellType(n.technology) = "UMTS"
    BY <1>7 DEF toCellType
  <2>2. IsCell("UMTS", mcc, mnc, n.ci, lac) <=>
          /\ NamesNetwork(n.mcc % 2^16, n.mnc % 2^16)
          /\ NamesArea(n) /\ NumberFits(n, 28)
    BY <1>2, <1>3, <1>4, <1>5 DEF IsCell, isValidGsmUmtsCommon
  <2> QED
    BY <1>7, <2>1, <2>2, Zenon DEF NamesCell, CellProperties, mcc, mnc
<1>8. CASE n.technology = "lte"
  <2>1. toCellType(n.technology) = "LTE"
    BY <1>8 DEF toCellType
  <2>2. IsCell("LTE", mcc, mnc, n.ci, lac) <=>
          NamesNetwork(n.mcc % 2^16, n.mnc % 2^16) /\ NumberFits(n, 28)
    BY <1>2, <1>4, <1>5 DEF IsCell
  <2> QED
    BY <1>8, <2>1, <2>2, Zenon DEF NamesCell, CellProperties, mcc, mnc
<1>9. CASE n.technology \notin {"gsm", "edge", "umts", "hspa", "lte"}
  <2>1. toCellType(n.technology) = "UNKNOWN"
    BY <1>9 DEF toCellType
  <2>2. ~IsCell("UNKNOWN", mcc, mnc, n.ci, lac)
    BY <1>5 DEF IsCell
  <2> QED
    BY <1>9, <2>1, <2>2, Zenon DEF NamesCell, mcc, mnc
<1> QED
  BY <1>6, <1>7, <1>8, <1>9

(* A registration is told of as a cell if it names one, and fails the      *)
(* assertion of the constructor if that has an area that is too big.       *)
LEMMA TowerOfNetwork ==
  ASSUME NEW n \in Registration
  PROVE  LET type == toCellType(n.technology)
             tower == NetworkTower(n)
         IN /\ IsTold(n) <=> NamesCell(n)
            /\ FailsAssertion(n) <=> AreaIsTooBig(n)
            /\ NamesCell(n) =>
                 /\ IsTower(tower) /\ tower.type = type
                 /\ tower.mcc = n.mcc % 2^16 /\ tower.mnc = n.mnc % 2^16
                 /\ tower.ci = n.ci
                 /\ type # "LTE" => tower.lac = n.lac /\ tower.tac = -1
                 /\ tower.tac \in Int
<1> DEFINE area == IF "LocationAreaCode" \in n.has THEN n.lac ELSE -1
           type == toCellType(n.technology)
           mcc == Code(n.mcc)
           mnc == Code(n.mnc)
           tower == Tower(type, mcc, mnc, n.ci, area)
           told == CellProperties \subseteq n.has
           cell == IsCell(type, mcc, mnc, n.ci, area)
<1>1. /\ n.mcc \in Int /\ n.mnc \in Int /\ n.ci \in Int /\ n.lac \in Int
      /\ area \in Int
  BY DEF Registration
<1>2. /\ mcc \in Nat /\ mnc \in Nat
      /\ mcc = n.mcc % 2^16 /\ mnc = n.mnc % 2^16
  BY <1>1, CodeIs
<1>3. NamesCell(n) <=> told /\ cell
  BY <1>1, NamesCellIsCell
<1> HIDE DEF mcc, mnc
<1>4. \/ tower = NoCell
      \/ /\ IsTower(tower)
         /\ Asserted(tower) <=> (type = "LTE" => area < Word)
  BY <1>1, <1>2, TowersHoldTheirRanges
<1>5. cell => /\ tower # NoCell /\ tower.type = type
              /\ tower.mcc = mcc /\ tower.mnc = mnc /\ tower.ci = n.ci
              /\ type # "LTE" => tower.lac = area /\ tower.tac = -1
              /\ tower.tac \in Int
  <2> SUFFICES ASSUME cell
               PROVE  /\ tower # NoCell /\ tower.type = type
                      /\ tower.mcc = mcc /\ tower.mnc = mnc
                      /\ tower.ci = n.ci
                      /\ type # "LTE" => tower.lac = area /\ tower.tac = -1
                      /\ tower.tac \in Int
    OBVIOUS
  <2>1. tower = [type |-> type, mcc |-> mcc, mnc |-> mnc, ci |-> n.ci,
                 lac |-> IF type = "LTE" THEN -1 ELSE area,
                 tac |-> IF type = "LTE" THEN area ELSE -1]
    BY Zenon DEF Tower
  <2>2. type \in {"GSM", "UMTS", "LTE"}
    BY DEF IsCell, CiRange
  <2> HIDE DEF type, area, tower
  <2>3. tower # NoCell
    BY <2>1, <2>2 DEF NoCell
  <2>4. /\ tower.type = type /\ tower.mcc = mcc /\ tower.mnc = mnc
        /\ tower.ci = n.ci
        /\ type # "LTE" => tower.lac = area /\ tower.tac = -1
    BY <2>1
  <2>5. tower.tac \in Int
    BY <1>1, <2>1
  <2> QED
    BY <2>3, <2>4, <2>5
<1>6. ~cell => tower = NoCell
  BY Zenon DEF Tower
<1>7. NetworkTower(n) = tower
  BY Zenon DEF NetworkTower, mcc, mnc
<1>8. type = "LTE" <=> n.technology = "lte"
  BY DEF toCellType
<1>9. NamesCell(n) /\ type # "LTE" => area = n.lac
  <2>1. NamesCell(n) /\ n.technology # "lte" => NamesArea(n)
    BY Zenon DEF NamesCell
  <2>2. NamesArea(n) => "LocationAreaCode" \in n.has
    BY Zenon DEF NamesArea
  <2> QED
    BY <1>8, <2>1, <2>2, Zenon
<1>10. ~(area < Word) <=> "LocationAreaCode" \in n.has /\ n.lac >= 2^16
  <2> DEFINE w == 2^16
  <2>1. Word = w /\ w \in Nat
    BY SMT DEF Word
  <2> HIDE DEF w
  <2>2. ~(area < Word) <=> "LocationAreaCode" \in n.has /\ n.lac >= w
    BY <1>1, <2>1
  <2> QED
    BY <2>2, Zenon DEF w
<1> HIDE DEF type, tower, area, told, cell
<1>11. IsTold(n) <=> told /\ tower # NoCell
  BY <1>7, Zenon DEF IsTold, told
<1>12. IsTold(n) <=> NamesCell(n)
  BY <1>3, <1>5, <1>6, <1>11, Zenon
<1>13. FailsAssertion(n) <=> AreaIsTooBig(n)
  BY <1>4, <1>7, <1>8, <1>10, <1>11, <1>12, Zenon
     DEF FailsAssertion, AreaIsTooBig
<1>14. NamesCell(n) =>
         /\ IsTower(tower) /\ tower.type = type
         /\ tower.mcc = n.mcc % 2^16 /\ tower.mnc = n.mnc % 2^16
         /\ tower.ci = n.ci
         /\ type # "LTE" => tower.lac = n.lac /\ tower.tac = -1
         /\ tower.tac \in Int
  BY <1>2, <1>3, <1>4, <1>5, <1>9, Zenon
<1> QED
  BY <1>7, <1>12, <1>13, <1>14, Zenon DEF type

(* getScannedCellTower reads the cell the registration names, if any.      *)
LEMMA ScannedCellsSay ==
  ASSUME NEW n \in Registration, NEW t, ~FailsAssertion(n)
  PROVE  LET cells == ScannedCells(n, t)
         IN /\ Says(cells, n)
            /\ cells # <<>> => Head(cells).timestamp = t
<1> DEFINE cells == ScannedCells(n, t)
           tower == NetworkTower(n)
           type == toCellType(n.technology)
<1>1. CASE NamesCell(n)
  <2> DEFINE c == [cell |-> tower, timing |-> 0, rssi |-> n.strength - 110,
                   timestamp |-> t]
  <2>1. IsTold(n)
    BY <1>1, TowerOfNetwork
  <2>2. cells = <<c>>
    BY <2>1, Zenon DEF ScannedCells
  <2>3. Asserted(tower)
    BY <2>1, Zenon DEF FailsAssertion
  <2>4. /\ IsTower(tower) /\ tower.type = type
        /\ tower.mcc = n.mcc % 2^16 /\ tower.mnc = n.mnc % 2^16
        /\ tower.ci = n.ci
        /\ type # "LTE" => tower.lac = n.lac /\ tower.tac = -1
        /\ tower.tac \in Int
    BY <1>1, TowerOfNetwork
  <2>5. c.cell = tower /\ c.rssi = n.strength - 110 /\ c.timestamp = t
    OBVIOUS
  <2>6. n.strength - 110 \in -255..0
    <3>1. n.strength \in 0..100
      BY DEF Registration
    <3> QED
      BY <3>1
  <2> HIDE DEF c, tower, type
  <2>7. IsReading(c)
    BY <2>3, <2>4, <2>5, <2>6, Zenon DEF IsReading
  <2>8. IsOf(c, n)
    BY <2>4, <2>5, <2>7, Zenon DEF IsOf
  <2>9. Head(cells) = c /\ cells # <<>>
    BY <2>2
  <2> QED
    BY <1>1, <2>2, <2>5, <2>8, <2>9, Zenon DEF Says
<1>2. CASE ~NamesCell(n)
  <2>1. cells = <<>>
    BY <1>2, TowerOfNetwork, Zenon DEF ScannedCells
  <2> QED
    BY <1>2, <2>1, Zenon DEF Says
<1> QED
  BY <1>1, <1>2

(* A reading that equals it in cell and signal will do.                    *)
LEMMA CachedWillDo ==
  ASSUME NEW n, NEW a, NEW c, IsReading(a), IsOf(c, n),
         SameCell(a.cell, c.cell), a.rssi = c.rssi
  PROVE  IsOf(a, n)
<1>1. IsTower(a.cell) /\ IsTower(c.cell)
  BY Zenon DEF IsOf, IsReading
<1>2. /\ a.cell.type = c.cell.type /\ a.cell.mcc = c.cell.mcc
      /\ a.cell.mnc = c.cell.mnc
      /\ a.cell.ci = c.cell.ci /\ a.cell.lac = c.cell.lac
  BY <1>1, CellsAreOrdered
<1> QED
  BY <1>2, Zenon DEF IsOf

-----------------------------------------------------------------------------
(* The invariant.                                                          *)

(* When something was heard: the time and the lead of the host's clock.    *)
Moments == [now : Nat, clock : Nat]

TickAt(moment) == (moment.now + moment.clock) % Modulus

(* The cell that is known, to the adapter and to the wrapper, is what the  *)
(* serving modem says, unless the process has come to its end.             *)
IsKnown(cells) ==
  cells = <<>> \/ (cells = <<Head(cells)>> /\ IsReading(Head(cells)))

CellInv ==
  /\ modems \in Seq(Modem)
  /\ currentModem = getCurrentModem(modems)
  /\ scannedCells = lastCell /\ IsKnown(lastCell)
  /\ currentModem = 0 => lastCell = <<>>
  /\ currentModem # 0 /\ stage # "crashed" =>
       /\ ~AreaIsTooBig(modems[currentModem].network)
       /\ Says(lastCell, modems[currentModem].network)

(* It has come to it for one of three reasons.                             *)
CrashInv == stage = "crashed" => NamelessFirst \/ DumpBreaks \/ AreaBreaks

(* It carries the time of its report.                                      *)
TimeInv ==
  /\ now \in Nat /\ clock \in Nat /\ cellAt \in Moments
  /\ lastCell # <<>> => Head(lastCell).timestamp = TickAt(cellAt)

(* The fixes are those of the epochs in a row, each with its time.         *)
FixSays ==
  [gpsTime : Nat, localTime : Nat, has : SUBSET {"altitude", "height"}]

FixInv ==
  /\ fixes \in Seq(FixSays) /\ fixAt \in Seq(Moments)
  /\ Len(fixes) = Len(fixAt)
  /\ \A i \in 1..Len(fixes) :
       /\ fixes[i].gpsTime = i
       /\ fixes[i].localTime = TickAt(fixAt[i])
       /\ "altitude" \in fixes[i].has <=> i > 1

(* What has been taken for the scan is of them.                            *)
TakenInv ==
  /\ scan = [gps |-> scan.gps, cells |-> scan.cells]
  /\ scan.gps \in Seq(FixSays) /\ Len(scan.gps) <= Len(fixes)
  /\ \A i \in 1..Len(scan.gps) : scan.gps[i] = fixes[i]
  /\ \/ scan.cells = <<>>
     \/ scan.cells = <<Head(scan.cells)>> /\ IsTower(Head(scan.cells).cell)

(* The access points, once there has been a scan, are those of the dump.   *)
ApsInv ==
  /\ dump \in Seq(Bss) /\ scanAt \in Moments
  /\ DumpBreaks => stage \notin {"fixes", "cells", "request", "sent"}
  /\ \/ aps = <<>> /\ stage \in {"open", "scan", "failed", "crashed"}
     \/ aps = [i \in DOMAIN Heard |-> AccessPoint(Heard[i], TickAt(scanAt))]

InterfaceInv ==
  /\ interfaces \in Seq(STRING \ {""})
  /\ stage \notin {"open", "crashed"} =>
       interface = Chosen(interfaces) /\ interface # NoName

(* What is counted, and the places of the calling thread.                  *)
CountInv ==
  /\ stage \in {"open", "scan", "fixes", "cells", "request", "sent", "failed",
                "crashed"}
  /\ events \in 0..MaxEvents /\ now \in 0..events
  /\ Len(fixes) <= MaxFixes

SentInv ==
  stage = "sent" => /\ AccessPointsAreTold /\ CellsAreTold /\ FixesAreTold
                    /\ SsidsAreTold /\ AccessPointAges /\ CellAges /\ FixAges

IInv ==
  /\ CellInv /\ CrashInv /\ TimeInv /\ FixInv /\ TakenInv /\ ApsInv
  /\ InterfaceInv /\ CountInv /\ SentInv

-----------------------------------------------------------------------------
(* What the steps do to the parts of it.                                   *)

(* Steps of others.                                                        *)
LEMMA CellFrame ==
  ASSUME CellInv, UNCHANGED cellVars, stage = "crashed" => stage' = "crashed"
  PROVE  CellInv'
  BY Zenon DEF CellInv, cellVars

LEMMA CrashFrame ==
  ASSUME CrashInv, UNCHANGED <<interfaces, dump, modems>>,
         stage' = "crashed" => stage = "crashed"
  PROVE  CrashInv'
<1>1. /\ NamelessFirst' = NamelessFirst /\ DumpBreaks' = DumpBreaks
      /\ AreaBreaks' = AreaBreaks
  BY Zenon DEF NamelessFirst, DumpBreaks, AreaBreaks, Serves
<1> QED
  BY <1>1 DEF CrashInv

LEMMA TimeFrame ==
  ASSUME TimeInv, UNCHANGED <<now, clock, lastCell, cellAt>>
  PROVE  TimeInv'
  BY DEF TimeInv

LEMMA FixFrame ==
  ASSUME FixInv, UNCHANGED fixVars
  PROVE  FixInv'
  BY DEF FixInv, fixVars

LEMMA TakenFrame ==
  ASSUME TakenInv, UNCHANGED <<scan, fixes>>
  PROVE  TakenInv'
  BY DEF TakenInv

LEMMA ApsFrame ==
  ASSUME ApsInv, UNCHANGED <<aps, dump, scanAt>>,
         stage' # stage => \/ stage' \in {"scan", "failed", "crashed"}
                           \/ stage \in {"fixes", "cells", "request"}
  PROVE  ApsInv'
<1>1. Heard' = Heard /\ DumpBreaks' = DumpBreaks
  BY DEF Heard, DumpBreaks
<1>2. \A m : TickAt(m)' = TickAt(m)
  BY DEF TickAt
<1>3. DumpBreaks' => stage' \notin {"fixes", "cells", "request", "sent"}
  BY <1>1 DEF ApsInv
<1>4. CASE aps = <<>> /\ stage \in {"open", "scan", "failed", "crashed"}
  BY <1>3, <1>4 DEF ApsInv
<1>5. CASE aps = [i \in DOMAIN Heard |->
                   AccessPoint(Heard[i], TickAt(scanAt))]
  BY <1>1, <1>3, <1>5 DEF ApsInv
<1> QED
  BY <1>4, <1>5 DEF ApsInv

LEMMA InterfaceFrame ==
  ASSUME InterfaceInv, UNCHANGED <<interface, interfaces>>,
         stage \in {"open", "crashed"} => stage' \in {"open", "crashed"}
  PROVE  InterfaceInv'
<1>1. Chosen(interfaces)' = Chosen(interfaces)
  BY DEF Chosen
<1> QED
  BY <1>1 DEF InterfaceInv

(* A moment's tick is the one the clock of the host has then.              *)
LEMMA MomentIs ==
  ASSUME now \in Nat, clock \in Nat
  PROVE  Moment \in Moments /\ TickAt(Moment) = Tick /\ Tick \in Nat
  BY ModulusIs DEF Moment, Moments, TickAt, Tick

(* One cell is known at most, and it is a cell.                            *)
LEMMA KnownCell ==
  ASSUME CellInv
  PROVE  \/ lastCell = <<>>
         \/ /\ lastCell = <<Head(lastCell)>>
            /\ IsReading(Head(lastCell)) /\ IsTower(Head(lastCell).cell)
  BY Zenon DEF CellInv, IsKnown, IsReading

(* A report leaves what the modem says, whether it is passed on or not.    *)
LEMMA ReportCellSays ==
  ASSUME CellInv, TimeInv, NEW n \in Registration, ~FailsAssertion(n),
         ReportCell(ScannedCells(n, Tick))
  PROVE  /\ scannedCells' = lastCell' /\ Says(lastCell', n)
         /\ cellAt' \in Moments
         /\ lastCell' # <<>> => Head(lastCell').timestamp = TickAt(cellAt')
<1> DEFINE cells == ScannedCells(n, Tick)
<1>1. Says(cells, n) /\ (cells # <<>> => Head(cells).timestamp = Tick)
  BY ScannedCellsSay
<1>2. Moment \in Moments /\ TickAt(Moment) = Tick
  BY MomentIs DEF TimeInv
<1> HIDE DEF cells
<1>3. CASE cells # <<>> /\ IsCached(Head(cells))
  <2>1. UNCHANGED <<lastCell, scannedCells, cellAt>>
    BY <1>3, Zenon DEF ReportCell, cells
  <2>2. NamesCell(n) /\ IsOf(Head(cells), n)
    BY <1>1, <1>3, Zenon DEF Says
  <2>3. /\ lastCell # <<>>
        /\ SameCell(Head(lastCell).cell, Head(cells).cell)
        /\ Head(lastCell).rssi = Head(cells).rssi
    BY <1>3, Zenon DEF IsCached
  <2>4. lastCell = <<Head(lastCell)>> /\ IsReading(Head(lastCell))
    BY <2>3, KnownCell
  <2>5. IsOf(Head(lastCell), n)
    BY <2>2, <2>3, <2>4, CachedWillDo
  <2>6. Says(lastCell, n)
    BY <2>2, <2>4, <2>5, Zenon DEF Says
  <2> QED
    BY <2>1, <2>6 DEF CellInv, TimeInv
<1>4. CASE ~(cells # <<>> /\ IsCached(Head(cells)))
  <2>1. lastCell' = cells /\ scannedCells' = cells /\ cellAt' = Moment
    BY <1>4, Zenon DEF ReportCell, cells
  <2> QED
    BY <1>1, <1>2, <2>1
<1> QED
  BY <1>3, <1>4

(* The area of the serving cell is too big only in the end.                *)
LEMMA AreaBreaksIs ==
  ASSUME modems \in Seq(Modem), currentModem = getCurrentModem(modems)
  PROVE  AreaBreaks <=> /\ currentModem # 0
                        /\ AreaIsTooBig(modems[currentModem].network)
<1> DEFINE c == currentModem
<1>1. /\ c = 0 => \A i \in DOMAIN modems : ~modems[i].online
      /\ c # 0 => /\ c \in DOMAIN modems /\ modems[c].online
                  /\ \A j \in 1..(c - 1) : ~modems[j].online
  BY CurrentModemIsFirst
<1>2. ASSUME NEW i \in DOMAIN modems, Serves(i) PROVE c # 0 /\ i = c
  <2>1. modems[i].online /\ \A j \in 1..(i - 1) : ~modems[j].online
    BY <1>2 DEF Serves
  <2>2. c # 0
    BY <1>1, <2>1
  <2> QED
    BY <1>1, <2>1, <2>2
<1>3. c # 0 => c \in DOMAIN modems /\ Serves(c)
  BY <1>1, Zenon DEF Serves
<1> QED
  BY <1>2, <1>3, Zenon DEF AreaBreaks

(* A change of any modem's registration.                                   *)
LEMMA PropertyChangedStep ==
  ASSUME CellInv, CrashInv, TimeInv, PropertyChanged
  PROVE  CellInv' /\ CrashInv' /\ TimeInv'
<1>0. stage # "crashed"
  BY DEF PropertyChanged, Event
<1>1. PICK i \in DOMAIN modems, n \in Handovers :
        /\ modems' = [modems EXCEPT ![i].network = n]
        /\ \/ /\ i # currentModem
              /\ UNCHANGED <<stage, lastCell, scannedCells, cellAt>>
           \/ /\ i = currentModem /\ FailsAssertion(n)
              /\ stage' = "crashed"
              /\ UNCHANGED <<lastCell, scannedCells, cellAt>>
           \/ /\ i = currentModem /\ ~FailsAssertion(n)
              /\ ReportCell(ScannedCells(n, Tick))
              /\ UNCHANGED stage
  BY Zenon DEF PropertyChanged
<1>2. n \in Registration
  BY ModemsAssumption
<1>3. /\ currentModem' = currentModem /\ now' = now /\ clock' = clock
  BY DEF PropertyChanged, worldVars
<1>4. /\ modems' \in Seq(Modem)
      /\ getCurrentModem(modems') = getCurrentModem(modems)
      /\ modems'[i].network = n
      /\ \A j \in DOMAIN modems : j # i => modems'[j] = modems[j]
  <2>1. modems \in Seq(Modem)
    BY DEF CellInv
  <2>2. modems' = Registered(modems, i, n)
    BY <1>1, Zenon DEF Registered
  <2> QED
    BY <1>2, <2>1, <2>2, CurrentModemStays
<1>5. currentModem = 0 \/ currentModem \in DOMAIN modems
  BY CurrentModemIsFirst DEF CellInv
<1>6. i # 0
  BY DEF CellInv
<1>7. FailsAssertion(n) <=> AreaIsTooBig(n)
  BY <1>2, TowerOfNetwork
<1>8. currentModem' = getCurrentModem(modems')
  BY <1>3, <1>4 DEF CellInv
<1>9. CASE i # currentModem
  <2>1. UNCHANGED <<stage, lastCell, scannedCells, cellAt>>
    BY <1>1, <1>9
  <2>2. currentModem # 0 =>
          modems'[currentModem].network = modems[currentModem].network
    BY <1>4, <1>5, <1>9
  <2>3. CellInv'
    BY <1>0, <1>3, <1>4, <1>8, <2>1, <2>2, Zenon DEF CellInv
  <2>4. CrashInv'
    BY <1>0, <2>1 DEF CrashInv
  <2> QED
    BY <1>3, <2>1, <2>3, <2>4, TimeFrame
<1>10. CASE i = currentModem /\ FailsAssertion(n)
  <2>1. stage' = "crashed" /\ UNCHANGED <<lastCell, scannedCells, cellAt>>
    BY <1>1, <1>10
  <2>2. CellInv'
    BY <1>3, <1>4, <1>6, <1>8, <1>10, <2>1, Zenon DEF CellInv
  <2>3. currentModem' # 0 /\ AreaIsTooBig(modems'[currentModem'].network)
    BY <1>3, <1>4, <1>6, <1>7, <1>10
  <2>4. AreaBreaks'
    <3> DEFINE c == currentModem'
               m == modems'
    <3>1. c \in DOMAIN m /\ m[c].online /\ \A j \in 1..(c - 1) : ~m[j].online
      BY <1>4, <1>8, <2>3, CurrentModemIsFirst
    <3>2. AreaIsTooBig(m[c].network)
      BY <2>3
    <3> QED
      BY <3>1, <3>2, Zenon DEF AreaBreaks, Serves
  <2>5. CrashInv'
    BY <2>4, Zenon DEF CrashInv
  <2> QED
    BY <1>3, <2>1, <2>2, <2>5, TimeFrame
<1>11. CASE i = currentModem /\ ~FailsAssertion(n)
  <2>1. ReportCell(ScannedCells(n, Tick)) /\ stage' = stage
    BY <1>1, <1>11
  <2>2. /\ scannedCells' = lastCell' /\ Says(lastCell', n)
        /\ cellAt' \in Moments
        /\ lastCell' # <<>> => Head(lastCell').timestamp = TickAt(cellAt')
    BY <1>2, <1>11, <2>1, ReportCellSays
  <2>3. modems'[currentModem'].network = n /\ currentModem' # 0
    BY <1>3, <1>4, <1>6, <1>11
  <2>4. IsKnown(lastCell')
    BY <2>2, Zenon DEF Says, IsKnown, IsOf
  <2>5. CellInv'
    BY <1>4, <1>7, <1>8, <1>11, <2>2, <2>3, <2>4, Zenon DEF CellInv
  <2>6. TimeInv'
    BY <1>3, <2>2, Zenon DEF TimeInv
  <2>7. CrashInv'
    BY <1>0, <2>1 DEF CrashInv
  <2> QED
    BY <2>5, <2>6, <2>7
<1> QED
  BY <1>9, <1>10, <1>11

(* A fix that is one of the epoch before is not added.                     *)
LEMMA OnGpsDataStep ==
  ASSUME TimeInv, FixInv, TakenInv, OnGpsData
  PROVE  FixInv' /\ TakenInv'
<1>1. PICK time \in 1..MaxFixes :
        IF fixes # <<>> /\ fixes[Len(fixes)].gpsTime = time
        THEN UNCHANGED fixVars
        ELSE /\ time = Len(fixes) + 1
             /\ fixes' = Append(fixes,
                  [gpsTime |-> time, localTime |-> Tick,
                   has |-> IF time = 1 THEN {} ELSE {"altitude", "height"}])
             /\ fixAt' = Append(fixAt, Moment)
  BY Zenon DEF OnGpsData
<1>2. scan' = scan
  BY DEF OnGpsData, callVars, toldVars
<1>3. CASE UNCHANGED fixVars
  BY <1>2, <1>3, FixFrame, TakenFrame DEF fixVars
<1>4. CASE ~UNCHANGED fixVars
  <2> DEFINE f == [gpsTime |-> time, localTime |-> Tick,
                   has |-> IF time = 1 THEN {} ELSE {"altitude", "height"}]
             m == Moment
             n == Len(fixes)
  <2>1. time = n + 1 /\ fixes' = Append(fixes, f) /\ fixAt' = Append(fixAt, m)
    BY <1>1, <1>4
  <2>2. m \in Moments /\ TickAt(m) = Tick /\ Tick \in Nat
    BY MomentIs DEF TimeInv
  <2>3. /\ f \in FixSays /\ f.gpsTime = n + 1 /\ f.localTime = TickAt(m)
        /\ "altitude" \in f.has <=> n + 1 > 1
    BY <2>1, <2>2 DEF FixInv, FixSays
  <2> HIDE DEF f, m
  <2>4. /\ fixes' \in Seq(FixSays) /\ fixAt' \in Seq(Moments)
        /\ Len(fixes') = n + 1 /\ Len(fixAt') = n + 1 /\ n \in Nat
        /\ \A i \in 1..n : fixes'[i] = fixes[i] /\ fixAt'[i] = fixAt[i]
        /\ fixes'[n + 1] = f /\ fixAt'[n + 1] = m
    BY <2>1, <2>2, <2>3 DEF FixInv
  <2>5. \A i \in 1..(n + 1) :
          /\ fixes'[i].gpsTime = i
          /\ fixes'[i].localTime = TickAt(fixAt'[i])
          /\ "altitude" \in fixes'[i].has <=> i > 1
    <3> SUFFICES ASSUME NEW i \in 1..(n + 1)
                 PROVE  /\ fixes'[i].gpsTime = i
                        /\ fixes'[i].localTime = TickAt(fixAt'[i])
                        /\ "altitude" \in fixes'[i].has <=> i > 1
      OBVIOUS
    <3>1. CASE i \in 1..n
      BY <2>4, <3>1 DEF FixInv
    <3>2. CASE i = n + 1
      BY <2>3, <2>4, <3>2
    <3> QED
      BY <2>4, <3>1, <3>2
  <2>6. FixInv'
    BY <2>4, <2>5 DEF FixInv
  <2>7. TakenInv'
    BY <1>2, <2>4 DEF TakenInv
  <2> QED
    BY <2>6, <2>7
<1> QED
  BY <1>3, <1>4

(* The copies for the scan.                                                *)
LEMMA GetFixesStep ==
  ASSUME FixInv, TakenInv, GetFixes
  PROVE  TakenInv'
<1>1. scan' = [scan EXCEPT !.gps = fixes] /\ fixes' = fixes
  BY DEF GetFixes, fixVars
<1>2. scan'.gps = fixes /\ scan'.cells = scan.cells
      /\ scan' = [gps |-> scan'.gps, cells |-> scan'.cells]
  BY <1>1 DEF TakenInv
<1> QED
  BY <1>1, <1>2 DEF TakenInv, FixInv

LEMMA GetScannedCellsStep ==
  ASSUME CellInv, TakenInv, GetScannedCells
  PROVE  TakenInv'
<1>1. scan' = [scan EXCEPT !.cells = scannedCells] /\ fixes' = fixes
  BY DEF GetScannedCells, fixVars
<1>2. scan'.gps = scan.gps /\ scan'.cells = lastCell
      /\ scan' = [gps |-> scan'.gps, cells |-> scan'.cells]
  BY <1>1 DEF TakenInv, CellInv
<1> QED
  BY <1>1, <1>2, KnownCell DEF TakenInv

-----------------------------------------------------------------------------
(* What is told of cells and fixes.                                        *)

(* The age of what was heard at a moment is the time that the clock of the *)
(* host has gone on since.                                                 *)
LEMMA AgeIsTrue ==
  ASSUME now \in Nat, clock \in Nat, NEW m \in Moments, NEW least
  PROVE  AgeIs(Age(TickAt(m), least), Since(m), least)
<1> DEFINE x == now + clock
           y == m.now + m.clock
<1>1. x \in Int /\ y \in Int /\ x - y = Since(m)
  BY DEF Moments, Since
<1>2. Tick = x % Modulus /\ TickAt(m) = y % Modulus
  BY DEF Tick, TickAt
<1> HIDE DEF x, y
<1>3. Since(m) \in -Half..(Half - 1) => Delta(Tick, TickAt(m)) = Since(m)
  BY <1>1, <1>2, DeltaIsTheDifference
<1> QED
  BY <1>3, Zenon DEF AgeIs, Age

(* What the elements hold.                                                 *)
LEMMA Elements ==
  /\ \A c : /\ xCellTower(c).lac =
                IF c.cell.type \in {"GSM", "UMTS"}
                THEN <<c.cell.lac>> ELSE <<>>
           /\ xCellTower(c).age = Age(c.timestamp, 1)
  /\ \A f : /\ xGPSLocation(f).at = f.gpsTime
           /\ xGPSLocation(f).says = f.has
           /\ xGPSLocation(f).age = Age(f.localTime, 0)
  BY DEF xCellTower, xGPSLocation

-----------------------------------------------------------------------------
(* The access points a dump tells of.                                      *)

(* Those of them that count are the ones the adapter takes.                *)
LEMMA HeardAreTaken ==
  Heard = Kept(dump, {i \in DOMAIN dump : IsTaken(dump[i])})
<1>1. \A i : ~dump[i].ibss /\ Required \ dump[i].has = {} <=> IsTaken(dump[i])
  BY Zenon DEF IsTaken
<1>2. {i \in DOMAIN dump : ~dump[i].ibss /\ Required \ dump[i].has = {}}
        = {i \in DOMAIN dump : IsTaken(dump[i])}
  BY <1>1, Zenon
<1> QED
  BY <1>2, Zenon DEF Heard

LEMMA HeardAre ==
  ASSUME dump \in Seq(Bss)
  PROVE  /\ Len(Heard) \in Nat /\ DOMAIN Heard = 1..Len(Heard)
         /\ \A i \in 1..Len(Heard) : Heard[i] \in Bss
<1> DEFINE I == {i \in DOMAIN dump : ~dump[i].ibss
                                     /\ Required \ dump[i].has = {}}
<1>1. I \in SUBSET DOMAIN dump
  OBVIOUS
<1>2. Heard = Kept(dump, I)
  BY Zenon DEF Heard
<1> HIDE DEF I
<1> QED
  BY <1>1, <1>2, KeptInOrder

(* A signal is one the constructor lets through, and to within one dBm     *)
(* what was measured if that can be told at all.                           *)
LEMMA SignalIsNear ==
  ASSUME NEW mbm \in Int
  PROVE  SignalOf(mbm) \in -255..-1 /\ SignalIsTold(SignalOf(mbm), mbm)
<1> DEFINE q == Quotient(mbm, 100)
<1>1. q \in Int
  BY DEF Quotient
<1>2. todBm(q) \in -255..-1
  <2> HIDE DEF q
  <2>1. CASE q \in -254..-1
    BY <2>1 DEF todBm
  <2>2. CASE q \in 1..99
    <3>1. Quotient(q * 69, 100) \in 0..68
      BY <2>2 DEF Quotient
    <3>2. todBm(q) = Quotient(q * 69, 100) - 90
      BY <2>2 DEF todBm
    <3> QED
      BY <3>1, <3>2
  <2>3. CASE q \notin -254..-1 /\ q \notin 1..99
    <3>1. todBm(q) = -255
      BY <2>3 DEF todBm
    <3> QED
      BY <3>1
  <2> QED
    BY <2>1, <2>2, <2>3
<1>3. ASSUME Between(mbm, -25499, -100)
      PROVE  -100 < todBm(q) * 100 - mbm /\ todBm(q) * 100 - mbm < 100
  <2>1. /\ q \in -254..-1
        /\ -100 < q * 100 - mbm /\ q * 100 - mbm < 100
    <3> DEFINE d == (-mbm) \div 100
    <3> DEFINE e == -mbm
    <3>0. e \in Int /\ 100 <= e /\ e <= 25499
      BY <1>3 DEF Between
    <3> HIDE DEF e
    <3>1. e \div 100 \in 1..254 /\ 100 * (e \div 100) <= e
          /\ e < 100 * (e \div 100) + 100
      BY <3>0
    <3>2. q = -d
      BY <1>3 DEF Quotient, Between
    <3> HIDE DEF d, q
    <3>3. e = -mbm /\ d = e \div 100
      BY DEF d, e
    <3> QED
      BY <3>1, <3>2, <3>3
  <2>2. todBm(q) = q
    BY <2>1 DEF todBm
  <2> QED
    BY <2>1, <2>2
<1>4. SignalOf(mbm) = todBm(q)
  BY DEF SignalOf
<1>5. SignalIsTold(todBm(q), mbm)
  BY <1>3 DEF SignalIsTold
<1> HIDE DEF q
<1> QED
  BY <1>2, <1>4, <1>5

(* The bytes of a MAC are turned round twice.                              *)
LEMMA MacComesBack ==
  ASSUME NEW b \in [1..6 -> 0..255]
  PROVE  MacText(toMAC(b)) = b
<1>1. Len(b) = 6
  <2>1. b = [i \in 1..6 |-> b[i]] /\ DOMAIN b = 1..6
    OBVIOUS
  <2> QED
    BY <2>1, FunctionIsSeq
<1>2. toMAC(b) = [i \in 1..6 |-> b[(6 - i) + 1]]
  BY <1>1 DEF toMAC, Reverse
<1>3. \A i \in 1..6 : toMAC(b)[7 - i] = b[i]
  BY <1>2
<1>4. MacText(toMAC(b)) = [i \in 1..6 |-> b[i]]
  BY <1>3, Zenon DEF MacText
<1> QED
  BY <1>4

(* The SSID is the first of the elements.                                  *)
LEMMA SsidIsFirst ==
  ASSUME NEW b \in Bss
  PROVE  Ssid(b.elements) = FirstSsid(b)
<1> DEFINE at == {i \in DOMAIN b.elements : b.elements[i].type = 0}
<1>1. Min(at) = CHOOSE i \in at : \A j \in at : i <= j
  BY Zenon DEF Min
<1> QED
  BY <1>1, Zenon DEF Ssid, FirstSsid

(* What an access point and its element in the request hold.               *)
LEMMA AccessPointIs ==
  /\ \A b, t : /\ AccessPoint(b, t).mac = toMAC(b.bssid)
               /\ AccessPoint(b, t).rssi = SignalOf(b.signal)
               /\ AccessPoint(b, t).timestamp = Reset(t, b.seen)
               /\ AccessPoint(b, t).ssid = Ssid(b.elements)
  /\ \A ap : /\ xAccessPoint(ap).mac = MacText(ap.mac)
             /\ xAccessPoint(ap).ssid =
                  IF ap.ssid # <<>> /\ xmlUtf8Test(ap.ssid)
                  THEN <<xmlEscape(ap.ssid)>> ELSE <<>>
             /\ xAccessPoint(ap).signalStrength = ap.rssi
             /\ xAccessPoint(ap).age = Age(ap.timestamp, 1)
  BY DEF AccessPoint, xAccessPoint

(* It is a sequence of bytes, and what is told of it is read as it was.    *)
LEMMA SsidIsBytes ==
  ASSUME NEW b \in Bss
  PROVE  FirstSsid(b) \in Seq(Byte)
<1> DEFINE Element == [type : 0..255, data : Seq(Byte)]
           at == {i \in DOMAIN b.elements : b.elements[i].type = 0}
<1>1. b.elements \in Seq(Element)
  <2>1. b.elements \in Seq([type : 0..255, data : Seq(0..255)])
    BY DEF Bss
  <2> QED
    BY <2>1 DEF Byte
<1>2. CASE at = {}
  <2>1. FirstSsid(b) = <<>>
    BY <1>2, Zenon DEF FirstSsid
  <2> QED
    BY <2>1
<1>3. CASE at # {}
  <2> DEFINE i == Min(at)
  <2>1. at \in SUBSET Nat
    BY <1>1
  <2>2. i \in at
    <3> HIDE DEF at
    <3> QED
      BY <1>3, <2>1, Least
  <2>3. FirstSsid(b) = b.elements[i].data
    BY <1>3, Zenon DEF FirstSsid, Min
  <2> HIDE DEF i, Element
  <2>4. i \in DOMAIN b.elements
    BY <2>2
  <2>5. b.elements[i] \in Element
    BY <1>1, <2>4
  <2>6. b.elements[i].data \in Seq(Byte)
    BY <2>5 DEF Element
  <2> QED
    BY <2>3, <2>6
<1> QED
  BY <1>2, <1>3

LEMMA NameIsTold ==
  ASSUME NEW b \in Bss, NEW t
  PROVE  LET name == FirstSsid(b)
             told == xAccessPoint(AccessPoint(b, t)).ssid
         IN /\ told # <<>> <=> name # <<>> /\ IsXmlText(name)
            /\ told # <<>> =>
                 /\ AsRead(Head(told)) = LineEnds(name)
                 /\ AsRead(Head(told)) = name
                      <=> \A j \in DOMAIN name : name[j] # 13
<1> DEFINE name == FirstSsid(b)
           ap == AccessPoint(b, t)
           told == xAccessPoint(ap).ssid
<1>1. ap.ssid = name
  BY AccessPointIs, SsidIsFirst
<1>2. name \in Seq(Byte)
  BY SsidIsBytes
<1> HIDE DEF ap, name
<1>3. told = IF name # <<>> /\ xmlUtf8Test(name) THEN <<xmlEscape(name)>>
             ELSE <<>>
  BY <1>1, AccessPointIs
<1>4. /\ xmlUtf8Test(name) <=> IsXmlText(name)
      /\ AsRead(xmlEscape(name)) = LineEnds(name)
      /\ AsRead(xmlEscape(name)) = name
           <=> \A j \in DOMAIN name : name[j] # 13
  <2>1. DOMAIN name = 1..Len(name)
    BY <1>2
  <2> QED
    BY <1>2, <2>1, TestIsExact, EscapedIsRead, Zenon
<1> HIDE DEF told
<1>5. CASE name # <<>> /\ xmlUtf8Test(name)
  <2>1. told # <<>> /\ Head(told) = xmlEscape(name)
    BY <1>3, <1>5
  <2> QED
    BY <1>4, <1>5, <2>1 DEF told, ap, name
<1>6. CASE ~(name # <<>> /\ xmlUtf8Test(name))
  <2>1. told = <<>>
    BY <1>3, <1>6
  <2> QED
    BY <1>4, <1>6, <2>1 DEF told, ap, name
<1> QED
  BY <1>5, <1>6

(* Its timer tells how long ago it was heard, by the clock of the host.    *)
LEMMA AgeOfBeacon ==
  ASSUME now \in Nat, clock \in Nat, NEW m \in Moments, NEW seen \in Nat,
         NEW least
  PROVE  AgeIs(Age(Reset(TickAt(m), seen), least), Since(m) + seen, least)
<1> DEFINE x == now + clock
           y == m.now + m.clock
           age == Since(m) + seen
<1>1. /\ x \in Int /\ y \in Int /\ y - seen \in Int
      /\ x - (y - seen) = age
  BY DEF Moments, Since
<1>2. Tick = x % Modulus /\ TickAt(m) = y % Modulus
  BY DEF Tick, TickAt
<1> HIDE DEF x, y, age
<1>3. y % Modulus \in Int /\ seen \in Int
  BY <1>1, ModulusIs, ModFacts
<1>4. ((y % Modulus) - seen) % Modulus = (y - seen) % Modulus
  <2>1. ((y % Modulus) - (seen % Modulus)) % Modulus = (y - seen) % Modulus
    BY <1>1, <1>3, ModulusIs, ModDifference
  <2>2. ((y % Modulus) - (seen % Modulus)) % Modulus
          = ((y % Modulus) - seen) % Modulus
    BY <1>3, ModulusIs, ModDifferenceLeft
  <2> QED
    BY <2>1, <2>2
<1>5. Reset(TickAt(m), seen) = (y - seen) % Modulus
  BY <1>2, <1>4 DEF Reset
<1>6. age \in -Half..(Half - 1) => Delta(Tick, Reset(TickAt(m), seen)) = age
  BY <1>1, <1>2, <1>5, DeltaIsTheDifference
<1> QED
  BY <1>6, Zenon DEF AgeIs, Age, age

-----------------------------------------------------------------------------
(* Making the request.                                                     *)

(* The access points' elements.                                            *)
LEMMA AccessPointsStep ==
  ASSUME TimeInv, ApsInv, LocationRQ
  PROVE  AccessPointsAreTold' /\ SsidsAreTold' /\ AccessPointAges'
<1>1. /\ request'.aps = [i \in DOMAIN aps |-> xAccessPoint(aps[i])]
      /\ stage = "request" /\ UNCHANGED <<dump, now, clock, scanAt>>
  BY DEF LocationRQ, worldVars
<1> DEFINE n == Len(Heard)
<1>2. n \in Nat /\ DOMAIN Heard = 1..n /\ \A i \in 1..n : Heard[i] \in Bss
  BY HeardAre DEF ApsInv
<1>3. aps = [i \in 1..n |-> AccessPoint(Heard[i], TickAt(scanAt))]
  BY <1>1, <1>2 DEF ApsInv
<1> HIDE DEF n
<1>4. /\ DOMAIN request'.aps = 1..n
      /\ request'.aps = [i \in 1..n |-> request'.aps[i]]
      /\ \A i \in 1..n : request'.aps[i] =
           xAccessPoint(AccessPoint(Heard[i], TickAt(scanAt)))
  BY <1>1, <1>3
<1>5. Len(request'.aps) = n
  BY <1>2, <1>4, FunctionIsSeq
<1>6. ASSUME NEW i \in 1..n
      PROVE  /\ request'.aps[i].mac = Heard[i].bssid
             /\ request'.aps[i].signalStrength = SignalOf(Heard[i].signal)
             /\ request'.aps[i].age =
                  Age(Reset(TickAt(scanAt), Heard[i].seen), 1)
  <2>1. Heard[i].bssid \in [1..6 -> 0..255]
    BY <1>2 DEF Bss
  <2>2. MacText(toMAC(Heard[i].bssid)) = Heard[i].bssid
    BY <2>1, MacComesBack
  <2> DEFINE ap == AccessPoint(Heard[i], TickAt(scanAt))
  <2>3. request'.aps[i] = xAccessPoint(ap)
    BY <1>4
  <2>4. /\ ap.mac = toMAC(Heard[i].bssid)
        /\ ap.rssi = SignalOf(Heard[i].signal)
        /\ ap.timestamp = Reset(TickAt(scanAt), Heard[i].seen)
    BY AccessPointIs
  <2> HIDE DEF ap
  <2>5. /\ xAccessPoint(ap).mac = MacText(ap.mac)
        /\ xAccessPoint(ap).signalStrength = ap.rssi
        /\ xAccessPoint(ap).age = Age(ap.timestamp, 1)
    BY AccessPointIs
  <2> QED
    BY <2>2, <2>3, <2>4, <2>5
<1>7. ASSUME NEW i \in 1..n
      PROVE  SignalIsTold(request'.aps[i].signalStrength, Heard[i].signal)
  <2>1. Heard[i].signal \in Int
    BY <1>2 DEF Bss
  <2> QED
    BY <1>6, <2>1, SignalIsNear, Zenon
<1>8. ASSUME NEW i \in 1..n
      PROVE  AgeIs(request'.aps[i].age, Since(scanAt) + Heard[i].seen, 1)
  <2>1. Heard[i].seen \in Nat
    BY <1>2 DEF Bss
  <2> QED
    BY <1>6, <2>1, AgeOfBeacon DEF TimeInv, ApsInv
<1>9. Heard' = Heard /\ Since(scanAt)' = Since(scanAt)
  BY <1>1 DEF Heard, Since
<1>10. AccessPointsAreTold'
  BY <1>2, <1>5, <1>6, <1>7, <1>9, Zenon DEF AccessPointsAreTold, n
<1>11. AccessPointAges'
  BY <1>4, <1>8, <1>9, Zenon DEF AccessPointAges
<1>12. SsidsAreTold'
  <2>1. \A i \in 1..n :
          LET name == FirstSsid(Heard[i])
              told == request'.aps[i].ssid
          IN /\ told # <<>> <=> name # <<>> /\ IsXmlText(name)
             /\ told # <<>> =>
                  /\ AsRead(Head(told)) = LineEnds(name)
                  /\ AsRead(Head(told)) = name
                       <=> \A j \in DOMAIN name : name[j] # 13
    BY <1>2, <1>4, NameIsTold
  <2> QED
    BY <1>4, <1>9, <2>1, Zenon DEF SsidsAreTold
<1> QED
  BY <1>10, <1>11, <1>12

(* The request tells what has been taken.                                  *)
LEMMA LocationRQStep ==
  ASSUME CellInv, TimeInv, FixInv, TakenInv, ApsInv, LocationRQ
  PROVE  SentInv'
<1>1. /\ request'.cells =
           [i \in DOMAIN scan.cells |-> xCellTower(scan.cells[i])]
      /\ request'.gps = [i \in DOMAIN scan.gps |-> xGPSLocation(scan.gps[i])]
  BY DEF LocationRQ
<1>2. /\ UNCHANGED <<scan, scannedCells, cellAt, fixAt, fixes, now, clock>>
  BY DEF LocationRQ, cellVars, fixVars, worldVars
<1>3. now \in Nat /\ clock \in Nat /\ cellAt \in Moments
  BY DEF TimeInv
<1> DEFINE k == Len(scan.cells)
           l == Len(scan.gps)
<1>4. /\ DOMAIN scan.cells = 1..k /\ k \in 0..1
      /\ \A i \in 1..k : i = 1 /\ scan.cells[i] = Head(scan.cells)
                         /\ IsTower(Head(scan.cells).cell)
  <2>1. CASE scan.cells = <<>>
    BY <2>1
  <2>2. CASE scan.cells # <<>>
    <3> DEFINE h == Head(scan.cells)
    <3>1. scan.cells = <<h>> /\ IsTower(h.cell)
      BY <2>2 DEF TakenInv
    <3> HIDE DEF h
    <3>2. k = 1 /\ DOMAIN scan.cells = 1..1 /\ scan.cells[1] = h
      BY <3>1
    <3> QED
      BY <3>1, <3>2 DEF h
  <2> QED
    BY <2>1, <2>2
<1>5. DOMAIN scan.gps = 1..l /\ l \in Nat /\ l <= Len(fixes)
  BY DEF TakenInv
<1>6. Len(request'.cells) = k /\ DOMAIN request'.cells = 1..k
  <2>1. DOMAIN request'.cells = 1..k
        /\ request'.cells = [i \in 1..k |-> request'.cells[i]]
    BY <1>1, <1>4
  <2> QED
    BY <1>4, <2>1, FunctionIsSeq
<1>7. Len(request'.gps) = l /\ DOMAIN request'.gps = 1..l
  <2>1. DOMAIN request'.gps = 1..l
        /\ request'.gps = [i \in 1..l |-> request'.gps[i]]
    BY <1>1, <1>5
  <2> QED
    BY <1>5, <2>1, FunctionIsSeq
<1>8. \A i \in 1..k : request'.cells[i] = xCellTower(scan.cells[i])
  BY <1>1, <1>4
<1>9. \A i \in 1..l : request'.gps[i] = xGPSLocation(scan.gps[i])
  BY <1>1, <1>5
<1>10. CellsAreTold'
  <2>1. \A i \in 1..k :
          request'.cells[i].lac = <<>> <=> scan.cells[i].cell.lac = -1
    <3> SUFFICES ASSUME NEW i \in 1..k
                 PROVE  request'.cells[i].lac = <<>>
                        <=> scan.cells[i].cell.lac = -1
      OBVIOUS
    <3> DEFINE c == scan.cells[i].cell
    <3>1. IsTower(c)
      BY <1>4
    <3>2. request'.cells[i].lac =
            IF c.type \in {"GSM", "UMTS"} THEN <<c.lac>> ELSE <<>>
      BY <1>8, Elements, Zenon
    <3>3. c.type \in {"GSM", "UMTS", "LTE"}
      BY <3>1, Zenon DEF IsTower
    <3>4. c.type # "LTE" => c.lac \in Nat
      BY <3>1, Zenon DEF IsTower
    <3>5. c.type = "LTE" => c.lac = -1
      BY <3>1, Zenon DEF IsTower
    <3> HIDE DEF c
    <3>6. request'.cells[i].lac = <<>> <=> c.lac = -1
      BY <3>2, <3>3, <3>4, <3>5
    <3> QED
      BY <3>6 DEF c
  <2> QED
    BY <1>2, <1>4, <1>6, <2>1 DEF CellsAreTold
<1>11. FixesAreTold'
  <2>1. \A i \in 1..l : /\ request'.gps[i].at = i
                        /\ "altitude" \in request'.gps[i].says <=> i > 1
    <3> SUFFICES ASSUME NEW i \in 1..l
                 PROVE  /\ request'.gps[i].at = i
                        /\ "altitude" \in request'.gps[i].says <=> i > 1
      OBVIOUS
    <3>1. /\ scan.gps[i].gpsTime = i
          /\ "altitude" \in scan.gps[i].has <=> i > 1
      BY <1>5 DEF TakenInv, FixInv
    <3>2. /\ request'.gps[i].at = scan.gps[i].gpsTime
          /\ request'.gps[i].says = scan.gps[i].has
      BY <1>9, Elements, Zenon
    <3> QED
      BY <3>1, <3>2, Zenon
  <2> QED
    BY <1>2, <1>7, <2>1 DEF FixesAreTold
<1>12. CellAges'
  <2>1. ASSUME NEW i \in 1..k, scan.cells = scannedCells
        PROVE  AgeIs(request'.cells[i].age, Since(cellAt), 1)
    <3>1. scan.cells[i].timestamp = TickAt(cellAt)
      BY <1>4, <2>1 DEF CellInv, TimeInv
    <3>2. request'.cells[i].age = Age(scan.cells[i].timestamp, 1)
      BY <1>8, Elements, Zenon
    <3> QED
      BY <1>3, <3>1, <3>2, AgeIsTrue
  <2>2. Since(cellAt)' = Since(cellAt)
    BY <1>2 DEF Since
  <2> QED
    BY <1>2, <1>6, <2>1, <2>2, Zenon DEF CellAges
<1>13. FixAges'
  <2>1. ASSUME NEW i \in 1..l
        PROVE  AgeIs(request'.gps[i].age, Since(fixAt[i]), 0)
    <3>1. scan.gps[i].localTime = TickAt(fixAt[i]) /\ fixAt[i] \in Moments
      BY <1>5 DEF TakenInv, FixInv
    <3>2. request'.gps[i].age = Age(scan.gps[i].localTime, 0)
      BY <1>9, Elements, Zenon
    <3> QED
      BY <1>3, <3>1, <3>2, AgeIsTrue
  <2>2. \A m : (Since(m))' = Since(m)
    BY <1>2 DEF Since
  <2> QED
    BY <1>2, <1>7, <2>1, <2>2, Zenon DEF FixAges
<1> QED
  BY <1>10, <1>11, <1>12, <1>13, AccessPointsStep DEF SentInv

-----------------------------------------------------------------------------
(* The parts on access points, interfaces and counts, in each step.        *)

(* A dump ends the process if an access point of it lacks its elements.    *)
LEMMA DumpBreaksIs ==
  DumpBreaks <=> \E i \in DOMAIN dump : LacksElements(dump[i])
  BY Zenon DEF DumpBreaks, LacksElements, IsTaken

(* The access points of the dump, at the tick of the scan.                 *)
LEMMA OnScanCompletedStep ==
  ASSUME ApsInv, TimeInv, OnScanCompleted, stage' # "crashed"
  PROVE  ApsInv'
<1> DEFINE taken == Kept(dump, {i \in DOMAIN dump : IsTaken(dump[i])})
<1>1. /\ aps' = [i \in DOMAIN taken |-> AccessPoint(taken[i], Tick)]
      /\ scanAt' = Moment /\ dump' = dump
      /\ \A i \in DOMAIN dump : ~LacksElements(dump[i])
  BY Zenon DEF OnScanCompleted, worldVars
<1>2. taken = Heard
  BY HeardAreTaken
<1>3. Moment \in Moments /\ TickAt(Moment) = Tick
  BY MomentIs DEF TimeInv
<1> HIDE DEF taken
<1>4. aps' = [i \in DOMAIN Heard |-> AccessPoint(Heard[i], TickAt(Moment))]
  BY <1>1, <1>2, <1>3
<1>5. Heard' = Heard
  BY <1>1 DEF Heard
<1>6. \A m : TickAt(m)' = TickAt(m)
  BY DEF TickAt
<1>7. ~DumpBreaks'
  BY <1>1, DumpBreaksIs DEF DumpBreaks
<1> QED
  BY <1>1, <1>3, <1>4, <1>5, <1>6, <1>7 DEF ApsInv

LEMMA ApsStep ==
  ASSUME ApsInv, TimeInv, [Next]_vars
  PROVE  ApsInv'
<1>1. CASE OnScanCompleted /\ stage' # "crashed"
  BY <1>1, OnScanCompletedStep
<1>2. ASSUME ~(OnScanCompleted /\ stage' # "crashed")
      PROVE  /\ UNCHANGED <<aps, dump, scanAt>>
             /\ stage' # stage => \/ stage' \in {"scan", "failed", "crashed"}
                                  \/ stage \in {"fixes", "cells", "request"}
  <2>1. CASE NewInstance
    BY <2>1 DEF NewInstance, AfterInit, worldVars
  <2>2. CASE GetFixes \/ GetScannedCells \/ LocationRQ
    BY <2>2 DEF GetFixes, GetScannedCells, LocationRQ, worldVars
  <2>3. CASE OnScanCompleted
    BY <1>2, <2>3 DEF OnScanCompleted, worldVars
  <2>4. CASE PropertyChanged
    BY <2>4 DEF PropertyChanged, toldVars, worldVars
  <2>5. CASE OnGpsData \/ Pass \/ SetClock
    BY <2>5 DEF OnGpsData, Pass, SetClock, callVars, toldVars, worldVars
  <2>6. CASE UNCHANGED vars
    BY <2>6 DEF vars, callVars, toldVars, worldVars
  <2> QED
    BY <2>1, <2>2, <2>3, <2>4, <2>5, <2>6 DEF Next, Call, World
<1>3. CASE ~(OnScanCompleted /\ stage' # "crashed")
  BY <1>2, <1>3, ApsFrame
<1> QED
  BY <1>1, <1>3

LEMMA InterfaceStep ==
  ASSUME InterfaceInv, [Next]_vars
  PROVE  InterfaceInv'
<1>1. CASE NewInstance /\ stage' # "crashed"
  <2>1. /\ interface' = Chosen(interfaces) /\ interfaces' = interfaces
        /\ interface' # NoName
    BY <1>1, Zenon DEF NewInstance, worldVars
  <2>2. Chosen(interfaces)' = Chosen(interfaces)
    BY <2>1 DEF Chosen
  <2> QED
    BY <2>1, <2>2, Zenon DEF InterfaceInv
<1>2. ASSUME ~(NewInstance /\ stage' # "crashed")
      PROVE  /\ UNCHANGED <<interface, interfaces>>
             /\ stage \in {"open", "crashed"} =>
                  stage' \in {"open", "crashed"}
  <2>1. CASE NewInstance
    <3>1. stage' = "crashed" /\ stage = "open"
      BY <1>2, <2>1, Zenon DEF NewInstance
    <3>2. UNCHANGED interface
      <4>1. stage' \in {"failed", "scan"} => stage' # "crashed"
        OBVIOUS
      <4>2. Chosen(interfaces) # NoName => stage' \in {"failed", "scan"}
              \/ UNCHANGED interface
        BY <2>1 DEF NewInstance, AfterInit
      <4>3. Chosen(interfaces) = NoName => UNCHANGED interface
        BY <2>1 DEF NewInstance
      <4> QED
        BY <3>1, <4>1, <4>2, <4>3
    <3> QED
      BY <2>1, <3>1, <3>2, Zenon DEF NewInstance, worldVars
  <2>2. CASE OnScanCompleted \/ GetFixes \/ GetScannedCells \/ LocationRQ
    BY <2>2 DEF OnScanCompleted, GetFixes, GetScannedCells, LocationRQ,
                worldVars
  <2>3. CASE PropertyChanged
    BY <2>3 DEF PropertyChanged, toldVars, worldVars
  <2>4. CASE OnGpsData \/ Pass \/ SetClock
    BY <2>4 DEF OnGpsData, Pass, SetClock, callVars, toldVars, worldVars
  <2>5. CASE UNCHANGED vars
    BY <2>5 DEF vars, callVars, toldVars, worldVars
  <2> QED
    BY <2>1, <2>2, <2>3, <2>4, <2>5 DEF Next, Call, World
<1>3. CASE ~(NewInstance /\ stage' # "crashed")
  BY <1>2, <1>3, InterfaceFrame
<1> QED
  BY <1>1, <1>3

(* Why the process comes to its end.                                       *)
LEMMA NamelessFirstIs ==
  ASSUME InterfaceInv
  PROVE  NamelessFirst <=> Chosen(interfaces) = NoName
<1> DEFINE others == {i \in DOMAIN interfaces :
                        interfaces[i] \notin P2pNames}
<1>1. Chosen(interfaces) =
        IF interfaces = <<>> THEN ""
        ELSE interfaces[IF others = {} THEN Len(interfaces) ELSE Min(others)]
  BY Zenon DEF Chosen
<1> DEFINE Name == STRING \ {""}
<1>2. interfaces \in Seq(Name)
  BY Zenon DEF InterfaceInv
<1> HIDE DEF Name
<1>3. /\ DOMAIN interfaces = 1..Len(interfaces) /\ Len(interfaces) \in Nat
      /\ interfaces # <<>> => Len(interfaces) \in DOMAIN interfaces
      /\ DOMAIN interfaces # {} => interfaces # <<>>
  BY <1>2
<1>4. others # {} => /\ Min(others) \in others
                     /\ \A j \in others : Min(others) <= j
  <2>1. others \in SUBSET Nat
    BY <1>3
  <2> HIDE DEF others
  <2> QED
    BY <2>1, Least
<1>5. /\ others \subseteq DOMAIN interfaces
      /\ \A i \in DOMAIN interfaces :
           i \in others <=> interfaces[i] \notin P2pNames
  OBVIOUS
<1> HIDE DEF others
<1>6. NoName \notin P2pNames /\ NoName # ""
  BY RadiosAssumption DEF NoName
<1>7. ASSUME NEW i \in DOMAIN interfaces, interfaces[i] = NoName,
             \A j \in 1..(i - 1) : interfaces[j] \in P2pNames
      PROVE  Chosen(interfaces) = NoName
  <2>1. i \in others /\ interfaces # <<>>
    BY <1>3, <1>5, <1>6, <1>7
  <2>2. Min(others) \in DOMAIN interfaces /\ Min(others) <= i
        /\ interfaces[Min(others)] \notin P2pNames
    BY <1>4, <1>5, <2>1
  <2>3. Min(others) \notin 1..(i - 1)
    BY <1>7, <2>2
  <2>4. Min(others) = i
    BY <1>3, <2>2, <2>3
  <2> QED
    BY <1>1, <1>7, <2>1, <2>4
<1>8. ASSUME Chosen(interfaces) = NoName PROVE NamelessFirst
  <2> DEFINE i == Min(others)
  <2>1. interfaces # <<>>
    BY <1>1, <1>6, <1>8
  <2>2. others # {}
    <3>1. CASE others = {}
      <4>1. interfaces[Len(interfaces)] = NoName
        BY <1>1, <1>8, <2>1, <3>1
      <4>2. Len(interfaces) \in others
        BY <1>3, <1>5, <1>6, <2>1, <4>1
      <4> QED
        BY <3>1, <4>2
    <3> QED
      BY <3>1
  <2>3. i \in DOMAIN interfaces /\ interfaces[i] = NoName
        /\ \A j \in others : i <= j
    BY <1>1, <1>4, <1>5, <1>8, <2>1, <2>2
  <2> HIDE DEF i
  <2>4. ASSUME NEW j \in 1..(i - 1) PROVE interfaces[j] \in P2pNames
    <3>1. j \in DOMAIN interfaces /\ ~(i <= j)
      BY <1>3, <2>3
    <3> QED
      BY <1>5, <2>3, <3>1, Zenon
  <2> QED
    BY <2>3, <2>4, Zenon DEF NamelessFirst
<1> QED
  BY <1>7, <1>8, Zenon DEF NamelessFirst

LEMMA CrashStep ==
  ASSUME CellInv, CrashInv, TimeInv, InterfaceInv, [Next]_vars
  PROVE  CrashInv'
<1>1. CASE NewInstance
  <2>1. /\ UNCHANGED <<interfaces, dump, modems>>
        /\ stage' = "crashed" => Chosen(interfaces) = NoName
    BY <1>1 DEF NewInstance, AfterInit, cellVars, worldVars
  <2>2. NamelessFirst' = NamelessFirst
    BY <2>1 DEF NamelessFirst
  <2> QED
    BY <2>1, <2>2, NamelessFirstIs, Zenon DEF CrashInv
<1>2. CASE OnScanCompleted
  <2>1. /\ dump' = dump
        /\ stage' = "crashed" =>
             \E i \in DOMAIN dump : LacksElements(dump[i])
    BY <1>2 DEF OnScanCompleted, worldVars
  <2>2. DumpBreaks' = DumpBreaks
    BY <2>1 DEF DumpBreaks
  <2> QED
    BY <2>1, <2>2, DumpBreaksIs, Zenon DEF CrashInv
<1>3. CASE PropertyChanged
  BY <1>3, PropertyChangedStep
<1>4. CASE \/ GetFixes \/ GetScannedCells \/ LocationRQ
           \/ OnGpsData \/ Pass \/ SetClock \/ UNCHANGED vars
  <2>1. /\ UNCHANGED <<interfaces, dump, modems>>
        /\ stage' = "crashed" => stage = "crashed"
    BY <1>4 DEF GetFixes, GetScannedCells, LocationRQ, OnGpsData, Pass,
                SetClock, vars, callVars, cellVars, worldVars
  <2> QED
    BY <2>1, CrashFrame
<1> QED
  BY <1>1, <1>2, <1>3, <1>4 DEF Next, Call, World

LEMMA CountStep ==
  ASSUME CountInv, FixInv, [Next]_vars
  PROVE  CountInv'
<1>1. MaxEvents \in Nat /\ MaxFixes \in Nat
  BY RequestAssumption
<1>2. CASE Call
  <2>1. UNCHANGED <<events, now, fixes>>
    BY <1>2 DEF Call, NewInstance, OnScanCompleted, GetFixes, GetScannedCells,
                LocationRQ, worldVars, fixVars
  <2>2. stage' \in {"scan", "fixes", "cells", "request", "sent", "failed",
                    "crashed"}
    BY <1>2 DEF Call, NewInstance, OnScanCompleted, GetFixes, GetScannedCells,
                LocationRQ, AfterInit
  <2> QED
    BY <2>1, <2>2 DEF CountInv
<1>3. CASE World
  <2>1. /\ stage' \in {stage, "crashed"}
        /\ events < MaxEvents /\ events' = events + 1
        /\ now' = now \/ now' = now + 1
    BY <1>3 DEF World, PropertyChanged, OnGpsData, Pass, SetClock, Event,
                callVars, worldVars
  <2>2. fixes' = fixes \/ Len(fixes') <= MaxFixes
    <3>1. CASE OnGpsData
      <4>1. PICK time \in 1..MaxFixes :
              \/ UNCHANGED fixVars
              \/ /\ time = Len(fixes) + 1
                 /\ fixes' = Append(fixes, [gpsTime |-> time,
                      localTime |-> Tick,
                      has |-> IF time = 1 THEN {}
                              ELSE {"altitude", "height"}])
        BY <3>1, Zenon DEF OnGpsData
      <4> DEFINE f == [gpsTime |-> time, localTime |-> Tick,
                       has |-> IF time = 1 THEN {} ELSE {"altitude", "height"}]
      <4> HIDE DEF f
      <4>2. CASE UNCHANGED fixVars
        BY <4>2 DEF fixVars
      <4>3. CASE time = Len(fixes) + 1 /\ fixes' = Append(fixes, f)
        <5>1. Len(fixes') = Len(fixes) + 1
          BY <4>3 DEF FixInv
        <5> QED
          BY <1>1, <4>3, <5>1
      <4> QED
        BY <4>1, <4>2, <4>3 DEF f
    <3>2. CASE PropertyChanged \/ Pass \/ SetClock
      BY <3>2 DEF PropertyChanged, Pass, SetClock, fixVars
    <3> QED
      BY <1>3, <3>1, <3>2 DEF World
  <2> QED
    BY <1>1, <2>1, <2>2 DEF CountInv
<1>4. CASE UNCHANGED vars
  BY <1>4 DEF vars, callVars, worldVars, fixVars, CountInv
<1> QED
  BY <1>2, <1>3, <1>4 DEF Next

-----------------------------------------------------------------------------
(* The invariant holds in the beginning and is kept.                       *)

LEMMA InitInv == Init => IInv
<1> SUFFICES ASSUME Init PROVE IInv
  OBVIOUS
<1>1. PICK place \in Places : modems = place.modems
  BY Zenon DEF Init
<1>2. modems \in Seq(Modem)
  BY <1>1, ModemsAssumption DEF Modem
<1>3. /\ now = 0 /\ clock \in Nat /\ stage \in {"open", "crashed"}
      /\ currentModem = getCurrentModem(modems)
      /\ scannedCells = lastCell /\ cellAt = Moment
      /\ fixes = <<>> /\ fixAt = <<>> /\ scan = [gps |-> <<>>, cells |-> <<>>]
  BY RequestAssumption DEF Init
<1> DEFINE n == modems[currentModem].network
<1>4. \/ /\ currentModem = 0
         /\ stage = "open" /\ lastCell = <<>>
      \/ /\ currentModem # 0 /\ FailsAssertion(n)
         /\ stage = "crashed" /\ lastCell = <<>>
      \/ /\ currentModem # 0 /\ ~FailsAssertion(n)
         /\ stage = "open" /\ lastCell = ScannedCells(n, Tick)
  BY Zenon DEF Init
<1>5. Moment \in Moments /\ TickAt(Moment) = Tick
  BY <1>3, MomentIs
<1>6. currentModem # 0 => n \in Registration
  <2> SUFFICES ASSUME currentModem # 0 PROVE n \in Registration
    OBVIOUS
  <2>1. currentModem \in DOMAIN modems
    BY <1>2, <1>3, CurrentModemIsFirst
  <2> QED
    BY <1>2, <2>1, NetworkType
<1>7. /\ CellInv /\ CrashInv
      /\ lastCell # <<>> => Head(lastCell).timestamp = Tick
  <2> HIDE DEF n
  <2>1. CASE currentModem = 0
    <3>1. stage = "open" /\ lastCell = <<>>
      BY <1>4, <2>1
    <3>2. CellInv
      BY <1>2, <1>3, <2>1, <3>1, Zenon DEF CellInv, IsKnown
    <3> QED
      BY <3>1, <3>2 DEF CrashInv
  <2>2. CASE currentModem # 0 /\ FailsAssertion(n)
    <3>1. stage = "crashed" /\ lastCell = <<>>
      BY <1>4, <2>2
    <3>2. CellInv
      BY <1>2, <1>3, <2>2, <3>1, Zenon DEF CellInv, IsKnown
    <3>3. AreaIsTooBig(n)
      BY <1>6, <2>2, TowerOfNetwork
    <3>4. AreaBreaks
      BY <1>2, <1>3, <2>2, <3>3, AreaBreaksIs, Zenon DEF n
    <3> QED
      BY <3>1, <3>2, <3>4 DEF CrashInv
  <2>3. CASE currentModem # 0 /\ ~FailsAssertion(n)
    <3>1. stage = "open" /\ lastCell = ScannedCells(n, Tick)
      BY <1>4, <2>3
    <3>2. /\ Says(lastCell, n)
          /\ lastCell # <<>> => Head(lastCell).timestamp = Tick
      BY <1>6, <2>3, <3>1, ScannedCellsSay
    <3>3. IsKnown(lastCell)
      BY <3>2, Zenon DEF Says, IsKnown, IsOf
    <3>4. ~AreaIsTooBig(n)
      BY <1>6, <2>3, TowerOfNetwork
    <3>5. CellInv
      BY <1>2, <1>3, <2>3, <3>2, <3>3, <3>4, Zenon DEF CellInv, n
    <3> QED
      BY <3>1, <3>2, <3>5 DEF CrashInv
  <2> QED
    BY <2>1, <2>2, <2>3
<1>9. TimeInv
  BY <1>3, <1>5, <1>7 DEF TimeInv
<1>10. FixInv /\ TakenInv
  BY <1>3 DEF FixInv, TakenInv
<1>11. SentInv
  BY <1>3 DEF SentInv
<1>12. ApsInv
  <2>1. aps = <<>> /\ scanAt \in Moments
    BY <1>3, <1>5 DEF Init
  <2>2. dump \in Seq(Bss)
    BY RadiosAssumption DEF Init
  <2> QED
    BY <1>3, <2>1, <2>2 DEF ApsInv
<1>13. InterfaceInv
  BY <1>3, RadiosAssumption DEF InterfaceInv, Init
<1>14. CountInv
  <2>1. events = 0 /\ MaxEvents \in Nat /\ MaxFixes \in Nat /\ Len(fixes) = 0
    BY <1>3, RequestAssumption DEF Init
  <2> QED
    BY <1>3, <2>1 DEF CountInv
<1> QED
  BY <1>7, <1>9, <1>10, <1>11, <1>12, <1>13, <1>14 DEF IInv

LEMMA StepInv == IInv /\ [Next]_vars => IInv'
<1> SUFFICES ASSUME IInv, [Next]_vars PROVE IInv'
  OBVIOUS
<1> USE DEF IInv
<1>0. ApsInv' /\ InterfaceInv' /\ CountInv' /\ CrashInv'
  BY ApsStep, InterfaceStep, CountStep, CrashStep
<1>1. CASE NewInstance
  <2>1. /\ UNCHANGED <<cellVars, fixVars, worldVars, scan>>
        /\ stage # "crashed" /\ stage' # "sent"
    BY <1>1 DEF NewInstance, AfterInit
  <2> QED
    BY <1>0, <2>1, CellFrame, TimeFrame, FixFrame, TakenFrame
       DEF cellVars, fixVars, worldVars, SentInv
<1>2. CASE OnScanCompleted
  <2>1. /\ UNCHANGED <<cellVars, fixVars, worldVars, scan>>
        /\ stage # "crashed" /\ stage' # "sent"
    BY <1>2 DEF OnScanCompleted
  <2> QED
    BY <1>0, <2>1, CellFrame, TimeFrame, FixFrame, TakenFrame
       DEF cellVars, fixVars, worldVars, SentInv
<1>3. CASE GetFixes
  <2>1. /\ UNCHANGED <<cellVars, fixVars, worldVars>>
        /\ stage # "crashed" /\ stage' # "sent"
    BY <1>3 DEF GetFixes
  <2> QED
    BY <1>0, <1>3, <2>1, CellFrame, TimeFrame, FixFrame, GetFixesStep
       DEF cellVars, worldVars, SentInv
<1>4. CASE GetScannedCells
  <2>1. /\ UNCHANGED <<cellVars, fixVars, worldVars>>
        /\ stage # "crashed" /\ stage' # "sent"
    BY <1>4 DEF GetScannedCells
  <2> QED
    BY <1>0, <1>4, <2>1, CellFrame, TimeFrame, FixFrame, GetScannedCellsStep
       DEF cellVars, worldVars, SentInv
<1>5. CASE LocationRQ
  <2>1. UNCHANGED <<cellVars, fixVars, worldVars, scan>> /\ stage # "crashed"
    BY <1>5 DEF LocationRQ
  <2> QED
    BY <1>0, <1>5, <2>1, CellFrame, TimeFrame, FixFrame, TakenFrame,
       LocationRQStep
       DEF cellVars, fixVars, worldVars
<1>6. CASE PropertyChanged
  <2>1. UNCHANGED <<fixVars, scan>> /\ stage' # "sent"
    BY <1>6 DEF PropertyChanged, Event, toldVars
  <2> QED
    BY <1>0, <1>6, <2>1, PropertyChangedStep, FixFrame, TakenFrame
       DEF fixVars, SentInv
<1>7. CASE OnGpsData
  <2>1. /\ UNCHANGED <<cellVars, worldVars>>
        /\ stage # "crashed" /\ stage' # "sent"
    BY <1>7 DEF OnGpsData, Event, callVars
  <2> QED
    BY <1>0, <1>7, <2>1, CellFrame, TimeFrame, OnGpsDataStep
       DEF cellVars, worldVars, SentInv
<1>8. CASE Pass \/ SetClock
  <2>1. /\ UNCHANGED <<cellVars, fixVars, scan>>
        /\ stage # "crashed" /\ stage' # "sent"
    BY <1>8 DEF Pass, SetClock, Event, callVars, toldVars
  <2>2. now' \in Nat /\ clock' \in Nat
    <3>1. CASE Pass
      BY <3>1 DEF Pass, TimeInv
    <3>2. CASE SetClock
      <4>1. PICK setting \in Settings :
              clock + setting >= 0 /\ clock' = clock + setting
        BY <3>2, Zenon DEF SetClock
      <4>2. setting \in Int
        BY RequestAssumption
      <4> QED
        BY <3>2, <4>1, <4>2 DEF SetClock, TimeInv
    <3> QED
      BY <1>8, <3>1, <3>2
  <2>3. TimeInv'
    BY <2>1, <2>2 DEF TimeInv, cellVars
  <2> QED
    BY <1>0, <2>1, <2>3, CellFrame, FixFrame, TakenFrame DEF fixVars, SentInv
<1>9. CASE UNCHANGED vars
  <2>1. UNCHANGED <<cellVars, fixVars, scan, request, stage, now, clock, dump,
                    scanAt>>
    BY <1>9 DEF vars, callVars, toldVars, worldVars
  <2>2. Heard' = Heard /\ \A m : Since(m)' = Since(m)
    BY <2>1 DEF Heard, Since
  <2>3. UNCHANGED <<fixAt, cellAt, scannedCells>>
    BY <2>1 DEF cellVars, fixVars
  <2>4. /\ AccessPointsAreTold' = AccessPointsAreTold
        /\ CellsAreTold' = CellsAreTold /\ FixesAreTold' = FixesAreTold
    BY <2>1, <2>2 DEF AccessPointsAreTold, CellsAreTold, FixesAreTold
  <2>6. SsidsAreTold' = SsidsAreTold
    BY <2>1, <2>2 DEF SsidsAreTold
  <2>5. /\ AccessPointAges' = AccessPointAges
        /\ CellAges' = CellAges /\ FixAges' = FixAges
    BY <2>1, <2>2, <2>3 DEF AccessPointAges, CellAges, FixAges
  <2>7. SentInv'
    BY <2>1, <2>4, <2>5, <2>6 DEF SentInv
  <2> QED
    BY <1>0, <2>1, <2>7, CellFrame, TimeFrame, FixFrame, TakenFrame
       DEF cellVars, fixVars
<1> QED
  BY <1>1, <1>2, <1>3, <1>4, <1>5, <1>6, <1>7, <1>8, <1>9
     DEF Next, Call, World

(* It is an invariant.                                                     *)
LEMMA Inductive == Spec => []IInv
  BY InitInv, StepInv, PTL DEF Spec

-----------------------------------------------------------------------------
(* The theorems.                                                           *)

(* However the registrations change, the cell that is known is the one the *)
(* first modem online says now, by the ranges of the standard applied to 16*)
(* bits of the codes, and none if that says none; and the process has come *)
(* to its end if that is an LTE cell with an area of more than 16 bits:    *)
(* getCurrentModem, getScannedCellTower and reportCell of OfonoCellAdapter,*)
(* the constructor of CellTower and CellWrapper::onCellChanged.            *)
THEOREM CellIsKept == Spec => []CellIsCurrent
<1>1. IInv => CellIsCurrent
  <2> SUFFICES ASSUME CellInv PROVE CellIsCurrent
    BY DEF IInv
  <2>1. modems \in Seq(Modem)
    BY DEF CellInv
  <2>2. /\ currentModem = 0 => \A i \in DOMAIN modems : ~modems[i].online
        /\ currentModem # 0 =>
             /\ currentModem \in DOMAIN modems /\ modems[currentModem].online
             /\ \A j \in 1..(currentModem - 1) : ~modems[j].online
    BY <2>1, CurrentModemIsFirst DEF CellInv
  <2>3. ASSUME NEW n, Says(lastCell, n) PROVE CellIs(n)
    <3>1. scannedCells = lastCell
      BY DEF CellInv
    <3>2. CASE NamesCell(n)
      <4>1. lastCell = <<Head(lastCell)>> /\ IsOf(Head(lastCell), n)
        BY <2>3, <3>2, Zenon DEF Says
      <4>2. Len(lastCell) = 1
        BY <4>1
      <4> QED
        BY <3>1, <3>2, <4>1, <4>2, Zenon DEF CellIs, IsOf
    <3>3. CASE ~NamesCell(n)
      BY <2>3, <3>1, <3>3, Zenon DEF Says, CellIs
    <3> QED
      BY <3>2, <3>3
  <2>4. ASSUME NEW i \in DOMAIN modems, Serves(i), stage # "crashed"
        PROVE  CellIs(modems[i].network)
    <3>0. modems[i].online /\ \A j \in 1..(i - 1) : ~modems[j].online
      BY <2>4 DEF Serves
    <3>1. currentModem # 0
      BY <2>2, <3>0
    <3>2. i = currentModem
      BY <2>1, <2>2, <3>0, <3>1
    <3> QED
      BY <2>3, <2>4, <3>1, <3>2 DEF CellInv
  <2>5. ASSUME \A i \in DOMAIN modems : ~modems[i].online
        PROVE  scannedCells = <<>>
    BY <2>2, <2>5 DEF CellInv
  <2>6. AreaBreaks => stage = "crashed"
    BY AreaBreaksIs, Zenon DEF CellInv
  <2> QED
    BY <2>4, <2>5, <2>6, Zenon DEF CellIsCurrent
<1> QED
  BY <1>1, Inductive, PTL

(* The cell that is known is one the constructors let through.             *)
LEMMA KnownCellIsOK ==
  ASSUME CellInv, TimeInv, NEW i \in DOMAIN lastCell
  PROVE  CellOK(lastCell[i])
<1> DEFINE c == Head(lastCell)
<1>1. lastCell # <<>>
  OBVIOUS
<1>2. lastCell = <<c>> /\ IsReading(c)
  BY <1>1, KnownCell
<1>4. c.rssi \in -255..0
  BY <1>2, Zenon DEF IsReading
<1>5. c.timestamp \in 0..(Modulus - 1)
  <2>1. c.timestamp = (cellAt.now + cellAt.clock) % Modulus
        /\ cellAt.now + cellAt.clock \in Int
    BY <1>1 DEF TimeInv, TickAt, Moments
  <2> QED
    BY <2>1, ModulusIs, ModFacts
<1>6. /\ IsTower(c.cell) /\ Asserted(c.cell)
      /\ c.cell.type # "LTE" => c.cell.tac = -1
  BY <1>2, Zenon DEF IsReading
<1> HIDE DEF c
<1>7. lastCell[i] = c
  BY <1>2
<1>8. CellOK(c)
  <2> DEFINE last == 65535
             A == 0..last
             B == 2^28
  <2>1. /\ c.cell.type \in {"GSM", "UMTS", "LTE"}
        /\ c.cell.mcc \in 0..999 /\ c.cell.mnc \in 0..999
        /\ c.cell.ci \in Nat /\ c.cell.ci < CiRange[c.cell.type]
        /\ c.cell.type # "LTE" => c.cell.lac \in Nat /\ c.cell.lac < Word
        /\ c.cell.type = "LTE" => c.cell.lac = -1
    BY <1>6, Zenon DEF IsTower
  <2>2. CiRange["GSM"] = Word /\ CiRange["UMTS"] = B /\ CiRange["LTE"] = B
    BY SMT DEF Word, CiRange
  <2>3. \A x \in Nat : (x < Word => x \in A) /\ 0 <= x
    <3>1. last \in Nat /\ Word = last + 1
      BY DEF Word
    <3> HIDE DEF last
    <3> QED
      BY <3>1
  <2>8. c.cell.tac < Word
    BY <1>6, Zenon DEF Asserted
  <2>9. c.cell.type = "LTE" => c.cell.tac <= last
    <3>1. Word = last + 1 /\ last \in Int
      BY DEF Word
    <3>2. c.cell.tac \in Int
      BY <1>2, Zenon DEF IsReading
    <3> HIDE DEF last
    <3> QED
      BY <2>8, <3>1, <3>2
  <2> HIDE DEF A, B, last
  <2>4. c.cell.type = "GSM" => c.cell.ci \in A
    BY <2>1, <2>2, <2>3, Zenon
  <2>5. c.cell.type # "GSM" => 0 <= c.cell.ci /\ c.cell.ci < B
    BY <2>1, <2>2, <2>3, Zenon
  <2>6. c.cell.type # "LTE" => c.cell.lac \in A
    BY <2>1, <2>3, Zenon
  <2>7. c.cell.mcc \in 0..999 /\ c.cell.mnc \in 0..999
    BY <2>1, PTL
  <2> QED
    BY <1>4, <1>5, <1>6, <2>1, <2>4, <2>5, <2>6, <2>7, <2>9, PTL
       DEF CellOK, A, B, last
<1> QED
  BY <1>7, <1>8

(* So are the access points.                                               *)
LEMMA AccessPointIsOK ==
  ASSUME ApsInv, NEW i \in DOMAIN aps
  PROVE  aps[i].rssi \in -255..-1 /\ aps[i].timestamp \in 0..(Modulus - 1)
<1>1. aps = [j \in DOMAIN Heard |-> AccessPoint(Heard[j], TickAt(scanAt))]
  BY DEF ApsInv
<1>2. i \in 1..Len(Heard) /\ Heard[i] \in Bss
  BY <1>1, HeardAre DEF ApsInv
<1>3. aps[i] = AccessPoint(Heard[i], TickAt(scanAt))
  BY <1>1
<1>4. /\ aps[i].rssi = SignalOf(Heard[i].signal)
      /\ aps[i].timestamp = (TickAt(scanAt) - Heard[i].seen) % Modulus
  BY <1>3, AccessPointIs DEF Reset
<1>5. Heard[i].signal \in Int /\ Heard[i].seen \in Nat
  BY <1>2 DEF Bss
<1>6. TickAt(scanAt) \in Int
  <2>1. scanAt.now + scanAt.clock \in Int
    BY DEF ApsInv, Moments
  <2> QED
    BY <2>1, ModulusIs, ModFacts DEF TickAt
<1>7. TickAt(scanAt) - Heard[i].seen \in Int
  BY <1>5, <1>6
<1> QED
  BY <1>4, <1>5, <1>7, ModulusIs, ModFacts, SignalIsNear

(* Each access point, cell and fix there was is told of once and in its    *)
(* order, with its MAC, its signal, its area and its height if it has them,*)
(* whatever is around: what the adapters' constructors, WifiWrapper's,     *)
(* CellWrapper's and GpsWrapper's lists and Protocol::locationRQ make.  An *)
(* access point that counts and has no elements, which parseBssIe does not *)
(* expect, keeps any request from being made; and the process ends for no  *)
(* other reason than this, an interface without a name, which              *)
(* getInterfaceCallback does not expect, or the area of a cell.            *)
THEOREM AllIsTold == Spec => []RequestTellsTheScan
<1>1. IInv => RequestTellsTheScan
  <2> SUFFICES ASSUME IInv PROVE RequestTellsTheScan
    OBVIOUS
  <2> USE DEF IInv
  <2>1. \A i \in DOMAIN aps :
          aps[i].rssi \in -255..-1 /\ aps[i].timestamp \in 0..(Modulus - 1)
    BY AccessPointIsOK
  <2>2. \A i \in DOMAIN lastCell : CellOK(lastCell[i])
    BY KnownCellIsOK
  <2>3. scannedCells = lastCell
    BY DEF CellInv
  <2>4. currentModem \in 0..Len(modems)
    <3>1. modems \in Seq(Modem) /\ currentModem = getCurrentModem(modems)
      BY DEF CellInv
    <3>2. currentModem = 0 \/ currentModem \in DOMAIN modems
      BY <3>1, CurrentModemIsFirst
    <3> QED
      BY <3>1, <3>2
  <2>5. Len(fixes) = Len(fixAt) /\ clock \in Nat
    BY DEF FixInv, TimeInv
  <2>6. /\ stage \in {"open", "scan", "fixes", "cells", "request", "sent",
                      "failed", "crashed"}
        /\ events \in 0..MaxEvents /\ now \in 0..MaxEvents
        /\ Len(fixes) <= MaxFixes
    BY RequestAssumption DEF CountInv
  <2>7. TypeOK
    BY <2>1, <2>2, <2>3, <2>4, <2>5, <2>6, Zenon DEF TypeOK
  <2> QED
    BY <2>7, Zenon DEF RequestTellsTheScan, SentInv, ApsInv, CrashInv
<1> QED
  BY <1>1, Inductive, PTL

(* The ages a request tells are true, however often the timers have run    *)
(* over, as long as nobody sets the host's clock, and wrong by just its    *)
(* settings otherwise: Timer::delta and Timer::reset, and the one timer    *)
(* Protocol::locationRQ takes.                                             *)
THEOREM AgesTold == Spec => []AgesAreTrue
<1>1. IInv => AgesAreTrue
  BY DEF IInv, SentInv, AgesAreTrue
<1> QED
  BY <1>1, Inductive, PTL

(* The server reads the name of each access point as it was on the air,    *)
(* whatever bytes it is of and however many, and none exactly if it is     *)
(* empty or cannot be written in XML; but of a name with a carriage return *)
(* in it, and of no other, it reads another, as XML has line ends:         *)
(* parseBssIe, xmlUtf8Test, xmlEscape and the test of Protocol::locationRQ *)
(* between them.                                                           *)
THEOREM NamesAreTold == Spec => []SsidIsTold
<1>1. IInv => SsidIsTold
  BY DEF IInv, SentInv, SsidIsTold
<1> QED
  BY <1>1, Inductive, PTL

(* Scans are asked of the first interface of the dump that is no Wi-Fi     *)
(* Direct one, of another only if there is none; and none is asked for if  *)
(* one without a name comes before it, as the process ends then:           *)
(* getInterfaceCallback.                                                   *)
THEOREM P2pIsLast == Spec => []P2pOnlyIfNoOther
<1>1. InterfaceInv => P2pOnlyIfNoOther
  <2>12. ASSUME InterfaceInv, NamelessFirst
         PROVE  stage \in {"open", "crashed"}
    BY <2>12, NamelessFirstIs, Zenon DEF InterfaceInv
  <2> SUFFICES ASSUME InterfaceInv, stage \notin {"open", "crashed"}
               PROVE  P2pOnlyIfNoOther
    BY <2>12, Zenon DEF P2pOnlyIfNoOther
  <2> DEFINE others == {i \in DOMAIN interfaces :
                          interfaces[i] \notin P2pNames}
  <2>1. interface = IF interfaces = <<>> THEN ""
                    ELSE interfaces[IF others = {} THEN Len(interfaces)
                                    ELSE Min(others)]
    BY Zenon DEF InterfaceInv, Chosen
  <2> DEFINE Name == STRING \ {""}
  <2>8. interfaces \in Seq(Name)
    BY Zenon DEF InterfaceInv
  <2>9. \A name \in Name : name # ""
    BY Zenon
  <2> HIDE DEF Name
  <2>10. /\ DOMAIN interfaces = 1..Len(interfaces) /\ Len(interfaces) \in Nat
         /\ \A i \in DOMAIN interfaces : interfaces[i] \in Name
         /\ interfaces # <<>> => Len(interfaces) \in DOMAIN interfaces
    BY <2>8
  <2>2. /\ DOMAIN interfaces = 1..Len(interfaces) /\ Len(interfaces) \in Nat
        /\ \A i \in DOMAIN interfaces : interfaces[i] # ""
        /\ interfaces # <<>> => Len(interfaces) \in DOMAIN interfaces
    BY <2>9, <2>10, Zenon
  <2>3. others # {} => /\ Min(others) \in others
                       /\ \A j \in others : Min(others) <= j
    <3>1. others \in SUBSET Nat
      BY <2>10
    <3> HIDE DEF others
    <3> QED
      BY <3>1, Least
  <2>4. /\ others \subseteq DOMAIN interfaces
        /\ \A i \in DOMAIN interfaces :
             i \in others <=> interfaces[i] \notin P2pNames
    OBVIOUS
  <2> HIDE DEF others
  <2>5. interface \in P2pNames => Range(interfaces) \subseteq P2pNames
    <3>1. CASE interfaces = <<>>
      BY <3>1 DEF Range
    <3>2. CASE interfaces # <<>> /\ interface \in P2pNames
      <4>1. others = {}
        BY <2>1, <2>3, <2>4, <3>2
      <4> QED
        BY <2>4, <4>1, Zenon DEF Range
    <3> QED
      BY <3>1, <3>2
  <2>6. interface = "" <=> interfaces = <<>>
    <3>1. interfaces # <<>> =>
            \E i \in DOMAIN interfaces : interface = interfaces[i]
      BY <2>1, <2>3, <2>4, <2>10
    <3> QED
      BY <2>1, <2>2, <3>1, Zenon
  <2>7. ASSUME NEW i \in DOMAIN interfaces,
               interfaces[i] \notin P2pNames \union {interface}
        PROVE  \E j \in 1..(i - 1) : interfaces[j] = interface
    <3>1. i \in others /\ interfaces # <<>>
      BY <2>4, <2>7, <2>10
    <3>2. Min(others) \in DOMAIN interfaces /\ Min(others) <= i
          /\ interface = interfaces[Min(others)]
      BY <2>1, <2>3, <2>4, <3>1
    <3>3. Min(others) # i
      BY <2>7, <3>2
    <3>4. Min(others) \in 1..(i - 1)
      BY <2>10, <3>2, <3>3
    <3> QED
      BY <3>2, <3>4
  <2> QED
    BY <2>5, <2>6, <2>7, <2>12, Zenon DEF P2pOnlyIfNoOther
<1> QED
  BY <1>1, Inductive, PTL DEF IInv
=============================================================================
