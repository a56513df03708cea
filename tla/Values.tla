------------------------------- MODULE Values -------------------------------
(***************************************************************************)
(* The values the adapters hand over and how they compare: timers and      *)
(* times, MACs, cells, fixes, and readings of them.  A comparison is an    *)
(* integer of which only the sign and whether it is zero matter.           *)
(***************************************************************************)
EXTENDS Integers, Sequences

CONSTANT
  Half   \* half of the range of an unsigned long, which timers are kept in

ASSUME HalfAssumption == Half \in Nat \ {0}

-----------------------------------------------------------------------------
(* Comparisons in a row: the first that is not a tie decides.              *)

Then(r, s) == IF r # 0 THEN r ELSE s

simpleCompare(a, b) == IF a < b THEN -1 ELSE IF b < a THEN 1 ELSE 0

-----------------------------------------------------------------------------
(* Timer: the tick of its start, in milliseconds.                          *)

Modulus == 2 * Half

Timers == 0..(Modulus - 1)

elapsed(a, t) == (t - a) % Modulus

(* delta: the difference as a long.                                        *)
Signed(n) == IF n < Half THEN n ELSE n - Modulus
Delta(a, b) == Signed((a - b) % Modulus)

TimerLess(a, b) == Delta(a, b) < 0

(* compare: the newer is the lesser.                                       *)
TimerCompare(a, b) == IF a = b THEN 0 ELSE IF Delta(a, b) > 0 THEN -1 ELSE 1

(* reset(initialElapsed) at the tick t.                                    *)
Reset(t, initialElapsed) == (t - initialElapsed) % Modulus

-----------------------------------------------------------------------------
(* Time: milliseconds since 1970 as an unsigned long long.                 *)

Word == 256 * 256
TimeModulus == Word * Word * Word * Word

TimeOfSec(sec, msec) == (sec * 1000 + msec) % TimeModulus

Plus(time, msec) == (time + msec) % TimeModulus
Minus(time, msec) == (time - msec) % TimeModulus

Sec(time) == time \div 1000
Msec(time) == time % 1000

TimeCompare(a, b) == simpleCompare(a, b)

(* SirfProtocol's fromGPSTime: the seconds since 1970 of a GPS time, which *)
(* counts from 6 January 1980.                                             *)
Week == 7 * 24 * 3600
fromGPSTime(week, timeOfWeek) == 3657 * 24 * 3600 + week * Week + timeOfWeek

(* Event::wait(ms): the deadline, as pthread_cond_timedwait takes it, in   *)
(* seconds and, for nanoseconds, microseconds.                             *)
Million == 1000 * 1000
Deadline(now, ms) ==
  LET sec == now.sec + ms \div 1000
      usec == now.usec + (ms % 1000) * 1000
  IN IF usec > Million
     THEN [sec |-> sec + usec \div Million, usec |-> usec % Million]
     ELSE [sec |-> sec, usec |-> usec]

-----------------------------------------------------------------------------
(* MAC: six bytes, the least significant first.                            *)

MACs == [1..6 -> 0..255]

MacCompare(a, b) ==
  Then(Then(Then(Then(Then(simpleCompare(a[6], b[6]),
    simpleCompare(a[5], b[5])), simpleCompare(a[4], b[4])),
    simpleCompare(a[3], b[3])), simpleCompare(a[2], b[2])),
    simpleCompare(a[1], b[1]))

toLong(mac) ==
  mac[1] + 256 * (mac[2] + 256 * (mac[3]
         + 256 * (mac[4] + 256 * (mac[5] + 256 * mac[6]))))

(* toString prints the last byte first.                                    *)
MacText(mac) == [i \in 1..6 |-> mac[7 - i]]

(* The organisation a MAC is of, and those of virtual machines.            *)
Oui(a, b, c) == c + 256 * (b + 256 * a)
getOUI(mac) == Oui(mac[6], mac[5], mac[4])

virtualOUI ==
  {Oui(8, 0, 39), Oui(0, 80, 86), Oui(0, 28, 20), Oui(0, 12, 41),
   Oui(0, 5, 105), Oui(0, 28, 66)}

isGloballyUnique(mac) ==
  (mac[6] \div 2) % 2 = 0 /\ getOUI(mac) \notin virtualOUI

-----------------------------------------------------------------------------
(* CellTower, which is null if its numbers cannot be a cell's.             *)

NoCell == [type |-> "UNKNOWN"]

isValidMccMnc(mcc, mnc) ==
  /\ mnc <= 999
  /\ ~(mcc < 200 \/ (mcc >= 800 /\ mcc < 900) \/ mcc > 999)

isValidLac(lac) == lac \div Word = 0 /\ lac # 0 /\ lac # Word - 2

isValidGsmUmtsCommon(mcc, mnc, lac) ==
  isValidMccMnc(mcc, mnc) /\ isValidLac(lac)

(* What the number of a cell is below.                                     *)
CiRange == [GSM |-> Word, UMTS |-> 4096 * Word, LTE |-> 4096 * Word]

IsCell(type, mcc, mnc, ci, lac) ==
  /\ type \in DOMAIN CiRange
  /\ IF type = "LTE" THEN isValidMccMnc(mcc, mnc)
     ELSE isValidGsmUmtsCommon(mcc, mnc, lac)
  /\ ci \div CiRange[type] = 0

(* An area is the tac of an LTE cell and the lac of another.               *)
Tower(type, mcc, mnc, ci, area) ==
  IF IsCell(type, mcc, mnc, ci, area)
  THEN [type |-> type, mcc |-> mcc, mnc |-> mnc, ci |-> ci,
        lac |-> IF type = "LTE" THEN -1 ELSE area,
        tac |-> IF type = "LTE" THEN area ELSE -1]
  ELSE NoCell

(* What the constructor asserts: a cell of which it does not hold ends the *)
(* process.                                                                *)
Asserted(cell) ==
  /\ cell.mcc <= 999 /\ cell.mnc <= 999
  /\ \/ cell.type = "GSM" /\ cell.ci < Word
     \/ cell.type \in {"LTE", "UMTS"} /\ cell.ci \in 0..(4096 * Word - 1)
  /\ cell.lac < Word /\ cell.tac < Word

hasLac(cell) == cell.lac # -1

CellTowerType == [GSM |-> 1, UMTS |-> 2, LTE |-> 3]

(* The area of an LTE cell, its tac, does not count.                       *)
CellCompare(a, b) ==
  Then(CellTowerType[a.type] - CellTowerType[b.type],
  Then(a.mcc - b.mcc,
  Then(a.mnc - b.mnc,
  Then(a.ci - b.ci, IF a.type = "LTE" THEN 0 ELSE a.lac - b.lac))))

SameCell(a, b) == CellCompare(a, b) = 0

(* getCellGlobalId: the numbers side by side, 10 bits for each of the      *)
(* codes, 16 for the area and 16 or 28 for the cell.                       *)
CellGlobalId(cell) ==
  LET codes == cell.mcc * 1024 + cell.mnc
      range == CiRange[cell.type]
  IN IF cell.type = "LTE" THEN codes * range + cell.ci
     ELSE (codes * Word + cell.lac) * range + (cell.ci % range)

Clipped(n) == IF n < 0 THEN 0 ELSE IF n >= Word THEN Word - 1 ELSE n

(* Of a UMTS cell unless delta is 0: its number within the controller      *)
(* moves, and stays within the 16 bits it has.                             *)
AdjacentCellId(ci, delta) ==
  IF delta = 0 THEN ci
  ELSE ((ci \div Word) % 4096) * Word + Clipped((ci % Word) + delta)

-----------------------------------------------------------------------------
(* Readings: a cell or an access point and when it was heard.              *)

ScannedCellCompare(a, b) ==
  Then(CellCompare(a.cell, b.cell),
  Then(TimerCompare(a.timestamp, b.timestamp),
  Then(a.rssi - b.rssi, a.timing - b.timing)))

CellSame(a, b) == CellCompare(a.cell, b.cell) = 0
CellLess(a, b) == CellCompare(a.cell, b.cell) < 0
LacSame(a, b) == a.cell.lac = b.cell.lac
LacLess(a, b) == a.cell.lac < b.cell.lac
CellEqualsTo(a, cell) == SameCell(a.cell, cell)
HasNoLac(a) == ~hasLac(a.cell)
IsNotGsmOrUmts(a) == a.cell.type \notin {"GSM", "UMTS"}

ScannedAccessPointCompare(a, b) ==
  Then(MacCompare(a.mac, b.mac), TimerCompare(a.timestamp, b.timestamp))

MacSame(a, b) == MacCompare(a.mac, b.mac) = 0
MacLess(a, b) == MacCompare(a.mac, b.mac) < 0
MacEqualsTo(a, mac) == a.mac = mac
WeakerRssi(a, b) == a.rssi < b.rssi

-----------------------------------------------------------------------------
(* GPSData::Fix.  A double is a number of units that are small enough, hpe *)
(* one of tenths; Largest is numeric_limits<double>::max().                *)

Largest == 2147483647

Has(x) == x # Largest

HasCompare(a, b) == IF Has(a) /\ ~Has(b) THEN 1
                    ELSE IF Has(b) /\ ~Has(a) THEN -1 ELSE 0

Truncated(tenths) == tenths \div 10

FixCompare(a, b) ==
  Then(-TimerCompare(a.localTime, b.localTime),
  Then(-TimeCompare(a.gpsTime, b.gpsTime),
  Then(-simpleCompare(a.timetag, b.timetag),
  Then(simpleCompare(a.latitude, b.latitude),
  Then(simpleCompare(a.longitude, b.longitude),
  Then(a.svInFix - b.svInFix,
  Then(Truncated(a.hpe) - Truncated(b.hpe),
  Then(simpleCompare(a.hdop, b.hdop),
  Then(HasCompare(a.altitude, b.altitude),
  Then(simpleCompare(a.altitude, b.altitude),
  Then(HasCompare(a.height, b.height),
  Then(simpleCompare(a.height, b.height),
  Then(HasCompare(a.speed, b.speed),
  Then(simpleCompare(a.speed, b.speed),
  Then(HasCompare(a.bearing, b.bearing),
  Then(simpleCompare(a.bearing, b.bearing),
  a.quality - b.quality))))))))))))))))
=============================================================================
