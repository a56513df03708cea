------------------------------ MODULE MCRequest -----------------------------
EXTENDS Request

Attributes == Required \union Optional

Name(data) == [type |-> 0, data |-> data]
Rates == [type |-> 1, data |-> <<130>>]

BSS == [has |-> Attributes, bssid |-> <<0, 17, 34, 51, 68, 171>>,
        ibss |-> FALSE, seen |-> 2, signal |-> -6150,
        elements |-> <<Name(<<97, 98>>), Rates>>]

(* Names for every branch of the test and of the escaping: markup, the     *)
(* edges of every length of UTF-8, overlong forms, surrogates, bytes that  *)
(* are missing, alone or never used, and control characters.               *)
Names ==
  {<<>>, <<38>>, <<60, 62>>, <<34, 39>>, <<97, 38, 97, 109, 112, 59>>,
   <<0>>, <<8>>, <<9>>, <<31>>, <<127>>,
   <<13>>, <<10, 13>>, <<13, 10>>, <<13, 13, 10>>, <<13, 38>>,
   <<194, 128>>, <<223, 191>>, <<192, 128>>, <<193, 191>>,
   <<224, 160, 128>>, <<224, 159, 191>>, <<237, 159, 191>>,
   <<237, 160, 128>>, <<238, 128, 128>>, <<239, 191, 189>>,
   <<239, 191, 190>>, <<239, 191, 191>>,
   <<240, 144, 128, 128>>, <<240, 143, 191, 191>>, <<244, 143, 191, 191>>,
   <<244, 144, 128, 128>>, <<247, 191, 191, 191>>,
   <<128>>, <<248, 136, 128, 128>>, <<255>>,
   <<97, 195>>, <<226, 130>>, <<240, 159, 152>>, <<195, 40>>,
   <<226, 40, 161>>, <<97, 195, 169, 60, 226, 130, 172>>,
   [i \in 1..33 |-> 97]}

Signals == {-25500, -25499, -25400, -9051, -101, -100, -99, 0, 100, 4200,
            9900, 10000}

BSSs ==
  {BSS}
  \union {[BSS EXCEPT !.elements = <<Name(n), Rates>>] : n \in Names}
  \union {[BSS EXCEPT !.elements = <<Rates, Name(<<99>>), Name(<<100>>)>>],
          [BSS EXCEPT !.elements = <<Rates>>],
          [BSS EXCEPT !.ibss = TRUE],
          [BSS EXCEPT !.ibss = TRUE, !.has = Required],
          [BSS EXCEPT !.seen = 0]}
  \union {[BSS EXCEPT !.signal = s] : s \in Signals}
  \union {[BSS EXCEPT !.has = Attributes \ {a}] : a \in Attributes}

Gsm == [has |-> CellProperties \union {"LocationAreaCode"},
        technology |-> "gsm", mcc |-> 310, mnc |-> 26, ci |-> 4711,
        lac |-> 3000, strength |-> 60]
Umts == [Gsm EXCEPT !.technology = "hspa"]
Lte == [Gsm EXCEPT !.technology = "lte",
                   !.has = @ \ {"LocationAreaCode"}]
LteWithArea == [Gsm EXCEPT !.technology = "lte"]
Unregistered == [Gsm EXCEPT !.has = {}, !.technology = "none"]

Networks ==
  {Gsm, Umts, Lte, Unregistered}
  \union {[Gsm EXCEPT !.mcc = n] : n \in {0, 199, 200, 799, 800, 899, 900,
                                          999, 1000, 65535, 65846}}
  \union {[Lte EXCEPT !.mnc = n] : n \in {-1, 0, 999, 1000, 66535, 66536}}
  \union {[n EXCEPT !.ci = i] :
            n \in {Gsm, Umts, Lte, LteWithArea},
            i \in {-1, 0, 65535, 65536, 268435455, 268435456}}
  \union {[n EXCEPT !.lac = l] :
            n \in {Gsm, Umts, Lte, LteWithArea},
            l \in {-1, 0, 1, 65533, 65534, 65535, 65536}}
  \union {[LteWithArea EXCEPT !.lac = 65536, !.ci = -1],
          [LteWithArea EXCEPT !.lac = 65536, !.mcc = 199]}
  \union {[Gsm EXCEPT !.has = @ \ {a}] : a \in Gsm.has}
  \union {[Gsm EXCEPT !.strength = s] : s \in {0, 100}}
  \union {[Gsm EXCEPT !.technology = t] : t \in {"edge", "umts", "none"}}

Plain == [BSS EXCEPT !.bssid = <<2, 0, 0, 0, 0, 1>>, !.seen = 3]

(* What differs from an ordinary place does so in one respect.             *)
Modem(up, n) == [online |-> up, network |-> n]

Place == [interfaces |-> <<"wlan0">>, dump |-> <<BSS, Plain>>,
          modems |-> <<Modem(TRUE, Gsm)>>]

(* None, none online, one after another, and one before another.           *)
Modems ==
  {<<>>, <<Modem(FALSE, Gsm)>>, <<Modem(FALSE, Umts), Modem(TRUE, Gsm)>>,
   <<Modem(TRUE, Lte), Modem(TRUE, Gsm)>>}

MCPlaces ==
  {[Place EXCEPT !.dump = <<b, Plain>>] : b \in BSSs}
  \union {[Place EXCEPT !.modems = <<Modem(TRUE, n)>>] : n \in Networks}
  \union {[Place EXCEPT !.modems = m] : m \in Modems}
  \union {[Place EXCEPT !.interfaces = i] :
            i \in {<<>>, <<"p2p0">>, <<"p2p0", "wlan0">>, <<"wlan0", "p2p0">>,
                   <<"p2p0", "p2p-dev">>, <<"wlan0", "wlan1">>, <<NoName>>,
                   <<NoName, "wlan0">>, <<"p2p0", NoName, "wlan0">>,
                   <<"wlan0", NoName>>, <<"p2p0", "wlan0", NoName>>}}
  \union {[Place EXCEPT !.dump = <<>>,
                         !.modems = <<Modem(TRUE, Unregistered)>>]}

MCHandovers ==
  {Gsm, [Gsm EXCEPT !.strength = 61], Lte, Unregistered,
   [LteWithArea EXCEPT !.lac = 65536]}

MCSettings == {-4, 4}
=============================================================================
