# TLA+ models of the Precision Location Lite Client

This directory models and verifies the client library in `src/`: the one API
call that matters, `SHLC_location`, and under it the Wi-Fi, cell and GPS
adapters, the protocols of two GPS receivers, the request made of what they
report, and the exchange with the location server. TLC checks each module on a
small instance; TLAPS proves the most important results for every value of the
constants. Source lines below are relative to `src/src/` unless they begin with
`include/`.

## The system

`SHLC_location` (`api/skyhookliteclient.cpp:375`) makes three wrappers on its
stack, opens GPS, cell and Wi-Fi, works out a user name from the hardware
address or the IMEI, scans Wi-Fi once, copies what GPS and cell have collected
meanwhile, posts it all to the server and turns the answer into a location or an
error code. Nothing outlives the call: the destructors of the wrappers close the
adapters.

| Component | State it keeps | Operations | Threads and how it is talked to |
|---|---|---|---|
| Location call (`api/skyhookliteclient.cpp`) | the scan, the return code | `SHLC_location`, `getLocation`, `getDeviceUsername` | the caller's thread; wrappers receive callbacks on other threads |
| Wi-Fi adapter (`spi/wifi/nl80211`) | netlink socket, event and cancel descriptors, power flags, `_scannedAPs` | `open`, `close`, `power`, `startScan`, the listening thread | a thread of its own; **the netlink socket is used by both threads without a lock** |
| Events and mutexes (`spi/concurrent/pthread`) | a flag and a condition | `signal`, `clear`, `wait` | shared by a waiter and a signaller |
| Cell main loop (`spi/utils/unix/glib`, `spi/cell/GlibCellAdapter.cpp`) | thread, context, task, return code, event | `start`, `stop`, `getContext`, `dispatch` | a GLib thread; operations are idle sources on it, waited for 30 s at most |
| oFono adapter (`spi/cell/ofono`) | D-Bus connection, current modem, last cell | `open`, `close`, `getIMEI`, the property callback | on the loop's thread, answers over D-Bus |
| GPS serial adapter (`spi/gps/serial`) | port, stop descriptor, listener | `start`, `stop`, the read thread | a read thread that runs the protocol and calls the listener |
| NMEA protocol (`spi/gps/protocol/nmea`, `spi/utils/nmea`) | parse buffer, merged fields, current fix, satellites | `parse`, `tryParse`, `reset` | on the read thread |
| SiRF protocol (`spi/gps/protocol/sirf`) | parse buffer, fix, satellites | `parse`, `tryParse` | on the read thread |
| Server protocol (`api/Protocol.cpp`) | none | `locationRQ`, `parseLocationRS` | called by `getLocation` |
| HTTP (`spi/xhr/curl`) | status, headers, body | `open`, `send` and libcurl's callbacks | on the caller's thread |
| XML (`spi/xml/libxml`, `spi/utils/xml`) | a document tree | `parse`, escaping | called by the server protocol |
| Values and time (`include/spi/*.h`, `spi/gps/GPSData.cpp`, `spi/time`) | values | comparisons, timers | everywhere |
| Logger, C library, maths, system information, static and null adapters, MD4, sample | - | - | output, thin wrappers and doubles; not modelled |

### What is hard about it, and what makes it correct

* **Two threads on one socket.** A scan is requested from the caller's thread
  while the listener may be reading scan results over the same netlink socket.
  Right means: each request reads its own answer, and the two get out of each
  other's way at `close`.
* **Callbacks after the wait.** `wait` can time out, and a late callback writes
  to members the wrapper has destroyed. Right means: what `scan()` returns as OK
  is what the kernel had found, and the listener is over when `close` returns.
* **Deadlines with work left behind.** A dispatch that has timed out leaves its
  source on the loop; `_rc`, `_event` and `_callback` are shared with the next.
  `getIMEI` waits for the loop while holding the mutex the loop needs.
* **Threads that start late or not at all**, an `open` that fails half way,
  error codes the caller ignores.
* **Streams without marks.** GPS bytes arrive damaged or cut; framing must find
  the next message. Fields of several sentences are merged into one fix, across
  midnight, while the position comes and goes.
* **Exchanges that break off anywhere**, status lines that are the proxy's, an
  answer whose ages are corrected by a difference of clocks.
* **Sentences merged token by token.** Sentences come in two forms, leave fields
  empty and are lost; satellites come in groups of messages. Right means: no field
  holds another's value, what means something only together stays together, and
  satellites of one group are not mixed with those of another.
* **What the radios say is told to a server.** Names are arbitrary bytes that must
  pass for XML, timers run over and are read from a clock that can be set, cells
  have numbers out of their ranges, elements are optional.
* **Orders.** Beacons are sorted by comparisons in a row, some of them modular.
* **A power state that is borrowed** from other programs and must be given back.

PROJECT.json lists each hazard at its line with the properties aimed at it.

## Modules

| Module | Models | Code |
|---|---|---|
| `WifiScan` | the Wi-Fi side of one call: caller, listener, netlink socket, event, destructors | `spi/wifi/nl80211/Nl80211WifiAdapter.cpp`, `api/skyhookliteclient.cpp:48-122` |
| `WifiPower` | `open`/`power`/`close` on the interface's power state | same adapter, `:210-330` |
| `CellLoop` | the cell side of one call: GLib thread, dispatcher, oFono adapter, wrapper | `spi/utils/unix/glib`, `spi/cell`, `api/skyhookliteclient.cpp:166-262` |
| `GpsFeed` | the GPS side of one call: serial thread, NMEA framing and merge, collected fixes | `spi/gps`, `spi/utils/nmea`, `api/skyhookliteclient.cpp:124-164` |
| `SirfFeed` | SiRF framing and the messages it understands | `spi/gps/protocol/sirf`, `GPSProtocol.cpp` |
| `NmeaData` | the fields, sentence formats, tokens and values of the NMEA library | `spi/utils/nmea/include/nmea`, `Token.h`, the sentences' headers |
| `NmeaSentence` | parsing and writing of sentences and GSV groups | `Sentence.cpp`, `GSV.cpp`, `NMEA.cpp` |
| `NmeaMerge` | a receiver, the merged fields, the fix, the satellites and their timer | `spi/gps/protocol/nmea`, `nmea/Info.h` |
| `Values` | timers, times, deadlines, MACs, cells, readings and fixes, with their comparisons | `include/spi`, `MAC.cpp`, `GPSData.cpp` |
| `XmlText` | escaping, and the test whether bytes can be written in XML | `spi/utils/xml/XmlUtils.cpp` |
| `Beacons` | access points made of BSSs, cells made of a modem's properties | `Nl80211WifiAdapter.cpp:460-645`, `OfonoCellAdapter.cpp:230-402` |
| `Request` | the choice of the interface, readings, ages and elements up to the `LocationRQ`, while the world goes on | `api/Protocol.cpp:235-499`, both adapters, the wrappers |
| `LocationApi` | abstract: what the header promises of `SHLC_location`, strictly, and by name the ways it can be departed from | `include/api/skyhookliteclient.h` |
| `LocationCall` | the call from end to end with libcurl and the server; implements `LocationApi` | `api/skyhookliteclient.cpp:281-427`, `spi/xhr/curl`, `api/Protocol.cpp:565-622` |
| `LocationCallProofs`, `WifiScanProofs`, `WifiPowerProofs`, `CellLoopProofs`, `GpsFeedProofs`, `NmeaMergeProofs`, `RequestProofs`, `ValuesProofs` | theorems about the module each is named for; `ValuesProofs` also about `XmlText` | |
| `MCWifiScan`, `MCSirfFeed`, `MCNmeaMerge`, `MCRequest` | instances for TLC; the other modules are instantiated by their .cfg alone | |

How state and actions correspond:

* Variables bear the names of the members they stand for where there is one
  (`_rc` is `rc`, `_scannedAPs` is `scannedAPs`, `_statusCode` is `status`). A
  program counter per thread (`mpc`/`upc`/`pc` for the caller, `lpc`/`rpc` for
  the other) says where it is. Actions commented as *external* are what is not this
  program: the kernel, other programs, the modem, the receiver, libcurl, server.
* A step is what happens between two points at which another thread could see a
  difference: a system call, a lock, a signal, an access to a member that is not
  locked. Where the code accesses a shared container without a lock (the copy of
  fixes and cells at `api/skyhookliteclient.cpp:417-418`, `_scan` in the Wi-Fi
  wrapper) the access has a beginning and an end, so that an overlap is seen.
* A timeout is an action that may fire at any moment while its wait lasts, so
  every order of a late answer and a deadline is covered.
* *History* variables (`snapshots`, `late`, `torn`, `heard`, `lost`, ...) record
  the past for the properties and are read by no step.
* Each module has *faulty variants* of a few operators beside the real ones. They
  are used by nothing in the specification; putting one in the place of its
  operator must break a property (`mutants` in PROJECT.json), which shows that
  the property would notice that bug.

How the modules fit together: `LocationCall` takes each radio by its outcome (it
opened or not; the scan returned these access points, or failed; fixes and
cells came in), and `WifiScan`, `CellLoop` and `GpsFeed` say how the outcomes
come about, each with the destructor of its wrapper. `GpsFeed` and `SirfFeed`
are the two protocols under the same `GPSProtocol::parse`. `GpsFeed` frames NMEA
sentences and knows just enough of their contents to follow a position around
midnight; `NmeaMerge` takes the framing for granted and does the contents in full,
with `NmeaSentence` and `NmeaData` under it. `Request` fills in what `LocationCall`
sends as sets: it composes `Beacons` (what the adapters make of what they hear),
`Values` (the timers readings carry) and `XmlText` (their text form) with the threads
that bring in cells and fixes. `CellLoop` and `Request` look at the same `reportCell`, one for
its threads and the other for the cells.

## Runs

| Run | Instance | Asks |
|---|---|---|
| `wifi_scan` | 1 access point, 1 foreign scan; 198 000 states | socket, callbacks and results of a scan; termination |
| `wifi_power` | 2 adapters, 2 interferences; 832 states | is the interface left as it was found |
| `cell_loop` | 2 cells, 2 changes; 123 000 states | answers, reports and life times on the loop; termination |
| `gps_feed` | 2 epochs around midnight, 2 disturbances, buffer of 5; 2.7 million states | collected fixes, framing, end of the thread, open files; termination |
| `sirf_feed` | 5 messages, 1 disturbance, buffer of 33 bytes; 172 000 states | wrong data never comes through; recovery of the framing |
| `location_call` | 1 access point, 1 cell, 2 fixes, 2 positions, answers of 2 nodes; 3.5 million states | return codes, ages, completeness of the request; refinement of `LocationApi` with its four departures; termination |
| `nmea_merge` | 3 epochs, dialects of every form, 0 to 3 satellites, 2 damages; 76 000 states | fields, fixes and satellites after every sentence; reading back what is written |
| `request` | 166 places with one peculiarity each, 5 registrations, 3 events; 828 000 states | what the server is told of access points, cells and fixes |
| `pending_callbacks` | violated | `WifiAdapter.h`: pending callbacks are called before `close` returns |
| `gps_time` | violated | `GPSData.h`: `gpsTime` is the time of the fix |
| `server_unavailable` | violated | `skyhookliteclient.h`: meaning of SERVER_UNAVAILABLE |
| `hundredths` | violated | `Types.h`: `hsecond` is in hundredths of a second |

The violated ones are disagreements of the code with what is written about it;
`findings` in PROJECT.json quotes both sides. Three more findings belong to runs
that pass, because the disagreement is written into the property: that nothing ever returns
TIMEOUT and that RADIO_NOT_AVAILABLE speaks for Wi-Fi alone (`ImplementsApi`), and that the
ticks do not increase continuously (`AgesAreTrue`).

### What the runs show

**wifi_scan.** `SocketInStep`: as long as no request is sent over an unread
answer, every reply in the socket belongs to the one request under way. Requests
cross in two ways, both real: the caller's scan or association request against
the listener's fetching of results started by another program, and
`nl_cb_alloc` failing after the request has gone out. The variable `crossed`
says that one of them has happened, and the properties that need the socket
carry it as a hypothesis. Without it they are false: a scan can come back OK and
empty, and the call can hang for ever in `nl_recvmsgs`, where the write of `close`
into the event descriptor, "to interrupt our background thread" as its comment has it, does
not reach the listener. `OkResultIsSnapshot`
has two more hypotheses, `torn` (both threads in `_scan`) and `failed` (a failed
scan's callback clears the list while another's code is still to be read); both
were found necessary by the checker. `NoListenerAfterClose`, `OneLateCallback` and
`LateTouchByAnotherScan` bound what a callback can find after the members of the
wrapper are gone: those are destroyed *before* `_wifi`, whose destructor joins the
listener. An early return of `startScan` calls nobody, so the call then waits out
its 20 s; `ScanReturns` shows that it does end.

**wifi_power.** `PowerRestored`, `FullPowerLeftAlone` and `AssociationKept` are
relative to interference that the code cannot know of (`disturbed`,
`overruled`, `mayBreak`); `power()` takes a failed association check
for "not associated", which is what `mayBreak` covers.

**cell_loop.** `OwnAnswer`: as long as no dispatch has timed out, each is woken by its own
callback and returns its code. `dispatch()` is modelled store by store, because no lock keeps
a source that was left behind out of it: `_callback`, `_rc` and the event are set one after the other,
and between the end of the wait (`GlibMainLoopDispatcher.h:92-97`) and the reading of `_rc` (`:102`)
the late callback (`:115`) can replace the error by SPI_OK. An `open` that has timed out then
counts as opened, the call goes on, and the signal that is still to come can wake the
`getIMEI` after it. What the property says of that case is what is left: `getIMEI` may be
woken by the signal of another but never returns the SPI_OK of another, since it has
reset `_rc` before; only `close`, whose code nobody reads, can.
`NothingDangles` says what it takes for the loop to write to what is gone or is being
copied: a timeout, or for the cells a change of the network. A failed `open` whose code
is ignored does not suffice; one of its conjuncts, `DeadContextOnlyAfterFailedOpen`, is
about a context that a thread which could not be created has never set, for
all that `getContext` asserts it. `IdleMeansReported` concerns lost and repeated
reports, with its conjunct `ReportMatches`. `UserReturns` holds in spite of `getIMEI` waiting under the mutex, thanks
to the deadline; the exception `QuitLost` is a `g_main_loop_quit` that comes
before `g_main_loop_run`.

**gps_feed.** `PositionAtItsTime` and `FixesInOrder` state what is true of
the merge of sentences across midnight; the plain claim of `GPSData.h` is
violated (`gps_time`): GGA carries no date, so the first fix after midnight, if
GGA comes before RMC, is one day early. `FramingRecovers`: one intact sentence is lost after a
disturbance, no more; except for a byte 0 of noise. `Sentence::find` (`Sentence.cpp:164-181`) searches a C
string (`NMEAProtocol.cpp:29`), so such a byte hides every sentence after it until the buffer is given
up (`GPSProtocol.cpp:71`), which cuts one more. The property bounds that loss by what fits in the
buffer (`MayBeLost`): with the code's 1024 bytes that is about a dozen sentences. `ReaderEndsWithClose`, `OneLateDelivery` and `UserReturns`
are about the read thread, which polls a port at end of file without pause and
ends on a read error without telling the listener. The port outlives the thread, so it never
waits on the number of a file that is closed. What stays open after a call is part of
the model: the two ends of the pipe, which nothing closes, after every call that has come to set
up the port, and the port as well if the protocol's name is unknown.

**sirf_feed.** `MessagesRecovered`: what looks like a header may claim bytes of
later messages; two messages are lost at most, three if the buffer is given up
meanwhile. The hypothesis that no payload contains a header is needed: with a
payload such as `6 7 0 3` in the instance a false message can end inside the next, which
starts another. `DataAsSent`: damaged bytes never become data, and on a clean
line the data are the receiver's last words. Checksum and header are real sums
and bytes; the header bytes are small, so that a false length reaches
neighbouring messages within the instance.

**nmea_merge.** `FieldsHoldTheirTokens`: each value carries, in the model, which
field the receiver meant it for and in which epoch; whichever of the forms of GSA and
RMC a receiver uses, no value ends up in another's field, and the four numbers of a
satellite are of one message. `FixLagsByDamage`: a fix puts together what
several sentences say, and its parts are as many epochs apart as sentences have been
damaged, no more; it lies on the right side of the equator and of Greenwich; a fix without
a position needs a damaged sentence. `GroupDelivered`: after a
whole group of GSV messages its satellites, without the incomplete ones, are what is handed
out until the next group begins; satellites that have expired are handed out once more,
because `tryParse` makes the data first and looks at the timer after. `LoopBack`:
`generate` and `parse` are inverse on everything the merge can hold, except one to
nine hundredths of a second, which `TimeToken::toString` takes for tenths. `hundredths`
shows the defect of the other direction: `hhmmss` leaves the hundredths unset, and they go into
the time of the fix.

**request.** `RequestTellsTheScan`: each usable access point, the cell and each fix is
told once, in order, with MAC and signal as they were on the air. Three things the adapters
are told without looking end the process, which is the stage `crashed`, and the property shows that
nothing else does: an interface without a name, as the kernel dumps a P2P device
(`Nl80211WifiAdapter.cpp:896`), if the dump comes to it; a BSS that counts but has no information
elements (`:621`, whose null pointer `:468` follows), which keeps any request from being made; and an LTE cell
whose area has more than 16 bits, which `LTETower` does not look at and the constructor asserts
(`include/spi/CellTower.h:274`). The assertions are live: the build of the README sets no build type, so `NDEBUG`
is not defined, and nothing in the repository defines `WPS_NO_ASSERT`. `SsidIsTold`: the
server reads the name of the beacon, or no name at all if XML has no way to
write it; the reference in the property is the definition of UTF-8 and of XML's characters, not
the code's tests. A carriage return gets through the tests and is not escaped
(`XmlUtils.cpp:62-81`, `:161`), and every parser makes a line feed of it, with a line feed after it or not
(XML 1.0, 2.11): the property says that names with one, and no others, are read as another name. The
"1-32 characters" of `Protocol.cpp:260` are looked after by nobody: a name of any length is told. `AgesAreTrue`: ages are right
across the wrap-around of the timers as long as nobody sets the clock of the host. `include/spi/Time.h:163`
promises "a continuously increasing number of milliseconds", but the monotonic clock is read only with
`HAVE_CLOCK_GETTIME`, which is defined nowhere (`UnixTime.cpp:50-58`); the property says exactly by how much ages are wrong
otherwise. `CellIsCurrent`: the cell told is what the first modem online says last, and none if
its numbers name none, by the ranges of the standard. The codes are put in an `unsigned short`
first (`OfonoCellAdapter.cpp:369-370`), so the ranges are applied to their last 16 bits: 65846 is told as 310. `P2pOnlyIfNoOther`: a Wi-Fi Direct
interface, although stored before it is skipped, is used only where there is no other.

**location_call.** `OkIsAnswered` and `UnauthorizedIsTold` tie the return code
to what the server really said, over all points at which an exchange can break.
`AgeOfFirstLocation`: `timeDelta` is carried from one location to the next, but
the returned location is the first, which it cannot reach.
`RequestHasWhatWasHeard`: what the radios reported by the end of the scan is
asked about. A status line is taken only if it has 15 characters (`CurlXmlHttpRequest.cpp:268`); that of HTTP/1.1
without the space before an empty reason is shorter, and so is the one libcurl makes of HTTP/2, so each status line in the
model may be one that is passed over (`full`), and the properties say what is left: without the server's status line
the one before it stands, a proxy's 200 or none.
`ImplementsApi` is the refinement. `LocationApi` with no departures is the header to the letter: RADIO_NOT_AVAILABLE
only if no radio was detected, TIMEOUT and nothing else for a network operation that has timed out,
a location that cannot be determined only from an answer. The code does not keep that. The four ways it departs from it have names,
and `LocationCall` takes all four:

| Departure | What the code does | Line |
|---|---|---|
| `other_radios` | RADIO_NOT_AVAILABLE without Wi-Fi, whatever GPS and cell have | `skyhookliteclient.cpp:404` |
| `failed_scan` | RADIO_NOT_AVAILABLE for a scan that has failed | `skyhookliteclient.cpp:411` |
| `timeout` | SERVER_UNAVAILABLE, or what a status says that came before, never TIMEOUT | `skyhookliteclient.cpp:341` |
| `unanswered` | LOCATION_CANNOT_BE_DETERMINED after a proxy's 200 and no answer | `CurlXmlHttpRequest.cpp:94` |

None of them is idle: with any one taken out of `Departures` in `LocationCall`, TLC finds `ImplementsApi` violated.
`CallReturns` is termination.

### Bounds

* Access points, cells, positions: what the properties compare is whether a set is
  the right one, so one element beside the empty set (two where a wrong one must be
  told from a right one) is enough.
* Foreign scans: one is enough for both crossings and for a second notification
  (the second comes from the caller's own scan). Two multiply the states without a
  new kind of event; the theorems cover any number.
* Epochs and `DayLength`: an epoch before and one after midnight; ten units keep
  the position of one day distinct from times of another. The buffer of 5
  pieces fills with one broken line and what follows.
* SiRF: with 33 bytes, three messages fit before the buffer is given up, so that a
  loss of three is seen both with and without it; five messages after the
  disturbance show that it is over.
* Nodes of an answer: with two there is a location, an error or another node before the
  first location, and a second location after one with a request time. The theorems cover any length.
* Adapters: two in a row show what the first leaves to the second.
* NMEA: two satellites in a GSV message (four in the code), up to three messages, two places for
  satellites in use (twelve), with views of none, one and three, so that there are groups
  of no, one and two messages and one that is not full. GSV_TIMEOUT is one epoch: satellites
  are seen to expire within the three. Two damages take out a GGA and another sentence, or two of a
  group. The dialects differ in the form of GSA, of RMC, of the time and of
  absent satellites; tokens are values that know their field, not characters.
* Request: timers of 16 ticks (`Half = 8`) that start at 0 or 14, so that they run over in
  the call; the clock is set by four either way, which makes ages negative and large.
  Three events are enough for a change of cell, a tick and a fix, or two of a kind; two
  fixes, since an epoch is kept once. A place differs from an ordinary one in one respect (the name, signal
  or attributes of one BSS, the numbers of the cell, the modems or the interfaces), since
  no step treats two of these together; every boundary of a range and its neighbours are among them.

`CHECK_DEADLOCK FALSE` is in every .cfg, as a call ends, a bounded receiver falls
silent, and nothing happens afterwards.

### Fairness

| Module | Fair | Why |
|---|---|---|
| `WifiScan` | `Main`, `Listener`, `ScanFinishes` | runnable threads are scheduled, waits have a timeout; the kernel ends each scan it has begun, with results or by aborting it |
| `CellLoop` | `User`, `Loop` | threads are scheduled; deadlines fire |
| `GpsFeed` | `User`, `Reader` | threads are scheduled |
| `LocationCall` | `Main`, `Expires` | the thread is scheduled; CURLOPT_TIMEOUT is set to 30 s (`CurlXmlHttpRequest.cpp:150`) |
| `WifiPower`, `SirfFeed`, `NmeaMerge`, `Request` | none | only safety is stated |

All fairness is weak. Other programs, the modem, the receiver, the proxy and the
server are never assumed to do anything.

## Theorems

All of them hold for every value of the constants; the only assumptions are the
named ones on the constants. Those called `...Assumption` say that the bounds are
natural numbers, that "no cell" is not a cell, that a day has more than one unit and
that the buffer of the GPS protocol takes a sentence and what can be left of another
(the code's, of 1024 bytes, holds some twelve sentences). One more is about the
length of a call: `CallWithinADay` (`GpsFeed`) has the epochs of a call fit in a day. A
call lasts some minutes at most by the timeouts of its radios and of the exchange; without the
assumption a time of day would not tell an epoch from that of the day before.
`ModemsAssumption` (`Request`) gives modems and registrations their types: the numbers of a cell
are any integers, and the conversions of the code are part of the model. `RadiosAssumption`
gives the tables of the kernel and the interfaces theirs: an interface may have a name, which then is not empty, or
none, and the information elements of a BSS may be missing like its other attributes.
`WifiScan`'s bound on foreign scans and `CellLoop`'s on changes play no part.

None of the properties is inductive. Each module states the invariant that is, in named
parts, and proves that the initial states have it, that every action keeps each part, and
that the properties follow from it. All these invariants have been checked by TLC on the
instances of the runs before.

* `WifiScanProofs`: `TypeCorrect`, and from the inductive invariant the theorems on
  `SocketInStep`, `NoListenerAfterClose` and `OneLateCallback`. `IInv`, proved together
  with `TypeOK`, has four conjuncts: `AwaitInv` (who is inside `doRequest`, by program counters), `SocketInv` (numbers and
  queue, while nothing has crossed), `LifeInv` (the thread exists only between `open`
  and the join) and `LateInv` (after the cancel the listener is in the course of at
  most the notification it had taken). The socket
  argument is made once, for the three outcomes of a request (it fails, it leaves
  an answer behind, it awaits one) and for receiving a reply, and each action
  cites it. `OkScanIsSnapshot` and `LateTouchTakesTwo` rest on a second invariant, `ResultInv`,
  which follows a table of the kernel's on its way: in the replies, or in what the listener
  has heard of them (`HeardInv`, with `TableAhead` and `EndAhead`); in `_scan`, from the moment it
  is copied there to the return of `scan()`, as long as the two threads do not meet in it (`ScanInv`);
  and counts the notifications the listener has taken (`HandledInv`): the event is
  signalled when the handling of one is over, so a callback after that belongs to another.
* `CellLoopProofs`: the type invariant, `OwnAnswer`, `IdleMeansReported`, `NothingDangles` and
  `LoopConfinesAdapter`, all from one `IInv`. What it adds: the dispatch at which the user
  thread is agrees with its place, and the task of the loop with its own (`OpInv`,
  `TaskInv`); as long as nothing has timed out there is exactly one source, attached or being
  run, from the attaching to the signal (`OneSource`), and it is that of the operation waited for
  (`PromptInv`), so that an answer is the dispatch's own. After a timeout what is left is
  said by `OwnInv`: an `open` that has timed out either fails, and ends the loop, or has returned
  the code of its own callback, so that `getIMEI` finds no source left from before (`OwnSource`); the signal of
  `open` can still be due, but the SPI_OK in `_rc` is that of the own callback once `_rc` has been reset (`OwnCode`). Hence
  `getIMEI` can be woken wrongly, and `close` alone be answered wrongly. `CtxInv`
  relates the context to the start and end of the thread, `LifeInv` the thread to the adapter,
  `DangleInv` accounts for the changes of the network, and `ReportInv` says how far a report
  has got with the cell it has seen.
* `GpsFeedProofs`: the type invariant, `ReaderEndsWithClose`, `OneLateDelivery` and
  `FramingRecovers`. The first needs the most work, for the operators of parsing are nested and
  each gets a lemma; with it comes the bound of the buffer. The two on the thread follow
  from `ControlInv`, which speaks of nothing but the places of the two threads and the stop byte.
  `FrameInv` is the argument for the framing: of the first intact sentence after
  a disturbance it says at each of its three pieces what can be in the buffer (`FirstInv`: whatever
  the disturbance has left, after that sentence no line is begun and there is room for
  another), and of the second that it is recognised (`SecondInv`). Behind a byte 0 the sentences are
  counted by the room they take (`HiddenInv`): each fills three places of a buffer that is given up before it is full.
  Its last part proves `PositionAtItsTime` and `FixesInOrder`, for any number of epochs within a
  day. Both are about the past of the data, and the induction is over the sentences that
  are *pending*: in the buffer, on the line or about to be sent. `OnceInv` and `QueueInv` say
  that each is pending once and the oldest comes first; `Told`, what the merged data can be (a time, a
  position that is of that time, a date that is that day's or an earlier one's);
  `Before`, that they are of before every pending sentence; `FixOK`, that no pending
  sentence can give a fix the stamp of one that is there, unless it is the last one, with which a new
  one is compared. `LossInv` is for fixes without a position. The day is `Stamp`, division by
  `DayLength`; the lemmas on it hide its product from the provers.
* `NmeaMergeProofs`: all of `NmeaMerge`, for any size of the groups of GSV messages and
  of the lists, any receiver of the dialects, any number of epochs and of damaged sentences. The first
  half is about parsing a sentence, without any state: which format takes it (`KindRecognised`,
  `GsvRecognised`: the head and the number of tokens leave one alone), and what it leaves in the fields
  (`KindMerged`, `MessageMerged`; a GSV of no satellites that is not padded is none, `BareGsvMerged`).
  `OneSentence` sums this up: every step of the receiver is one of three, a sentence of a kind, a
  message of the group, or nothing heard. On it rest three invariants. `FieldsInv`: every field
  holds what was said of it. `FixInv`: the last GGA that came through is as many epochs old as sentences
  have been damaged, at most; heights are of its epoch exactly, positions of it or of a later one
  (`FixAsOld`). `GroupInv`: the timer of the satellites is the time GSV came through last, or there are no
  satellites left (`StaleInv`); and while a group goes on, what has been heard of it is at its places,
  if no message was lost (`HeardInv`), so that after the last one it is all there is (`ToldInv`).
  Its last part is about the sentences the library writes itself, `LoopBack`. `PlainInv`: every field
  holds a value its token can print (`PlainSurvives`). Then each sentence by itself gives back
  the fields it has, neither more nor less (`ReadBack`, `KindReadBack`; `MessageReadBack` for a GSV,
  whose places come and go together), and no format but its own takes it (`ChainIsExact`). What has been read after
  the first `i` sentences is what was written, restricted to their fields (`AllReadBack`). `Parse`
  is a recursive function: the restrictions obey its equations, so there is one, and two that
  obey them differ nowhere, for they would differ at a least sentence (`ParseIs`).
* `RequestProofs`: all five properties of `Request`, for any cells, access points, fixes, interfaces and
  timers. `CellInv` says that the cell both the
  adapter and the wrapper know is read of the registration of the serving modem; that a report
  which is suppressed leaves it so is `CachedWillDo`, from `CellsAreOrdered` of `ValuesProofs`; that
  the ranges of the constructors are those of the standard, `NamesCellIsCell`; and that
  another registration does not change which modem serves, `CurrentModemStays`, from the
  existence of a least number in a set. `TimeInv` and `FixInv` say at what moment each timer has
  been read, and `DeltaIsTheDifference` turns that into ages. `ApsInv` has the access points be
  those of the dump that can be told, in the order of the dump (`KeptInOrder`: an index is found by
  how many lie below it), and `SentInv` relates the elements of the request to all of these.
  That an SSID is left out only if XML cannot carry it, and is read back with its line ends and otherwise as it was, comes from
  `TestIsExact` and `EscapedIsRead`. `InterfaceInv` follows the choice of the interface through the
  list, for `P2pOnlyIfNoOther`. `CrashInv` has the three reasons for which the process can end, and no fourth; the lemmas
  `NamelessFirstIs`, `DumpBreaksIs` and `AreaBreaksIs` compare the code's way to each with what the properties say of it.
* `WifiPowerProofs`: the type invariant and the three properties. `PowerInv` says, for
  each phase of an adapter, how the interface and `shouldBringDown` are related
  (`Untouched`, `Raised`); the two action properties follow from the invariants `LeaveInv`
  (an interface found up is never set to be changed) and `CheckedInv` (an
  association at the time of the change is one the check did not see).
* `LocationCallProofs`: the type invariant, `RequestHasWhatWasHeard`, `OkIsAnswered`,
  `AgeOfFirstLocation`, `UnauthorizedIsTold`, and `CallImplementsApi`, that
  `LocationCall` implements `LocationApi`. The invariant adds to the properties
  what is in the request while it is under way (`ScanInv`, `HeardInv`), how far
  the call and the exchange have got relative to each other (`CallInv`,
  `NetInv`), which radios are there (`RadiosInv`), and what the status is if the server's status line has not been
  taken (`NetInv`). The refinement maps each action to an action of `LocationApi` or a
  stutter, in lemmas by kind of step (`DetectStep`, `RefuseStep`, `FailStep`,
  `HearStep`, `Stutter`).
* `ValuesProofs`: facts about the operators of `Values`, for any width of a timer, which
  `Request` uses and the comparisons of the SPI are made of. Timers: the
  difference of two is the difference of their moments while that is below half the range
  (`DeltaIsTheDifference`, from the uniqueness of remainders), hence the newer sorts first
  (`NewerTimerIsLess`) and, half a range apart, both sort last
  (`OppositeTimersAreBothOlder`). Orders: a comparison is an order of three readings if it is
  `Consistent`, and comparisons in a row (`Then`) of consistent ones are consistent; MACs
  sort as the numbers they are, digit by digit (`MacsSortAsNumbers`), and from these come
  `AccessPointsAreOrdered`, `ScannedCellsAreOrdered` and `CellsAreOrdered`. Readings from
  half the range of a timer are the hypothesis, without which they are false.
  `OlderFixesSortFirst` proves the opposite of the comment in `Fix::compare`
  (`spi/gps/GPSData.cpp:38`), whose negation turns round an order that `Timer::compare` has
  already turned. Numbers: towers and their global identifiers
  (`TowersHoldTheirRanges`: the constructor's assertions hold of every tower but an LTE one with an area of more
  than 16 bits; `GlobalIdIsUnique`, `AdjacentCellsShareController`), times
  (`TimeComesBack`, `GpsTimesAreInOrder`) and `DeadlineIsExact`, which finds the one wait
  whose deadline is malformed: nanoseconds that make a second exactly are not carried.
  The last part is about `XmlText`. `TestIsExact`: `xmlUtf8Test` accepts exactly the
  sequences of bytes that are UTF-8, each character in its shortest form, of characters XML 1.0
  allows; one step of the decoder is compared with the table of RFC 3629 (`AcceptedIsInTable`).
  `EscapedIsRead`: what a parser reads of `xmlEscape(s)` is `s` with the line ends XML has (`LineEnds`), which is `s` itself
  exactly if no carriage return is in it. Both functions are recursive. That there
  is a function which obeys the equations is `Recursion` (an index where every attempt fails would have a
  least one), and what it computes is shown by taking the least, or the last, index at which it would fail.
  The comparisons are part of the library's SPI but nothing inside it sorts, so no run
  meets them and the theorems stand alone.

Only model-checked: all liveness (`ScanReturns`, `UserReturns`, `CallReturns`; it rests on
fairness, out of the prover's reach), and all of `SirfFeed`. The properties of
`SirfFeed` do not hold for every value of its constants, for the framing cannot tell a header from the
same bytes within a payload, and a length that has been damaged upwards swallows as many messages
as fit in the buffer: they are checked for the contents and lengths of the runs.

Types are checked with the rest: the type invariants of `SirfFeed`, `NmeaMerge` and `Request` are
conjuncts of the properties their runs check.

## Not modelled, and simplifications

* Wi-Fi: the answers of the kernel are decoded by libnl and taken as their attributes;
  information elements are a sequence, so a length that runs over the end of the attribute
  is not among them. The index of an interface (`Nl80211WifiAdapter.cpp:897`) comes with its name. `getHardwareMAC` counts by its outcome. An error that ends the listener silently is
  modelled; the choice among the errnos that lead there is not.
* Cell: D-Bus proxies answer, fail or do not answer. Modems do not come or go online during
  a call: the adapter would not notice.
* GPS: line settings (baud rate, parity), `setTimeout` (not implemented in the
  code). In `GpsFeed` a sentence travels as three pieces, its begin, its payload and its line
  end, and its payload says whether it is intact. In `NmeaMerge` a damaged sentence is
  one whose checksum fails.
  A SiRF message 4 below its fixed size, which the code reads past its end,
  is left out. Units (`nmea/Units.h`) and calendar dates are conversions of numbers.
* Server protocol: the parameters of the authentication, and the fields of a location besides its
  position and age.
* `Request`: the fixes' numbers and the access points' flags are not told apart; of a fix only
  the presence of altitude and height is.
* `LocationCall`: the ways in which the adapters end the process are in `Request` and not here. The Skyhook-Meta
  header, and the MD4 digest of the MAC or the IMEI that makes the user name (`skyhookliteclient.cpp:229-292`), of which
  the model has whether there is a name; reports between `gps.open` and
  `cell.open` are folded into those after both. Errors of libcurl are one besides the timeout,
  since the API tells none of them apart.
* Reads of memory after its destruction, and overlapping accesses, are recorded
  (`lateTouch`, `broken`, `torn`) and the steps continue as if the value were
  still there, or with an arbitrary result; properties that could not be relied on then
  say so in their hypotheses.
* Libraries, logging, null and static adapters, the sample, the third-party digest: see
  PROJECT.json.

## Plan

Written so far, in this order: `WifiScan`, `WifiPower`, `CellLoop`, `GpsFeed`,
`LocationApi` and `LocationCall`, `SirfFeed`, with the proofs of the three that
decide the result of a call; then `NmeaData`, `NmeaSentence` and `NmeaMerge`, `Values` with its
proofs, `XmlText`, `Beacons` and `Request`. Left:

1. The line settings of `UnixSerialPort` and its `setTimeout`, once it does something.
2. `Request` with `parseLocationRS`'s other fields and the authentication.
3. Proofs: `DataAsSent` of `SirfFeed` under an assumption that no payload holds a header.
