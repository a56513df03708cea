------------------------------ MODULE WifiScan ------------------------------
(***************************************************************************)
(* One Wi-Fi scan of SHLC_location: the WifiWrapper of the API, the        *)
(* nl80211 adapter behind it, and what they share.                         *)
(*                                                                         *)
(* Two threads run.  "main" is the caller of SHLC_location: it creates and *)
(* opens the adapter, asks for a scan, waits on an event for at most       *)
(* TIMEOUT and destroys everything on the way out.  "listener" is the      *)
(* thread open() starts: it waits for the kernel's "scan" notifications,   *)
(* fetches the scan table and calls the wrapper back.  Both talk to the    *)
(* kernel through one netlink socket, _nl80211Sock, with no lock; the      *)
(* wrapper's _rc and _scan are not locked either, only _event is.          *)
(*                                                                         *)
(* Variables named after the source keep its names.  A reply on the socket *)
(* is a record [seq, kind, aps]; a table of access points is a subset of   *)
(* APs.                                                                    *)
(***************************************************************************)
EXTENDS Naturals, Sequences

CONSTANTS
  APs,           \* the access points the radio can see
  MaxForeign     \* bound: scans that other programs start in the kernel

ASSUME WifiScanAssumption == MaxForeign \in Nat

VARIABLES
  mpc,           \* where the calling thread is
  lpc,           \* where the listening thread is
  isOpen,        \* _listeningThread # 0
  cancel,        \* the eventfd _cancelFd has been written
  events,        \* notifications queued on the listener's eventSock
  subscribed,    \* eventSock has joined the multicast group "scan"
  seqNext,       \* _nl80211Sock: sequence number of the next request
  seqExpect,     \* _nl80211Sock: sequence number the next reply must carry
  replies,       \* _nl80211Sock: replies of the kernel not yet received
  awaiting,      \* the threads inside nl_recvmsgs(_nl80211Sock)
  multi,         \* per thread: it is in the middle of a multipart reply
  heard,         \* the listener's local vector "scan"
  code,          \* the listener's local "code"
  signalled,     \* _event._signalled
  rc,            \* WifiWrapper::_rc
  scan,          \* WifiWrapper::_scan
  result,        \* what SHLC_location makes of the scan
  scannedAPs,    \* scan.aps of SHLC_location
  scanning,      \* the kernel is scanning
  table,         \* the kernel's table of scan results
  foreign        \* scans started by other programs so far

(* History: none of the steps reads these.                                 *)
VARIABLES
  crossed,       \* a request was sent on _nl80211Sock before the answer
                 \* to an earlier one had been read
  snapshots,     \* the tables the kernel has handed to the listener
  torn,          \* two threads were in _scan at the same time
  failed,        \* onScanFailed() has been called, by either thread
  handled,       \* scan results the listener has taken from its socket
  late,          \* callbacks begun after the cancel was written
  lateTouch      \* a callback used members of a destroyed WifiWrapper

sockVars  == <<seqNext, seqExpect, replies, awaiting, multi>>
wrapVars  == <<signalled, rc, scan>>
kernVars  == <<scanning, table, foreign, events>>
outVars   == <<result, scannedAPs>>
adptVars  == <<isOpen, cancel, subscribed>>
lstnVars  == <<lpc, heard, code>>
histVars  == <<crossed, snapshots, torn, failed, handled, late, lateTouch>>

vars == <<mpc, sockVars, wrapVars, kernVars, outVars, adptVars, lstnVars,
          histVars>>

Threads == {"main", "listener"}

Reply == [seq : Nat, kind : {"data", "done", "ack", "err"}, aps : SUBSET APs]

(* The members _event, _rc and _scan are destroyed before _wifi, which is  *)
(* declared first and whose destructor joins the listener.                 *)
MembersAlive == mpc \notin {"close", "join", "powerDown", "powerDownReply",
                            "done"}

-----------------------------------------------------------------------------
(* The netlink socket (libnl and the kernel, external).                    *)

Answer(kind, aps) == [seq |-> seqNext, kind |-> kind, aps |-> aps]

(* A dump is answered by the entries and a closing DONE.                   *)
Dump == <<Answer("data", table), Answer("done", {})>>

(* nl_send_auto_complete: number the request and hand it to the kernel,    *)
(* which queues its answer at once.                                        *)
Request(answer) ==
  /\ seqNext' = seqNext + 1
  /\ replies' = replies \o answer

(* doRequest up to nl_recvmsgs.  The request cannot be sent; it is sent    *)
(* but no callback handle can be allocated and its answer stays queued; or *)
(* the thread goes on to wait for the answer.                              *)
SendFails == UNCHANGED <<sockVars, crossed>>

SendLeaves(answer) ==
  /\ Request(answer)
  /\ crossed' = TRUE
  /\ UNCHANGED <<seqExpect, awaiting, multi>>

SendAwaits(t, answer) ==
  /\ Request(answer)
  /\ awaiting' = awaiting \union {t}
  /\ multi' = [multi EXCEPT ![t] = FALSE]
  /\ crossed' = (crossed \/ awaiting # {} \/ replies # <<>>)
  /\ UNCHANGED seqExpect

(* nl_recvmsgs: one reply is read, whoever it answers.  A reply that does  *)
(* not carry the expected number or carries an error ends the call with a  *)
(* failure; DONE ends it with success, and so does an acknowledgement,     *)
(* unless parts of a multipart reply were read before.                     *)
InStep == Head(replies).seq = seqExpect
ReceiveFails == ~InStep \/ Head(replies).kind = "err"

(* Faulty variant: one message is read per request.                        *)
ReceiveOnce(t) == FALSE

ReceiveGoesOn(t) ==
  /\ ~ReceiveFails
  /\ \/ Head(replies).kind = "data"
     \/ Head(replies).kind = "ack" /\ multi[t]

ReceiveReply(t) ==
  /\ t \in awaiting
  /\ replies # <<>>
  /\ replies' = Tail(replies)
  /\ seqExpect' = IF InStep /\ Head(replies).kind # "data"
                  THEN seqExpect + 1 ELSE seqExpect
  /\ multi' = [multi EXCEPT ![t] = @ \/ Head(replies).kind = "data"]
  /\ awaiting' = IF ReceiveGoesOn(t) THEN awaiting ELSE awaiting \ {t}
  /\ UNCHANGED <<seqNext, crossed>>

-----------------------------------------------------------------------------
(* The calling thread: SHLC_location and what it calls.                    *)

Goto(p) == mpc' = p

Give(r) == result' = r /\ UNCHANGED scannedAPs

(* WifiWrapper::open up to WifiAdapter::open: there may be no interface,   *)
(* or the adapter's sockets cannot be set up, or open() cannot create the  *)
(* eventfd or the thread.                                                  *)
OpenFails ==
  /\ mpc = "open"
  /\ Goto("close")
  /\ Give("RADIO_NOT_AVAILABLE")
  /\ UNCHANGED <<sockVars, wrapVars, kernVars, adptVars, lstnVars, histVars>>

(* WifiAdapter::open: the listening thread is started first, the interface *)
(* is brought up after that.                                               *)
Open ==
  /\ mpc = "open"
  /\ isOpen' = TRUE
  /\ lpc' = "setup"
  /\ Goto("powerUp")
  /\ UNCHANGED <<sockVars, wrapVars, kernVars, outVars, cancel, subscribed,
                 heard, code, histVars>>

(* power(): the association check fetches the scan table through           *)
(* _nl80211Sock; the rest of power() goes through _routeSock and is        *)
(* modelled in WifiPower.                                                  *)
PowerRequest(from, reply, next) ==
  /\ mpc = from
  /\ \/ Goto(next) /\ SendFails
     \/ Goto(next) /\ SendLeaves(Dump)
     \/ Goto(reply) /\ SendAwaits("main", Dump)
  /\ UNCHANGED <<wrapVars, kernVars, outVars, adptVars, lstnVars, snapshots,
                 torn, failed, handled, late, lateTouch>>

PowerReply(reply, next) ==
  /\ mpc = reply
  /\ ReceiveReply("main")
  /\ IF ReceiveGoesOn("main") THEN UNCHANGED mpc ELSE Goto(next)
  /\ UNCHANGED <<wrapVars, kernVars, outVars, adptVars, lstnVars, snapshots,
                 torn, failed, handled, late, lateTouch>>

PowerUp        == PowerRequest("powerUp", "powerUpReply", "username")
PowerUpReply   == PowerReply("powerUpReply", "username")
PowerDown      == PowerRequest("powerDown", "powerDownReply", "done")
PowerDownReply == PowerReply("powerDownReply", "done")

(* getDeviceUsername: neither the hardware MAC nor the IMEI may be known.  *)
Username ==
  /\ mpc = "username"
  /\ \/ Goto("clear") /\ UNCHANGED outVars
     \/ Goto("close") /\ Give("UNAUTHORIZED")
  /\ UNCHANGED <<sockVars, wrapVars, kernVars, adptVars, lstnVars, histVars>>

(* WifiWrapper::scan *)
Clear ==
  /\ mpc = "clear"
  /\ signalled' = FALSE
  /\ Goto("startScan")
  /\ UNCHANGED <<sockVars, rc, scan, kernVars, outVars, adptVars, lstnVars,
                 histVars>>

(* startScan() gives up without a callback when it cannot build its        *)
(* message.                                                                *)
StartScanGivesUp ==
  /\ mpc = "startScan"
  /\ Goto("wait")
  /\ UNCHANGED <<sockVars, wrapVars, kernVars, outVars, adptVars, lstnVars,
                 histVars>>

(* NL80211_CMD_TRIGGER_SCAN: an idle kernel may start to scan; it refuses  *)
(* when it is scanning or the interface is down.                           *)
StartScan ==
  /\ mpc = "startScan"
  /\ \/ /\ Goto("failRc")
        /\ SendFails
        /\ UNCHANGED scanning
     \/ /\ ~scanning
        /\ scanning' = TRUE
        /\ \/ Goto("failRc") /\ SendLeaves(<<Answer("ack", {})>>)
           \/ /\ Goto("startScanReply")
              /\ SendAwaits("main", <<Answer("ack", {})>>)
     \/ /\ UNCHANGED scanning
        /\ \/ Goto("failRc") /\ SendLeaves(<<Answer("err", {})>>)
           \/ /\ Goto("startScanReply")
              /\ SendAwaits("main", <<Answer("err", {})>>)
  /\ UNCHANGED <<wrapVars, table, foreign, events, outVars, adptVars,
                 lstnVars, snapshots, torn, failed, handled, late,
                 lateTouch>>

StartScanReply ==
  /\ mpc = "startScanReply"
  /\ ReceiveReply("main")
  /\ IF ReceiveGoesOn("main")
     THEN UNCHANGED mpc
     ELSE Goto(IF ReceiveFails THEN "failRc" ELSE "wait")
  /\ UNCHANGED <<wrapVars, kernVars, outVars, adptVars, lstnVars, snapshots,
                 torn, failed, handled, late, lateTouch>>

(* onScanFailed(SPI_ERROR), called by startScan() on the calling thread:   *)
(* _rc, _scan (the clear begins and ends) and the signal.                  *)
FailRc ==
  /\ mpc = "failRc"
  /\ rc' = "error"
  /\ failed' = TRUE
  /\ Goto("failScan")
  /\ UNCHANGED <<sockVars, signalled, scan, kernVars, outVars, adptVars,
                 lstnVars, crossed, snapshots, torn, handled, late, lateTouch>>

FailScan ==
  /\ mpc = "failScan"
  /\ Goto("failScanEnd")
  /\ UNCHANGED <<sockVars, wrapVars, kernVars, outVars, adptVars, lstnVars,
                 histVars>>

FailScanEnd ==
  /\ mpc = "failScanEnd"
  /\ IF torn THEN scan' \in SUBSET APs ELSE scan' = {}
  /\ Goto("failSignal")
  /\ UNCHANGED <<sockVars, signalled, rc, kernVars, outVars, adptVars,
                 lstnVars, histVars>>

FailSignal ==
  /\ mpc = "failSignal"
  /\ signalled' = TRUE
  /\ Goto("wait")
  /\ UNCHANGED <<sockVars, rc, scan, kernVars, outVars, adptVars, lstnVars,
                 histVars>>

(* Event::wait(TIMEOUT): the flag is tested before the first wait on the   *)
(* condition; once blocked, the timeout and the signal race.               *)
WaitBlocks ==
  /\ mpc = "wait"
  /\ ~signalled
  /\ Goto("blocked")
  /\ UNCHANGED <<sockVars, wrapVars, kernVars, outVars, adptVars, lstnVars,
                 histVars>>

WaitReturns ==
  /\ mpc \in {"wait", "blocked"}
  /\ signalled
  /\ Goto("readRc")
  /\ UNCHANGED <<sockVars, wrapVars, kernVars, outVars, adptVars, lstnVars,
                 histVars>>

(* Faulty variant of the next action: the wait has no deadline.            *)
WaitNeverTimesOut == FALSE

WaitTimesOut ==
  /\ mpc = "blocked"
  /\ Goto("close")
  /\ Give("RADIO_NOT_AVAILABLE")
  /\ UNCHANGED <<sockVars, wrapVars, kernVars, adptVars, lstnVars, histVars>>

ReadRc ==
  /\ mpc = "readRc"
  /\ IF rc = "ok"
     THEN Goto("copying") /\ UNCHANGED outVars
     ELSE Goto("close") /\ Give("RADIO_NOT_AVAILABLE")
  /\ UNCHANGED <<sockVars, wrapVars, kernVars, adptVars, lstnVars, histVars>>

(* scannedAPs = _scan: the copy, and the rest of SHLC_location.            *)
Copy ==
  /\ mpc = "copying"
  /\ IF torn THEN scannedAPs' \in SUBSET APs ELSE scannedAPs' = scan
  /\ result' = "SCANNED"
  /\ Goto("close")
  /\ UNCHANGED <<sockVars, wrapVars, kernVars, adptVars, lstnVars, histVars>>

(* ~WifiWrapper has destroyed _scan and _event; ~Nl80211WifiAdapter calls  *)
(* close(), which returns at once if open() never succeeded.               *)
CloseNothing ==
  /\ mpc = "close"
  /\ ~isOpen
  /\ Goto("done")
  /\ UNCHANGED <<sockVars, wrapVars, kernVars, outVars, adptVars, lstnVars,
                 histVars>>

Close ==
  /\ mpc = "close"
  /\ isOpen
  /\ cancel' = TRUE
  /\ Goto("join")
  /\ UNCHANGED <<sockVars, wrapVars, kernVars, outVars, isOpen, subscribed,
                 lstnVars, histVars>>

(* Faulty variant: the thread is cancelled but not joined.                 *)
NotJoined == TRUE

Joined == lpc = "exited"

(* pthread_join, then the eventfd is closed.                               *)
Join ==
  /\ mpc = "join"
  /\ Joined
  /\ isOpen' = FALSE
  /\ cancel' = FALSE
  /\ Goto("powerDown")
  /\ UNCHANGED <<sockVars, wrapVars, kernVars, outVars, subscribed, lstnVars,
                 histVars>>

Main ==
  \/ OpenFails \/ Open \/ PowerUp \/ PowerUpReply \/ Username \/ Clear
  \/ StartScanGivesUp \/ StartScan \/ StartScanReply
  \/ FailRc \/ FailScan \/ FailScanEnd \/ FailSignal
  \/ WaitBlocks \/ WaitReturns \/ WaitTimesOut \/ ReadRc \/ Copy
  \/ CloseNothing \/ Close \/ Join \/ PowerDown \/ PowerDownReply

-----------------------------------------------------------------------------
(* The listening thread.                                                   *)

(* Its socket is closed on every way out, with what is queued on it.       *)
Exit ==
  /\ lpc' = "exited"
  /\ subscribed' = FALSE
  /\ events' = <<>>
  /\ UNCHANGED <<mpc, sockVars, wrapVars, scanning, table, foreign, outVars,
                 isOpen, cancel, heard, code, histVars>>

(* Notifications sent before the group is joined are never seen.           *)
Setup ==
  /\ lpc = "setup"
  /\ subscribed' = TRUE
  /\ lpc' = "poll"
  /\ UNCHANGED <<mpc, sockVars, wrapVars, kernVars, outVars, isOpen, cancel,
                 heard, code, histVars>>

SetupFails == lpc = "setup" /\ Exit

(* poll() or nl_recvmsgs_default() fails: the thread ends and tells no one.*)
ListenFails == lpc = "poll" /\ ~cancel /\ Exit

(* A pending cancel is looked at before a pending notification.            *)
Cancelled == lpc = "poll" /\ cancel /\ Exit

(* Faulty variant: a pending notification is looked at before the cancel.  *)
TakesNotificationFirst == events # <<>>

TakesNotification == ~cancel /\ events # <<>>

(* parseEvent skips every command but NEW_SCAN_RESULTS.                    *)
Notified ==
  /\ lpc = "poll"
  /\ TakesNotification
  /\ events' = Tail(events)
  /\ IF Head(events) = "results"
     THEN lpc' = "getScan" /\ handled' = handled + 1
     ELSE UNCHANGED <<lpc, handled>>
  /\ UNCHANGED <<mpc, sockVars, wrapVars, scanning, table, foreign, outVars,
                 adptVars, heard, code, crossed, snapshots, torn, failed,
                 late, lateTouch>>

(* getScan(parseScannedAp, &scan)                                          *)
GetScan ==
  /\ lpc = "getScan"
  /\ heard' = {}
  /\ \/ /\ lpc' = "getScanReply"
        /\ SendAwaits("listener", Dump)
        /\ snapshots' = snapshots \union {table}
        /\ UNCHANGED code
     \/ /\ lpc' = "cbRc"
        /\ code' = "error"
        /\ SendLeaves(Dump) \/ SendFails
        /\ UNCHANGED snapshots
  /\ UNCHANGED <<mpc, wrapVars, kernVars, outVars, adptVars, torn, failed,
                 handled, late, lateTouch>>

(* Faulty variant: "code" is left as it is declared when getScan() fails.  *)
ScanCodeUnset == IF ReceiveFails THEN "unset" ELSE "ok"

ScanCode == IF ReceiveFails THEN "error" ELSE "ok"

GetScanReply ==
  /\ lpc = "getScanReply"
  /\ ReceiveReply("listener")
  /\ heard' = IF InStep THEN heard \union Head(replies).aps ELSE heard
  /\ IF ReceiveGoesOn("listener")
     THEN UNCHANGED <<lpc, code>>
     ELSE /\ lpc' = "cbRc"
          /\ code' = ScanCode
  /\ UNCHANGED <<mpc, wrapVars, kernVars, outVars, adptVars, snapshots, torn,
                 failed, handled, late, lateTouch>>

(* Faulty variant: the event is signalled before _scan is assigned.        *)
SignalFirst(p) ==
  CASE p = "cbRc" -> "cbSignal" [] p = "cbSignal" -> "cbScan" [] OTHER -> "poll"

(* The order of the statements of the wrapper's two callbacks.             *)
AfterStatement(p) ==
  CASE p = "cbRc" -> "cbScan" [] p = "cbScan" -> "cbSignal" [] OTHER -> "poll"

Touch == lateTouch' = (lateTouch \/ ~MembersAlive)

(* WifiWrapper::onScanCompleted or, with an error code, onScanFailed.      *)
CallbackRc ==
  /\ lpc = "cbRc"
  /\ rc' = code
  /\ lpc' = AfterStatement(lpc)
  /\ late' = IF cancel THEN late + 1 ELSE late
  /\ failed' = (failed \/ code = "error")
  /\ Touch
  /\ UNCHANGED <<mpc, sockVars, signalled, scan, kernVars, outVars, adptVars,
                 heard, code, crossed, snapshots, torn, handled>>

CallbackScan ==
  /\ lpc = "cbScan"
  /\ scan' = IF code = "ok" THEN heard ELSE {}
  /\ lpc' = AfterStatement(lpc)
  /\ torn' = (torn \/ mpc \in {"copying", "failScanEnd"})
  /\ Touch
  /\ UNCHANGED <<mpc, sockVars, signalled, rc, kernVars, outVars, adptVars,
                 heard, code, crossed, snapshots, failed, handled, late>>

CallbackSignal ==
  /\ lpc = "cbSignal"
  /\ signalled' = TRUE
  /\ lpc' = AfterStatement(lpc)
  /\ Touch
  /\ UNCHANGED <<mpc, sockVars, rc, scan, kernVars, outVars, adptVars, heard,
                 code, crossed, snapshots, torn, failed, handled, late>>

Listener ==
  \/ Setup \/ SetupFails \/ ListenFails \/ Cancelled \/ Notified
  \/ GetScan \/ GetScanReply \/ CallbackRc \/ CallbackScan \/ CallbackSignal

-----------------------------------------------------------------------------
(* The kernel's scanner (external).                                        *)

Notify(kind) ==
  events' = IF subscribed THEN Append(events, kind) ELSE events

ScanStartsElsewhere ==
  /\ ~scanning
  /\ foreign < MaxForeign
  /\ scanning' = TRUE
  /\ foreign' = foreign + 1
  /\ UNCHANGED <<mpc, sockVars, wrapVars, table, events, outVars, adptVars,
                 lstnVars, histVars>>

ScanFinishes ==
  /\ scanning
  /\ scanning' = FALSE
  /\ \/ table' \in SUBSET APs /\ Notify("results")
     \/ table' = table /\ Notify("aborted")
  /\ UNCHANGED <<mpc, sockVars, wrapVars, foreign, outVars, adptVars,
                 lstnVars, histVars>>

Kernel == ScanStartsElsewhere \/ ScanFinishes

-----------------------------------------------------------------------------
Init ==
  /\ mpc = "open"
  /\ lpc = "none"
  /\ isOpen = FALSE
  /\ cancel = FALSE
  /\ events = <<>>
  /\ subscribed = FALSE
  /\ seqNext = 1
  /\ seqExpect = 1
  /\ replies = <<>>
  /\ awaiting = {}
  /\ multi = [t \in Threads |-> FALSE]
  /\ heard = {}
  /\ code = "ok"
  /\ signalled = FALSE
  /\ rc = "not_ready"
  /\ scan = {}
  /\ result = "none"
  /\ scannedAPs = {}
  /\ scanning = FALSE
  /\ table \in SUBSET APs
  /\ foreign = 0
  /\ crossed = FALSE
  /\ snapshots = {}
  /\ torn = FALSE
  /\ failed = FALSE
  /\ handled = 0
  /\ late = 0
  /\ lateTouch = FALSE

Next == Main \/ Listener \/ Kernel

(* The two threads are scheduled, the event's timeout expires, and a scan  *)
(* the kernel has started ends.                                            *)
Fairness == WF_vars(Main) /\ WF_vars(Listener) /\ WF_vars(ScanFinishes)

Spec == Init /\ [][Next]_vars /\ Fairness

-----------------------------------------------------------------------------
(* Properties.                                                             *)

MainPlaces == {"open", "powerUp", "powerUpReply", "username", "clear",
               "startScan", "startScanReply", "failRc", "failScan",
               "failScanEnd", "failSignal", "wait", "blocked", "readRc",
               "copying", "close", "join", "powerDown", "powerDownReply",
               "done"}

ListenerPlaces == {"none", "setup", "poll", "getScan", "getScanReply", "cbRc",
                   "cbScan", "cbSignal", "exited"}

(* Every variable of the scan stays within its type.                       *)
TypeOK ==
  /\ mpc \in MainPlaces
  /\ lpc \in ListenerPlaces
  /\ isOpen \in BOOLEAN /\ cancel \in BOOLEAN /\ subscribed \in BOOLEAN
  /\ events \in Seq({"results", "aborted"})
  /\ seqNext \in Nat /\ seqExpect \in Nat
  /\ replies \in Seq(Reply)
  /\ awaiting \in SUBSET Threads
  /\ multi \in [Threads -> BOOLEAN]
  /\ heard \in SUBSET APs
  /\ code \in {"ok", "error"}
  /\ signalled \in BOOLEAN
  /\ rc \in {"not_ready", "ok", "error"}
  /\ scan \in SUBSET APs /\ scannedAPs \in SUBSET APs
  /\ result \in {"none", "SCANNED", "RADIO_NOT_AVAILABLE", "UNAUTHORIZED"}
  /\ scanning \in BOOLEAN
  /\ table \in SUBSET APs
  /\ foreign \in Nat /\ handled \in Nat /\ late \in Nat
  /\ snapshots \in SUBSET SUBSET APs
  /\ crossed \in BOOLEAN /\ torn \in BOOLEAN
  /\ failed \in BOOLEAN /\ lateTouch \in BOOLEAN

(* While no request has been sent over an unread answer, _nl80211Sock is   *)
(* in step: one thread at most is inside doRequest, everything queued      *)
(* answers its request under the number the socket expects, and outside    *)
(* doRequest nothing is queued.  doRequest leaves it so on each of its     *)
(* returns but one, nl_cb_alloc failing after the send.                    *)
SocketInStep ==
  ~crossed =>
    /\ \A s, t \in awaiting : s = t
    /\ \A i \in 1..Len(replies) : replies[i].seq = seqExpect
    /\ IF awaiting = {}
       THEN replies = <<>> /\ seqExpect = seqNext
       ELSE replies # <<>> /\ seqExpect + 1 = seqNext

(* close() is over for its caller once the thread is joined: from then on  *)
(* the listener does not run, so it calls nobody back and does not use the *)
(* socket, the eventfd or the adapter that is being destroyed.             *)
NoListenerAfterClose ==
  mpc \in {"powerDown", "powerDownReply", "done"} =>
    /\ lpc \in {"none", "exited"}
    /\ "listener" \notin awaiting

(* A scan that ends with SPI_OK returns, whole, a table the kernel handed  *)
(* to the listener; unless onScanFailed was called as well (its cleared    *)
(* _scan can be read under the next callback's _rc), two threads were in   *)
(* _scan at once, or requests crossed on the socket.                       *)
OkResultIsSnapshot ==
  result = "SCANNED" /\ ~crossed /\ ~torn /\ ~failed
    => scannedAPs \in snapshots

(* After close() has written the cancel, the listener calls back once at   *)
(* most, for the notification it had already taken: the join does not wait *)
(* for a queue of notifications to be worked off.                          *)
OneLateCallback == late <= 1

(* The wrapper's members are destroyed before the adapter is closed.  A    *)
(* callback finds them gone, after a scan that returned SPI_OK, only if    *)
(* the listener took a second notification or onScanFailed had been called *)
(* too: the scan that was waited for is never the one that does it.        *)
LateTouchByAnotherScan ==
  lateTouch /\ result = "SCANNED" /\ ~failed => handled >= 2

(* What WifiAdapter.h says of close(): any pending callback is called      *)
(* before it returns.  The listener leaves on the cancel with the results  *)
(* it has been notified of still queued.                                   *)
PendingCallbacksAreCalled ==
  [][lpc = "poll" /\ lpc' = "exited" /\ cancel
       => \A i \in 1..Len(events) : events[i] # "results"]_vars

(* SHLC_location gets past the scan and out of the adapter's destructor:   *)
(* neither the wait nor the join lasts for ever, whatever the kernel and   *)
(* the listener do, unless requests crossed on the socket.                 *)
ScanReturns == <>(mpc = "done" \/ crossed)
=============================================================================
