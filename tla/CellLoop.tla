------------------------------ MODULE CellLoop ------------------------------
(***************************************************************************)
(* The cell side of one SHLC_location call: the CellWrapper of the API,    *)
(* GlibCellWrapper, which runs the oFono adapter on a GLib main loop in a  *)
(* thread of its own, the dispatcher that carries calls to that thread,    *)
(* and the adapter.                                                        *)
(*                                                                         *)
(* "user" is the thread of SHLC_location.  It hands open(), getIMEI() and  *)
(* close() to the loop as a source attached to the loop's context, and     *)
(* waits DISPATCH_TIMEOUT at most for the event the source signals; a      *)
(* source whose waiter has given up stays attached.  "loop" is the thread  *)
(* start() creates.  It runs the attached sources, which have the higher   *)
(* priority, and the adapter's reaction to a change of the network.        *)
(*                                                                         *)
(* CellWrapper::_mutex protects the list of cells.  getIMEI() holds it     *)
(* while it waits for the loop, and the loop needs it to report a cell.    *)
(***************************************************************************)
EXTENDS Naturals

CONSTANTS
  Cells,         \* the cells the modem can be registered with
  NoCell,        \* not registered: an empty list, a null _lastCell
  MaxChanges     \* bound: changes of the network

ASSUME CellLoopAssumption == NoCell \notin Cells /\ MaxChanges \in Nat

VARIABLES
  upc,           \* where the user thread is
  op,            \* what it has last dispatched
  lpc,           \* where the loop thread is
  task,          \* what the loop is running: an operation or "signal"
  thread,        \* GlibMainLoopThread::_thread # 0
  ready,         \* _threadReadyEvent is signalled
  context,       \* what _context points to
  running,       \* the main loop's is_running flag
  isOpen,        \* GlibCellWrapper::_isOpen
  callback,      \* GlibMainLoopDispatcher::_callback
  rc,            \* GlibMainLoopDispatcher::_rc
  signalled,     \* GlibMainLoopDispatcher::_event is signalled
  sources,       \* sources attached to the context and not yet run
  mutex,         \* the holder of CellWrapper::_mutex, or "none"
  scannedCells,  \* CellWrapper::_scannedCells
  connection,    \* OfonoCellAdapter::_connection # NULL, _proxy made
  lastCell,      \* OfonoCellAdapter::_lastCell
  seen,          \* the cell reportCell() got from oFono
  code,          \* the code the callback on the loop is to return
  cell,          \* the cell the modem is registered with
  changed,       \* a PropertyChanged message waits on the connection
  changes        \* changes of the network so far

(* History: none of the steps reads these.                                 *)
VARIABLES
  ran,           \* the callback of the present dispatch has been run
  wrongAnswer,   \* the last operation whose dispatch returned SPI_OK although
                 \* its callback had not been run
  wrongWake,     \* the last operation whose wait the signal of an earlier one
                 \* has ended
  timedOut,      \* a dispatch has timed out
  failedOpen,    \* GlibCellWrapper::open() has failed
  detached,      \* start() has given the thread up
  missed,        \* the last reportCell() got no answer from oFono
  broken         \* what was used after its end, if anything was

userVars == <<upc, op, isOpen>>
loopVars == <<lpc, task, seen, code>>
thrdVars == <<thread, ready, context, running>>
dispVars == <<callback, rc, signalled, sources>>
wrapVars == <<mutex, scannedCells>>
adptVars == <<connection, lastCell>>
netVars  == <<cell, changed, changes>>
histVars == <<ran, wrongAnswer, wrongWake, timedOut, failedOpen, detached,
              missed, broken>>

vars == <<userVars, loopVars, thrdVars, dispVars, wrapVars, adptVars,
          netVars, histVars>>

Operations == {"open", "imei", "close"}

(* The string *_imei is a local of CellWrapper::getIMEI.                   *)
InDispatch == {"dispatch", "reset", "clear", "attach", "waiting", "leaving"}

ImeiAlive == op = "imei" /\ upc \in InDispatch

(* _scannedCells is the last member of CellWrapper and goes first.         *)
CellsAlive == op # "close" /\ upc \notin {"free", "done"}

-----------------------------------------------------------------------------
(* GlibMainLoopThread::start and stop, on the user thread.                 *)

StartFails ==
  /\ upc = "start"
  /\ upc' = "opened"
  /\ failedOpen' = TRUE
  /\ UNCHANGED <<op, isOpen, loopVars, thrdVars, dispVars, wrapVars, adptVars,
                 netVars, ran, wrongAnswer, wrongWake, timedOut, detached,
                 missed, broken>>

Start ==
  /\ upc = "start"
  /\ thread' = TRUE
  /\ lpc' = "init"
  /\ upc' = "starting"
  /\ UNCHANGED <<op, isOpen, task, seen, code, ready, context, running,
                 dispVars, wrapVars, adptVars, netVars, histVars>>

Ready == ready

Started ==
  /\ upc = "starting"
  /\ Ready
  /\ upc' = "dispatch"
  /\ op' = "open"
  /\ UNCHANGED <<isOpen, loopVars, thrdVars, dispVars, wrapVars, adptVars,
                 netVars, histVars>>

(* STARTUP_TIMEOUT: the thread is detached and forgotten, not stopped.     *)
StartTimesOut ==
  /\ upc = "starting"
  /\ thread' = FALSE
  /\ upc' = "opened"
  /\ failedOpen' = TRUE
  /\ detached' = TRUE
  /\ UNCHANGED <<op, isOpen, loopVars, ready, context, running, dispVars,
                 wrapVars, adptVars, netVars, ran, wrongAnswer, wrongWake,
                 timedOut, missed, broken>>

(* stop(): g_main_loop_quit clears a flag which g_main_loop_run sets.      *)
Quit ==
  /\ upc = "stop"
  /\ running' = FALSE
  /\ upc' = "joining"
  /\ UNCHANGED <<op, isOpen, loopVars, thread, ready, context, dispVars,
                 wrapVars, adptVars, netVars, histVars>>

(* Faulty variant: the thread is told to quit but not joined.              *)
NotJoined == TRUE

Joined == lpc = "exited"

Join ==
  /\ upc = "joining"
  /\ Joined
  /\ thread' = FALSE
  /\ isOpen' = FALSE
  /\ upc' = IF op = "close" THEN "free" ELSE "opened"
  /\ UNCHANGED <<op, loopVars, ready, context, running, dispVars, wrapVars,
                 adptVars, netVars, histVars>>

-----------------------------------------------------------------------------
(* GlibMainLoopDispatcher::dispatch, on the user thread.  Its own mutex    *)
(* is never contended: the loop dispatches nothing.                        *)

(* A context that was freed, or never made, is not there to be asked who   *)
(* owns it: what follows is undefined and is not modelled.                 *)
DispatchToNowhere ==
  /\ upc = "dispatch"
  /\ context \in {"unset", "freed"}
  /\ broken' = broken \union {"context"}
  /\ upc' = "undefined"
  /\ UNCHANGED <<op, isOpen, loopVars, thrdVars, dispVars, wrapVars, adptVars,
                 netVars, ran, wrongAnswer, wrongWake, timedOut, failedOpen,
                 detached, missed>>

(* The three stores that begin a dispatch, one by one: a source that was   *)
(* left behind may be running meanwhile, and no lock keeps it out.  The    *)
(* fourth, _userData, is the same wrapper each time.                       *)
Dispatch ==
  /\ upc = "dispatch"
  /\ context \in {"live", "orphan"}
  /\ callback' = op
  /\ ran' = FALSE
  /\ upc' = "reset"
  /\ UNCHANGED <<op, isOpen, loopVars, thrdVars, rc, signalled, sources,
                 wrapVars, adptVars, netVars, wrongAnswer, wrongWake,
                 timedOut, failedOpen, detached, missed, broken>>

ResetCode ==
  /\ upc = "reset"
  /\ rc' = "error"
  /\ upc' = "clear"
  /\ UNCHANGED <<op, isOpen, loopVars, thrdVars, callback, signalled, sources,
                 wrapVars, adptVars, netVars, histVars>>

(* Faulty variant: the signal of the last dispatch stays.                  *)
NotCleared == UNCHANGED signalled

Cleared == signalled' = FALSE

ClearEvent ==
  /\ upc = "clear"
  /\ Cleared
  /\ upc' = "attach"
  /\ UNCHANGED <<op, isOpen, loopVars, thrdVars, callback, rc, sources,
                 wrapVars, adptVars, netVars, histVars>>

Attach ==
  /\ upc = "attach"
  /\ sources' = sources + 1
  /\ upc' = "waiting"
  /\ UNCHANGED <<op, isOpen, loopVars, thrdVars, callback, rc, signalled,
                 wrapVars, adptVars, netVars, histVars>>

(* The wait ends; _rc is read later, with g_source_unref in between.       *)
Woken ==
  /\ upc = "waiting"
  /\ signalled
  /\ upc' = "leaving"
  /\ wrongWake' = IF ran THEN wrongWake ELSE op
  /\ UNCHANGED <<op, isOpen, loopVars, thrdVars, dispVars, wrapVars, adptVars,
                 netVars, ran, wrongAnswer, timedOut, failedOpen, detached,
                 missed, broken>>

(* Faulty variant of the next action: the wait has no deadline.            *)
DispatchWaitsForEver == FALSE

(* The code stored here is not yet returned: the callback that comes late  *)
(* can still replace it.                                                   *)
DispatchTimesOut ==
  /\ upc = "waiting"
  /\ rc' = "error"
  /\ timedOut' = TRUE
  /\ upc' = "leaving"
  /\ UNCHANGED <<op, isOpen, loopVars, thrdVars, callback, signalled, sources,
                 wrapVars, adptVars, netVars, ran, wrongAnswer, wrongWake,
                 failedOpen, detached, missed, broken>>

(* What the caller of dispatch() does with its code: open() stops the loop *)
(* on an error; getIMEI() releases the mutex, and without an IMEI the user *)
(* is not authorized; close() goes on to stop the loop.                    *)
DispatchReturns(ok) ==
  /\ isOpen' = (isOpen \/ (op = "open" /\ ok))
  /\ failedOpen' = (failedOpen \/ (op = "open" /\ ~ok))
  /\ mutex' = IF op = "imei" THEN "none" ELSE mutex
  /\ upc' = CASE op = "open"  -> IF ok THEN "opened" ELSE "stop"
              [] op = "imei"  -> IF ok THEN "cells" ELSE "destroy"
              [] op = "close" -> "stop"

Answered ==
  /\ upc = "leaving"
  /\ DispatchReturns(rc = "ok")
  /\ wrongAnswer' = IF rc = "ok" /\ ~ran THEN op ELSE wrongAnswer
  /\ UNCHANGED <<op, loopVars, thrdVars, dispVars, scannedCells, adptVars,
                 netVars, ran, wrongWake, timedOut, detached, missed, broken>>

-----------------------------------------------------------------------------
(* SHLC_location and CellWrapper, on the user thread.                      *)

(* Whether open() succeeded is not looked at.  The Wi-Fi side decides: its *)
(* MAC is the user name, or the IMEI is needed, or there is no Wi-Fi.      *)
Opened ==
  /\ upc = "opened"
  /\ upc' \in {"imeiLock", "cells", "destroy"}
  /\ UNCHANGED <<op, isOpen, loopVars, thrdVars, dispVars, wrapVars, adptVars,
                 netVars, histVars>>

GetIMEI ==
  /\ upc = "imeiLock"
  /\ mutex = "none"
  /\ mutex' = "user"
  /\ op' = "imei"
  /\ upc' = "dispatch"
  /\ UNCHANGED <<isOpen, loopVars, thrdVars, dispVars, scannedCells, adptVars,
                 netVars, histVars>>

(* getScannedCells() returns a reference: the copy is made without the     *)
(* mutex.                                                                  *)
GetScannedCells ==
  /\ upc = "cells"
  /\ mutex = "none"
  /\ upc' = "copying"
  /\ UNCHANGED <<op, isOpen, loopVars, thrdVars, dispVars, wrapVars, adptVars,
                 netVars, histVars>>

Copied ==
  /\ upc = "copying"
  /\ upc' = "destroy"
  /\ UNCHANGED <<op, isOpen, loopVars, thrdVars, dispVars, wrapVars, adptVars,
                 netVars, histVars>>

(* ~CellWrapper: the list goes, then the adapter, whose destructor calls   *)
(* close().                                                                *)
Destroy ==
  /\ upc = "destroy"
  /\ IF isOpen
     THEN upc' = "dispatch" /\ op' = "close"
     ELSE upc' = "free" /\ UNCHANGED op
  /\ UNCHANGED <<isOpen, loopVars, thrdVars, dispVars, wrapVars, adptVars,
                 netVars, histVars>>

(* ~OfonoCellAdapter closes what is still open, on this thread.            *)
Free ==
  /\ upc = "free"
  /\ connection' = FALSE
  /\ changed' = FALSE
  /\ upc' = "done"
  /\ UNCHANGED <<op, isOpen, loopVars, thrdVars, dispVars, wrapVars, lastCell,
                 cell, changes, histVars>>

User ==
  \/ StartFails \/ Start \/ Started \/ StartTimesOut \/ Quit \/ Join
  \/ DispatchToNowhere \/ Dispatch \/ ResetCode \/ ClearEvent \/ Attach
  \/ Woken \/ DispatchTimesOut \/ Answered
  \/ Opened \/ GetIMEI \/ GetScannedCells \/ Copied \/ Destroy \/ Free

-----------------------------------------------------------------------------
(* GlibMainLoopThread::threadProc.                                         *)

LoopInit ==
  /\ lpc = "init"
  /\ context' = "live"
  /\ lpc' = "initialized"
  /\ UNCHANGED <<userVars, task, seen, code, thread, ready, running, dispVars,
                 wrapVars, adptVars, netVars, histVars>>

LoopReady ==
  /\ lpc = "initialized"
  /\ ready' = TRUE
  /\ lpc' = "beforeRun"
  /\ UNCHANGED <<userVars, task, seen, code, thread, context, running,
                 dispVars, wrapVars, adptVars, netVars, histVars>>

LoopRun ==
  /\ lpc = "beforeRun"
  /\ running' = TRUE
  /\ lpc' = "idle"
  /\ UNCHANGED <<userVars, task, seen, code, thread, ready, context, dispVars,
                 wrapVars, adptVars, netVars, histVars>>

(* The context is freed with its last reference; an open D-Bus connection  *)
(* holds one.                                                              *)
LoopExit ==
  /\ lpc = "idle"
  /\ ~running
  /\ lpc' = "exited"
  /\ context' = IF connection THEN "orphan" ELSE "freed"
  /\ UNCHANGED <<userVars, task, seen, code, thread, ready, running, dispVars,
                 wrapVars, adptVars, netVars, histVars>>

(* dispatchSource: whichever source it is, the callback stored now is run. *)
RunSource ==
  /\ lpc = "idle"
  /\ running
  /\ sources > 0
  /\ sources' = sources - 1
  /\ task' = callback
  /\ lpc' = callback
  /\ UNCHANGED <<userVars, seen, code, thrdVars, callback, rc, signalled,
                 wrapVars, adptVars, netVars, histVars>>

(* propertyChangedCallback: a source of lower priority.                    *)
RunSignal ==
  /\ lpc = "idle"
  /\ running
  /\ sources = 0
  /\ changed
  /\ changed' = FALSE
  /\ task' = "signal"
  /\ lpc' = "report"
  /\ UNCHANGED <<userVars, seen, code, thrdVars, dispVars, wrapVars, adptVars,
                 cell, changes, histVars>>

(* dispatchSource stores the callback's code, then signals.                *)
CodeOf == code

StoreRc ==
  /\ lpc = "storeRc"
  /\ rc' = CodeOf
  /\ ran' = (ran \/ task = op)
  /\ lpc' = "signal"
  /\ UNCHANGED <<userVars, task, seen, code, thrdVars, callback, signalled,
                 sources, wrapVars, adptVars, netVars, wrongAnswer, wrongWake,
                 timedOut, failedOpen, detached, missed, broken>>

SignalAnswer ==
  /\ lpc = "signal"
  /\ signalled' = TRUE
  /\ lpc' = "idle"
  /\ UNCHANGED <<userVars, task, seen, code, thrdVars, callback, rc, sources,
                 wrapVars, adptVars, netVars, histVars>>

-----------------------------------------------------------------------------
(* OfonoCellAdapter, on the loop thread.                                   *)

Return(c) == code' = c /\ lpc' = "storeRc"

(* open(): no bus or no online modem; otherwise the proxy is made, after   *)
(* which changes are queued on the connection, and the cell is reported.   *)
AdapterOpenFails ==
  /\ lpc = "open"
  /\ ~connection
  /\ Return("error")
  /\ UNCHANGED <<userVars, task, seen, thrdVars, dispVars, wrapVars, adptVars,
                 netVars, histVars>>

(* Faulty variant: only changes are reported, not the cell at open().      *)
NotReported == Return("ok")

FirstReport == lpc' = "report" /\ UNCHANGED code

AdapterOpen ==
  /\ lpc = "open"
  /\ connection' = TRUE
  /\ IF connection THEN Return("ok") ELSE FirstReport
  /\ UNCHANGED <<userVars, task, seen, thrdVars, dispVars, wrapVars, lastCell,
                 netVars, histVars>>

(* The operation reportCell() was called from goes on.                     *)
ReportReturns ==
  CASE task = "open"   -> Return("ok")
    [] task = "imei"   -> lpc' = "imeiCall" /\ UNCHANGED code
    [] task = "signal" -> lpc' = "idle" /\ UNCHANGED code

(* reportCell()                                                            *)
ReportFails ==
  /\ lpc = "report"
  /\ missed' = TRUE
  /\ ReportReturns
  /\ UNCHANGED <<userVars, task, seen, thrdVars, dispVars, wrapVars, adptVars,
                 netVars, ran, wrongAnswer, wrongWake, timedOut, failedOpen,
                 detached, broken>>

Report ==
  /\ lpc = "report"
  /\ seen' = cell
  /\ missed' = FALSE
  /\ IF cell = lastCell
     THEN ReportReturns
     ELSE lpc' = "notify" /\ UNCHANGED code
  /\ UNCHANGED <<userVars, task, thrdVars, dispVars, wrapVars, adptVars,
                 netVars, ran, wrongAnswer, wrongWake, timedOut, failedOpen,
                 detached, broken>>

(* CellWrapper::onCellChanged, then _lastCell.                             *)
NotifyLock ==
  /\ lpc = "notify"
  /\ mutex = "none"
  /\ mutex' = "loop"
  /\ lpc' = "notified"
  /\ UNCHANGED <<userVars, task, seen, code, thrdVars, dispVars, scannedCells,
                 adptVars, netVars, histVars>>

Told == seen

Notify ==
  /\ lpc = "notified"
  /\ scannedCells' = Told
  /\ lastCell' = seen
  /\ mutex' = "none"
  /\ broken' = broken \union (IF CellsAlive THEN {} ELSE {"cells"})
                      \union (IF upc = "copying" THEN {"copy"} ELSE {})
  /\ ReportReturns
  /\ UNCHANGED <<userVars, task, seen, thrdVars, dispVars, connection,
                 netVars, ran, wrongAnswer, wrongWake, timedOut, failedOpen,
                 detached, missed>>

(* getIMEI(): asked for over a connection of its own if there is none, as  *)
(* the one call there is never finds it cached.  *_imei is written through *)
(* a pointer to the caller's string.                                       *)
WriteIMEI ==
  broken' = broken \union (IF ImeiAlive THEN {} ELSE {"imei"})

ImeiOpenFails ==
  /\ lpc = "imei"
  /\ ~connection
  /\ Return("error")
  /\ UNCHANGED <<userVars, task, seen, thrdVars, dispVars, wrapVars, adptVars,
                 netVars, histVars>>

ImeiOpen ==
  /\ lpc = "imei"
  /\ IF connection THEN lpc' = "imeiCall" ELSE lpc' = "report"
  /\ connection' = TRUE
  /\ UNCHANGED <<userVars, task, seen, code, thrdVars, dispVars, wrapVars,
                 lastCell, netVars, histVars>>

(* needsClosing: getIMEI() has opened the connection itself, as open() had *)
(* failed.                                                                 *)
ImeiCall ==
  /\ lpc = "imeiCall"
  /\ \/ WriteIMEI /\ Return("ok")
     \/ UNCHANGED broken /\ Return("error")
  /\ connection' = isOpen
  /\ changed' = (changed /\ isOpen)
  /\ UNCHANGED <<userVars, task, seen, thrdVars, dispVars, wrapVars, lastCell,
                 cell, changes, ran, wrongAnswer, wrongWake, timedOut,
                 failedOpen, detached, missed>>

AdapterClose ==
  /\ lpc = "close"
  /\ connection' = FALSE
  /\ changed' = FALSE
  /\ Return("ok")
  /\ UNCHANGED <<userVars, task, seen, thrdVars, dispVars, wrapVars, lastCell,
                 cell, changes, histVars>>

Loop ==
  \/ LoopInit \/ LoopReady \/ LoopRun \/ LoopExit \/ RunSource \/ RunSignal
  \/ StoreRc \/ SignalAnswer
  \/ AdapterOpenFails \/ AdapterOpen \/ ReportFails \/ Report \/ NotifyLock
  \/ Notify \/ ImeiOpenFails \/ ImeiOpen \/ ImeiCall
  \/ AdapterClose

-----------------------------------------------------------------------------
(* The modem and oFono (external).                                         *)
NetworkChanges ==
  /\ changes < MaxChanges
  /\ changes' = changes + 1
  /\ cell' \in (Cells \union {NoCell}) \ {cell}
  /\ changed' = connection
  /\ UNCHANGED <<userVars, loopVars, thrdVars, dispVars, wrapVars, adptVars,
                 histVars>>

-----------------------------------------------------------------------------
Init ==
  /\ upc = "start"
  /\ op = "open"
  /\ lpc = "none"
  /\ task = "open"
  /\ thread = FALSE
  /\ ready = FALSE
  /\ context = "unset"
  /\ running = FALSE
  /\ isOpen = FALSE
  /\ callback = "open"
  /\ rc = "error"
  /\ signalled = FALSE
  /\ sources = 0
  /\ mutex = "none"
  /\ scannedCells = NoCell
  /\ connection = FALSE
  /\ lastCell = NoCell
  /\ seen = NoCell
  /\ code = "error"
  /\ cell \in Cells \union {NoCell}
  /\ changed = FALSE
  /\ changes = 0
  /\ ran = FALSE
  /\ wrongAnswer = "none"
  /\ wrongWake = "none"
  /\ timedOut = FALSE
  /\ failedOpen = FALSE
  /\ detached = FALSE
  /\ missed = FALSE
  /\ broken = {}

Next == User \/ Loop \/ NetworkChanges

(* Both threads are scheduled and every wait of the user has a deadline.   *)
Fairness == WF_vars(User) /\ WF_vars(Loop)

Spec == Init /\ [][Next]_vars /\ Fairness

-----------------------------------------------------------------------------
(* Properties.                                                             *)

UserPlaces == InDispatch \union
              {"start", "starting", "stop", "joining", "opened", "imeiLock",
               "cells", "copying", "destroy", "free", "done", "undefined"}

LoopPlaces == {"none", "init", "initialized", "beforeRun", "idle", "exited",
               "open", "imei", "close", "report", "notify", "notified",
               "imeiCall", "storeRc", "signal"}

(* Every variable of the cell side stays within its type.                  *)
TypeOK ==
  /\ upc \in UserPlaces /\ lpc \in LoopPlaces
  /\ op \in Operations /\ callback \in Operations
  /\ task \in Operations \union {"signal"}
  /\ thread \in BOOLEAN /\ ready \in BOOLEAN /\ running \in BOOLEAN
  /\ context \in {"unset", "live", "orphan", "freed"}
  /\ isOpen \in BOOLEAN /\ signalled \in BOOLEAN
  /\ rc \in {"ok", "error"} /\ code \in {"ok", "error"}
  /\ sources \in Nat
  /\ mutex \in {"none", "user", "loop"}
  /\ {scannedCells, lastCell, seen, cell} \subseteq Cells \union {NoCell}
  /\ connection \in BOOLEAN /\ changed \in BOOLEAN
  /\ changes \in 0..MaxChanges
  /\ ran \in BOOLEAN /\ timedOut \in BOOLEAN /\ failedOpen \in BOOLEAN
  /\ detached \in BOOLEAN /\ missed \in BOOLEAN
  /\ {wrongAnswer, wrongWake} \subseteq Operations \union {"none"}
  /\ broken \subseteq {"context", "imei", "cells", "copy"}

(* What CellWrapper holds is what the adapter has last reported, however   *)
(* often the adapter was opened: a cell reported before is not reported    *)
(* again, so the two must never differ.                                    *)
ReportMatches == scannedCells = lastCell

(* When the loop has nothing left to do, the cell of the modem has been    *)
(* reported: a change made while open() or another report was under way    *)
(* is not lost.  It is lost if oFono did not answer, as onCellError is     *)
(* ignored and nothing asks again.                                         *)
IdleMeansReported ==
  /\ ReportMatches
  /\ lpc = "idle" /\ connection /\ ~changed /\ ~missed => lastCell = cell

(* As long as no dispatch has timed out, dispatch() is woken by its own    *)
(* callback only and returns SPI_OK only if that has been run.  Once one   *)
(* has, the source it left shares _rc, _event and _callback with the next. *)
(* Then getIMEI() can be woken by the late signal of an open() that timed  *)
(* out and yet returned SPI_OK, as its callback came before _rc was read;  *)
(* but it returns an error then, or the code of its own callback if that   *)
(* is done by then.  The only dispatch that can return the SPI_OK of       *)
(* another is that of close(), whose code is not used.                     *)
OwnAnswer ==
  /\ TypeOK
  /\ ~timedOut => wrongWake = "none" /\ wrongAnswer = "none"
  /\ wrongWake # "open"
  /\ wrongAnswer \in {"none", "close"}

(* The context that operations are dispatched to is the one of the running *)
(* loop, unless open() has failed; then it can be one nobody has made, on  *)
(* which getContext() has an assertion.                                    *)
DeadContextOnlyAfterFailedOpen ==
  "context" \in broken \/ upc = "undefined" => failedOpen

(* Unless a dispatch has timed out, the loop never writes to the IMEI      *)
(* string of a caller that has returned; and it needs a change of the      *)
(* network as well to write to _scannedCells after its destruction or      *)
(* while SHLC_location copies it without the mutex.                        *)
NothingDangles ==
  /\ DeadContextOnlyAfterFailedOpen
  /\ ~timedOut =>
       /\ "imei" \notin broken
       /\ broken \intersect {"cells", "copy"} # {} => changes > 0

(* The adapter lives on the loop's thread only: the user thread takes it   *)
(* back, to close and destroy it, when that thread is over; except if      *)
(* start() gave up waiting for a slow thread.                              *)
LoopConfinesAdapter ==
  upc \in {"free", "done"} => lpc \in {"none", "exited"} \/ detached

(* The call of SHLC_location gets through its cell side, although getIMEI  *)
(* holds the mutex the loop needs: the dispatch's deadline breaks the      *)
(* circle.  It does not if g_main_loop_quit came before g_main_loop_run    *)
(* and was lost, which takes a timeout of the first dispatch.              *)
QuitLost == upc = "joining" /\ running /\ timedOut

UserReturns == <>(upc \in {"done", "undefined"} \/ QuitLost)
=============================================================================
