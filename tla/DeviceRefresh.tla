---------------------------- MODULE DeviceRefresh ----------------------------
(***************************************************************************)
(* The device table of the web page: the script of                         *)
(* web/templates/timeline.html and GET /api/devices of web/main.py, which  *)
(* passes the API's answer on or turns its failure into an error.          *)
(*                                                                         *)
(* The page loads the devices when it opens, every ten seconds while the   *)
(* devices are in view and automatic refresh is on, when the user asks and *)
(* when the user comes back to the devices.  Nothing keeps two requests    *)
(* from being under way, nor their answers from coming in another order.   *)
(* An item stands for what the script makes of it: the status and the      *)
(* assignment it filters by.                                               *)
(***************************************************************************)
EXTENDS Naturals, FiniteSets

CONSTANTS
    Macs,           \* the devices
    Items,          \* what the API may say of a device
    Slots,          \* how many requests can be under way
    MaxChanges,     \* bound on the changes of what the API says
    MaxFailures     \* bound on the requests that fail

Statuses == {"online", "idle", "offline", "unknown"}

Assignments == {"INTERFACE", "RANDOM", "PERM", "STATIC", "DYNAMIC", "COMPLETE",
                "BRIDGE", "none"}

ASSUME ItemsAssumption ==
    Items \subseteq [status : Statuses, assignment : Assignments]

ASSUME SlotsAssumption == IsFiniteSet(Slots) /\ Slots # {}

ASSUME BoundsAssumption == MaxChanges \in Nat /\ MaxFailures \in Nat

VARIABLES
    backend,        \* what the API would answer: mac -> item
    requests,       \* per slot: whether a request is under way, and its answer
    deviceItems,    \* the items of the last answer: mac -> item
    rowCache,       \* the rows that exist and the items in them: mac -> item
    table,          \* what the table holds: rows, or one of three messages
    displayMode,    \* "end_devices" or "all"
    statusFilter,   \* a status or "none"
    autoRefresh,    \* the switch
    timers,         \* the intervals that are running
    inView,         \* the devices panel is not hidden
    changes,        \* the changes so far
    failures        \* the failed requests so far

script == <<deviceItems, rowCache, table>>
controls == <<displayMode, statusFilter>>
schedule == <<autoRefresh, timers, inView>>
vars == <<backend, requests, script, controls, schedule, changes, failures>>

Answers == UNION {[S -> Items] : S \in SUBSET Macs}

NoItems == [mac \in {} |-> {}]

Message(text) == [message |-> text, rows |-> {}]

Request(state) == [state |-> state, answer |-> NoItems]

Rows(macs) == [message |-> "none", rows |-> macs]

-----------------------------------------------------------------------------
(* What of the items is in the table.                                      *)

\* applyDisplayMode
InMode(item, mode) ==
    \/ mode = "all"
    \/ /\ item.status # "unknown"
       /\ item.assignment \notin {"BRIDGE", "COMPLETE", "INTERFACE"}

\* applyDeviceFilters; the filter by assignment works like the one by status.
Passes(item, status) == status = "none" \/ item.status = status

Visible(items, mode, status) ==
    {mac \in DOMAIN items :
        InMode(items[mac], mode) /\ Passes(items[mac], status)}

\* renderDevicesView
Render(items, rows, mode, status) ==
    LET macs == Visible(items, mode, status)
    IN  IF macs = {} THEN Message("No devices found")
        ELSE Rows(macs \cap DOMAIN rows)

\* reconcileDevices: a row is made for a new device, changed for a known one
\* and dropped for one that is gone.
Reconciled(rows, answer) ==
    LET new == DOMAIN answer \ DOMAIN rows
        gone == DOMAIN rows \ DOMAIN answer
    IN  [mac \in (DOMAIN rows \cup new) \ gone |-> answer[mac]]

-----------------------------------------------------------------------------
Init ==
    /\ backend \in Answers
    /\ \E slot \in Slots :
           requests = [s \in Slots |->
                           Request(IF s = slot THEN "sent" ELSE "free")]
    /\ deviceItems = NoItems
    /\ rowCache = NoItems
    /\ table = Message("Loading devices...")
    /\ displayMode = "end_devices"
    /\ statusFilter = "none"
    /\ autoRefresh = TRUE
    /\ timers = 1
    /\ inView = TRUE
    /\ changes = 0
    /\ failures = 0

\* loadDevices, up to its await.
Load ==
    /\ \E slot \in Slots :
           /\ requests[slot].state = "free"
           /\ requests' = [requests EXCEPT ![slot] = Request("sent")]
    /\ table' = IF deviceItems = NoItems THEN Message("Loading devices...")
                ELSE table
    /\ UNCHANGED <<backend, deviceItems, rowCache, controls, changes, failures>>

Refresh == inView /\ Load /\ UNCHANGED schedule

TimerFires == timers > 0 /\ inView /\ Load /\ UNCHANGED schedule

ShowTimeline ==
    /\ inView' = FALSE
    /\ UNCHANGED <<backend, requests, script, controls, autoRefresh, timers,
                   changes, failures>>

ShowDevices ==
    /\ inView' = TRUE
    /\ Load
    /\ UNCHANGED <<autoRefresh, timers>>

\* Mutant: an interval is started only for a page that had one.
ReconfigureOnce(on) == timers' = IF on /\ timers > 0 THEN 1 ELSE 0

\* reconfigureAutoRefresh
Reconfigure(on) == timers' = IF on THEN 1 ELSE 0

Toggle ==
    /\ autoRefresh' = ~autoRefresh
    /\ Reconfigure(autoRefresh')
    /\ UNCHANGED <<backend, requests, script, controls, inView, changes, failures>>

RenderView ==
    /\ table' = Render(deviceItems, rowCache, displayMode', statusFilter')
    /\ UNCHANGED <<backend, requests, deviceItems, rowCache, schedule, changes,
                   failures>>

SetDisplayMode ==
    /\ inView
    /\ displayMode' \in {"all", "end_devices"}
    /\ UNCHANGED statusFilter
    /\ RenderView

\* A click on the status of a row sets the filter or takes it away.
FilterByStatus ==
    /\ inView
    /\ \E mac \in table.rows :
           LET status == rowCache[mac].status
           IN  statusFilter' = IF statusFilter = status THEN "none" ELSE status
    /\ UNCHANGED displayMode
    /\ RenderView

ClearFilters ==
    /\ inView
    /\ statusFilter' = "none"
    /\ UNCHANGED displayMode
    /\ RenderView

-----------------------------------------------------------------------------
\* What the collector's next snapshot may change.
Change ==
    /\ changes < MaxChanges
    /\ backend' \in Answers \ {backend}
    /\ changes' = changes + 1
    /\ UNCHANGED <<requests, script, controls, schedule, failures>>

Answer(slot) ==
    /\ requests[slot].state = "sent"
    /\ requests' = [requests EXCEPT ![slot] =
                       [state |-> "answered", answer |-> backend]]
    /\ UNCHANGED <<backend, script, controls, schedule, changes, failures>>

\* proxy_devices: an error of the API, or five seconds without an answer.
Fail(slot) ==
    /\ requests[slot].state = "sent"
    /\ failures < MaxFailures
    /\ requests' = [requests EXCEPT ![slot] = Request("failed")]
    /\ failures' = failures + 1
    /\ UNCHANGED <<backend, script, controls, schedule, changes>>

\* Mutant: the answer is drawn before it is stored.
ReceiveDrawsFirst(slot) ==
    /\ requests[slot].state = "answered"
    /\ requests' = [requests EXCEPT ![slot] = Request("free")]
    /\ deviceItems' = requests[slot].answer
    /\ rowCache' = Reconciled(rowCache, requests[slot].answer)
    /\ table' = Render(deviceItems, rowCache, displayMode, statusFilter)
    /\ UNCHANGED <<backend, controls, schedule, changes, failures>>

\* loadDevices after its awaits, with an answer.
Receive(slot) ==
    /\ requests[slot].state = "answered"
    /\ requests' = [requests EXCEPT ![slot] = Request("free")]
    /\ deviceItems' = requests[slot].answer
    /\ rowCache' = Reconciled(rowCache, requests[slot].answer)
    /\ table' = Render(deviceItems', rowCache', displayMode, statusFilter)
    /\ UNCHANGED <<backend, controls, schedule, changes, failures>>

\* Mutant: a failure is not shown.
ReceiveFailureSilently(slot) ==
    /\ requests[slot].state = "failed"
    /\ requests' = [requests EXCEPT ![slot] = Request("free")]
    /\ UNCHANGED <<backend, script, controls, schedule, changes, failures>>

\* And with an error.
ReceiveFailure(slot) ==
    /\ requests[slot].state = "failed"
    /\ requests' = [requests EXCEPT ![slot] = Request("free")]
    /\ table' = IF deviceItems = NoItems THEN Message("Unable to load devices")
                ELSE table
    /\ UNCHANGED <<backend, deviceItems, rowCache, controls, schedule, changes,
                   failures>>

Finish(slot) == Answer(slot) \/ Fail(slot) \/ Receive(slot) \/ ReceiveFailure(slot)

Next ==
    \/ Refresh \/ TimerFires \/ ShowTimeline \/ ShowDevices \/ Toggle
    \/ SetDisplayMode \/ FilterByStatus \/ ClearFilters
    \/ Change
    \/ \E slot \in Slots : Finish(slot)

\* The browser's interval fires again and again, and every request comes to an
\* end: the proxy waits five seconds for the API and then answers itself.
Fairness ==
    /\ WF_vars(TimerFires)
    /\ \A slot \in Slots : WF_vars(Finish(slot))

Spec == Init /\ [][Next]_vars /\ Fairness

-----------------------------------------------------------------------------
(* Properties.                                                             *)

Requests == [state : {"free", "sent", "answered", "failed"}, answer : Answers]

Tables ==
    {Rows(macs) : macs \in SUBSET Macs} \cup
    {Message(text) : text \in {"Loading devices...", "Unable to load devices",
                               "No devices found"}}

TypeOK ==
    /\ backend \in Answers
    /\ requests \in [Slots -> Requests]
    /\ deviceItems \in Answers
    /\ rowCache \in Answers
    /\ table \in Tables
    /\ displayMode \in {"all", "end_devices"}
    /\ statusFilter \in Statuses \cup {"none"}
    /\ autoRefresh \in BOOLEAN
    /\ timers \in {0, 1}
    /\ inView \in BOOLEAN
    /\ changes \in 0 .. MaxChanges
    /\ failures \in 0 .. MaxFailures

\* Whatever answers, failures and clicks come in between, the rows that exist
\* hold the items of one answer, the table shows exactly those the mode and the
\* filter let through, and "No devices found" stands there only if there are
\* none.
TableShowsItems ==
    /\ rowCache = deviceItems
    /\ LET macs == Visible(deviceItems, displayMode, statusFilter)
       IN  /\ table.message = "none" => table.rows = macs /\ macs # {}
           /\ table.message = "No devices found" => macs = {}

\* The messages of loadDevices never hide devices, and the page says that it
\* is loading only while it is.
MessagesAreTrue ==
    /\ table.message \in {"Loading devices...", "Unable to load devices"} =>
           deviceItems = NoItems
    /\ table.message = "Loading devices..." =>
           \E slot \in Slots : requests[slot].state # "free"

\* While automatic refresh stays on and the devices in view, the page comes to
\* show what the API says, whatever answers overtook each other before.
BecomesCurrent ==
    <>[](autoRefresh /\ inView) => <>[](deviceItems = backend)
=============================================================================
