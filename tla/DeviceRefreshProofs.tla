------------------------- MODULE DeviceRefreshProofs -------------------------
(***************************************************************************)
(* The device table of the page is right whatever requests, answers,       *)
(* failures and clicks come in which order, for every set of devices, of   *)
(* items and of slots.                                                     *)
(***************************************************************************)
EXTENDS DeviceRefresh, TLAPS

LEMMA NoItemsIsAnswer == NoItems \in Answers
  BY DEF NoItems, Answers

LEMMA AnswersType ==
    ASSUME NEW a \in Answers
    PROVE  /\ DOMAIN a \subseteq Macs
           /\ a = [mac \in DOMAIN a |-> a[mac]]
           /\ \A mac \in DOMAIN a : a[mac] \in Items
  BY DEF Answers

\* reconcileDevices leaves the rows with the items of the answer, whatever they
\* held before.
LEMMA ReconciledIsAnswer ==
    ASSUME NEW rows \in Answers, NEW answer \in Answers
    PROVE  Reconciled(rows, answer) = answer
<1>1. (DOMAIN rows \cup (DOMAIN answer \ DOMAIN rows)) \ (DOMAIN rows \ DOMAIN answer)
      = DOMAIN answer
  OBVIOUS
<1>. QED  BY <1>1, AnswersType DEF Reconciled

\* renderDevicesView shows what the mode and the filter let through.
LEMMA RenderShows ==
    ASSUME NEW items \in Answers, NEW mode, NEW status
    PROVE  Render(items, items, mode, status)
           = IF Visible(items, mode, status) = {} THEN Message("No devices found")
             ELSE Rows(Visible(items, mode, status))
<1>1. Visible(items, mode, status) \cap DOMAIN items = Visible(items, mode, status)
  BY DEF Visible
<1>. QED  BY <1>1 DEF Render

LEMMA RenderIsRight ==
    ASSUME NEW items \in Answers, NEW mode, NEW status,
           NEW t, t = Render(items, items, mode, status)
    PROVE  /\ t.message = "none" =>
                  /\ t.rows = Visible(items, mode, status)
                  /\ Visible(items, mode, status) # {}
           /\ t.message = "No devices found" => Visible(items, mode, status) = {}
           /\ t.message \notin {"Loading devices...", "Unable to load devices"}
<1>1. CASE Visible(items, mode, status) = {}
  <2>1. t = Message("No devices found")
    BY <1>1, RenderShows
  <2>2. \A text : Message(text).message = text
    BY DEF Message
  <2>3. t.message = "No devices found"
    BY <2>1, <2>2
  <2>. QED  BY <1>1, <2>3
<1>2. CASE Visible(items, mode, status) # {}
  <2>1. t = [message |-> "none", rows |-> Visible(items, mode, status)]
    BY <1>2, RenderShows DEF Rows
  <2>2. t.message = "none" /\ t.rows = Visible(items, mode, status)
    BY <2>1
  <2>. QED  BY <1>2, <2>2
<1>. QED  BY <1>1, <1>2

LEMMA TableTypes ==
    /\ \A macs \in SUBSET Macs : Rows(macs) \in Tables
    /\ Message("Loading devices...") \in Tables
    /\ Message("Unable to load devices") \in Tables
    /\ Message("No devices found") \in Tables
  BY DEF Tables

LEMMA RequestTypes ==
    /\ \A state \in {"free", "sent", "failed"} : Request(state) \in Requests
    /\ \A a \in Answers : [state |-> "answered", answer |-> a] \in Requests
  BY NoItemsIsAnswer DEF Request, Requests

LEMMA RenderType ==
    ASSUME NEW items \in Answers, NEW mode, NEW status
    PROVE  Render(items, items, mode, status) \in Tables
<1>1. Visible(items, mode, status) \in SUBSET Macs
  BY AnswersType DEF Visible
<1>. QED  BY <1>1, RenderShows, TableTypes

-----------------------------------------------------------------------------
\* The invariants hold together: that the rows hold the items, part of
\* TableShowsItems, is what makes a rendering show the items.
IInv ==
    /\ TypeOK
    /\ TableShowsItems
    /\ MessagesAreTrue

LEMMA InitIInv == ASSUME Init PROVE IInv
<1>1. TypeOK
  <2>1. requests \in [Slots -> Requests]
    BY RequestTypes DEF Init
  <2>2. changes \in 0 .. MaxChanges /\ failures \in 0 .. MaxFailures
    <3>1. 0 \in 0 .. MaxChanges /\ 0 \in 0 .. MaxFailures
      BY BoundsAssumption
    <3>. QED  BY <3>1 DEF Init
  <2>3. deviceItems \in Answers /\ rowCache \in Answers /\ table \in Tables
    BY NoItemsIsAnswer, TableTypes DEF Init
  <2>. QED  BY <2>1, <2>2, <2>3 DEF Init, TypeOK
<1>2. TableShowsItems
  BY DEF Init, TableShowsItems, Message, NoItems, Visible
<1>3. MessagesAreTrue
  <2>1. PICK slot \in Slots :
            requests = [s \in Slots |->
                           Request(IF s = slot THEN "sent" ELSE "free")]
    BY DEF Init
  <2>2. requests[slot].state # "free"
    BY <2>1 DEF Request
  <2>. QED  BY <2>2 DEF Init, MessagesAreTrue
<1>. QED  BY <1>1, <1>2, <1>3 DEF IInv

LEMMA StepIInv == ASSUME IInv, [Next]_vars PROVE IInv'
<1>. USE DEF IInv
<1>1. CASE UNCHANGED vars
  BY <1>1 DEF vars, script, controls, schedule, TypeOK, TableShowsItems, MessagesAreTrue
<1>2. ASSUME Load, UNCHANGED <<autoRefresh, timers>>, inView' \in BOOLEAN
      PROVE  IInv'
  <2>1. PICK slot \in Slots :
            requests' = [requests EXCEPT ![slot] = Request("sent")]
    BY <1>2 DEF Load
  <2>2. requests' \in [Slots -> Requests] /\ requests'[slot].state # "free"
    BY <2>1, RequestTypes DEF TypeOK, Request
  <2>3. TypeOK'
    BY <1>2, <2>2, TableTypes DEF Load, controls, TypeOK
  <2>4. TableShowsItems'
    <3>1. CASE deviceItems = NoItems
      BY <1>2, <3>1 DEF Load, controls, TableShowsItems, Message
    <3>2. CASE deviceItems # NoItems
      BY <1>2, <3>2 DEF Load, controls, TableShowsItems
    <3>. QED  BY <3>1, <3>2
  <2>5. MessagesAreTrue'
    <3>1. CASE deviceItems = NoItems
      BY <1>2, <2>2, <3>1 DEF Load, MessagesAreTrue, Message
    <3>2. CASE deviceItems # NoItems
      BY <1>2, <3>2 DEF Load, MessagesAreTrue
    <3>. QED  BY <3>1, <3>2
  <2>. QED  BY <2>3, <2>4, <2>5
<1>3. ASSUME RenderView, displayMode' \in {"all", "end_devices"},
             statusFilter' \in Statuses \cup {"none"}
      PROVE  IInv'
  <2>1. deviceItems \in Answers /\ rowCache = deviceItems
    BY DEF TypeOK, TableShowsItems
  <2>2. table' = Render(deviceItems, deviceItems, displayMode', statusFilter')
    BY <1>3, <2>1 DEF RenderView
  <2>3. table' \in Tables
    BY <2>1, <2>2, RenderType
  <2>4. TypeOK'
    BY <1>3, <2>3 DEF RenderView, schedule, TypeOK
  <2>5. TableShowsItems'
    <3>1. deviceItems' = deviceItems /\ rowCache' = deviceItems'
      BY <1>3, <2>1 DEF RenderView
    <3>. QED  BY <3>1, <2>1, <2>2, RenderIsRight DEF TableShowsItems
  <2>6. MessagesAreTrue'
    BY <2>1, <2>2, RenderIsRight DEF MessagesAreTrue
  <2>. QED  BY <2>4, <2>5, <2>6
<1>4. CASE Refresh \/ TimerFires
  BY <1>2, <1>4 DEF Refresh, TimerFires, schedule, TypeOK
<1>5. CASE ShowTimeline
  BY <1>5 DEF ShowTimeline, script, controls, TypeOK, TableShowsItems, MessagesAreTrue
<1>6. CASE ShowDevices
  BY <1>2, <1>6 DEF ShowDevices
<1>7. CASE Toggle
  BY <1>7 DEF Toggle, Reconfigure, script, controls, TypeOK, TableShowsItems,
              MessagesAreTrue
<1>8. CASE SetDisplayMode
  BY <1>3, <1>8 DEF SetDisplayMode, TypeOK
<1>9. CASE FilterByStatus
  <2>1. PICK mac \in table.rows :
            statusFilter' = IF statusFilter = rowCache[mac].status THEN "none"
                            ELSE rowCache[mac].status
    BY <1>9 DEF FilterByStatus
  <2>2. rowCache[mac] \in Items
    <3>1. mac \in Visible(rowCache, displayMode, statusFilter)
      <4>1. table.rows # {} => table.message = "none"
        <5>1. \/ \E macs \in SUBSET Macs : table = [message |-> "none", rows |-> macs]
              \/ \E text : table = [message |-> text, rows |-> {}]
          BY DEF TypeOK, Tables, Rows, Message
        <5>. QED  BY <5>1
      <4>. QED  BY <2>1, <4>1 DEF TableShowsItems
    <3>2. mac \in DOMAIN rowCache
      BY <3>1 DEF Visible
    <3>. QED  BY <3>2, AnswersType DEF TypeOK
  <2>3. statusFilter' \in Statuses \cup {"none"}
    BY <2>1, <2>2, ItemsAssumption
  <2>. QED  BY <1>3, <1>9, <2>3 DEF FilterByStatus, TypeOK
<1>10. CASE ClearFilters
  BY <1>3, <1>10 DEF ClearFilters, TypeOK
<1>11. CASE Change
  <2>1. changes' \in 0 .. MaxChanges /\ backend' \in Answers
    BY <1>11, BoundsAssumption DEF Change, TypeOK
  <2>. QED  BY <1>11, <2>1 DEF Change, script, controls, schedule, TypeOK,
                TableShowsItems, MessagesAreTrue
<1>12. ASSUME NEW slot \in Slots, Finish(slot) PROVE IInv'
  <2>1. CASE Answer(slot)
    <3>1. requests' \in [Slots -> Requests]
      BY <2>1, RequestTypes DEF Answer, TypeOK
    <3>2. \A s \in Slots : requests[s].state # "free" => requests'[s].state # "free"
      BY <2>1 DEF Answer, TypeOK
    <3>. QED  BY <2>1, <3>1, <3>2
              DEF Answer, script, controls, schedule, TypeOK, TableShowsItems,
                  MessagesAreTrue
  <2>2. CASE Fail(slot)
    <3>1. requests' \in [Slots -> Requests]
      BY <2>2, RequestTypes DEF Fail, TypeOK
    <3>2. \A s \in Slots : requests[s].state # "free" => requests'[s].state # "free"
      BY <2>2 DEF Fail, TypeOK, Request
    <3>3. failures' \in 0 .. MaxFailures
      BY <2>2, BoundsAssumption DEF Fail, TypeOK
    <3>. QED  BY <2>2, <3>1, <3>2, <3>3
              DEF Fail, script, controls, schedule, TypeOK, TableShowsItems,
                  MessagesAreTrue
  <2>3. CASE Receive(slot)
    <3>1. requests[slot].answer \in Answers
      BY DEF TypeOK, Requests
    <3>2. deviceItems' \in Answers /\ rowCache' = deviceItems'
      BY <2>3, <3>1, ReconciledIsAnswer DEF Receive, TypeOK
    <3>3. table' = Render(deviceItems', deviceItems', displayMode, statusFilter)
      BY <2>3, <3>2 DEF Receive
    <3>4. table' \in Tables
      BY <3>2, <3>3, RenderType
    <3>5. requests' \in [Slots -> Requests]
      BY <2>3, RequestTypes DEF Receive, TypeOK
    <3>6. TypeOK'
      BY <2>3, <3>2, <3>4, <3>5 DEF Receive, controls, schedule, TypeOK
    <3>7. TableShowsItems'
      <4>1. displayMode' = displayMode /\ statusFilter' = statusFilter
        BY <2>3 DEF Receive, controls
      <4>. QED  BY <4>1, <3>2, <3>3, RenderIsRight DEF TableShowsItems
    <3>8. MessagesAreTrue'
      BY <3>2, <3>3, RenderIsRight DEF MessagesAreTrue
    <3>. QED  BY <3>6, <3>7, <3>8
  <2>4. CASE ReceiveFailure(slot)
    <3>1. requests' \in [Slots -> Requests]
      BY <2>4, RequestTypes DEF ReceiveFailure, TypeOK
    <3>2. CASE deviceItems = NoItems
      BY <2>4, <3>1, <3>2, TableTypes
         DEF ReceiveFailure, controls, schedule, TypeOK, TableShowsItems,
             MessagesAreTrue, Message
    <3>3. CASE deviceItems # NoItems
      BY <2>4, <3>1, <3>3
         DEF ReceiveFailure, controls, schedule, TypeOK, TableShowsItems,
             MessagesAreTrue
    <3>. QED  BY <3>2, <3>3
  <2>. QED  BY <1>12, <2>1, <2>2, <2>3, <2>4 DEF Finish
<1>. QED  BY <1>1, <1>4, <1>5, <1>6, <1>7, <1>8, <1>9, <1>10, <1>11, <1>12 DEF Next

LEMMA SpecIInv == Spec => []IInv
  BY InitIInv, StepIInv, PTL DEF Spec

-----------------------------------------------------------------------------
\* Every variable of the page keeps its type.
THEOREM TypeCorrect == Spec => []TypeOK
  BY SpecIInv, PTL DEF IInv

\* The table shows exactly the devices of one answer that the mode and the
\* filter let through, and claims that there are none only if there are none:
\* renderDevicesView and reconcileDevices, whatever calls them.
THEOREM TableIsRight == Spec => []TableShowsItems
  BY SpecIInv, PTL DEF IInv

\* The messages of loadDevices hide no device, and "Loading devices..." stands
\* only while a request is under way.
THEOREM MessagesAreRight == Spec => []MessagesAreTrue
  BY SpecIInv, PTL DEF IInv
=============================================================================
