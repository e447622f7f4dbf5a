--------------------------- MODULE SequentialParts ---------------------------
(***************************************************************************)
(* Parts of the system that share nothing: the client's connection, scroll  *)
(* view and bottom popup, the market overview, the query of past candles,   *)
(* the coroutines that place orders, the planned tasks, and the two-way     *)
(* dictionary.  A behaviour is one of any of them; the others stay where    *)
(* they began.                                                              *)
(***************************************************************************)
EXTENDS WebSocketClient, MarketSummary, ScrollView, BottomPopupWidget, BidirectionalDictionary,
        OrderCoroutines, HistoryQuery, PlannedTaskScheduler

VARIABLE part (* The part that runs. *)

vars == <<part, webSocketVars, marketVars, scrollVars, popupVars, dictionaryVars, orderVars,
          historyVars, schedulerVars>>

(* What the other parts' variables are, where they stay the same. *)
SomeScrollInit == CHOOSE viewport \in Viewports : TRUE

Init ==
  /\ part \in {"connection", "market", "scroll", "popup", "dictionary", "orders", "history",
             "scheduler"}
  /\ WebSocketInit /\ MarketInit /\ ScrollInit /\ PopupInit /\ DictionaryInit
  /\ OrdersInit /\ HistoryInit /\ SchedulerInit
  /\ part # "connection" => ~serverUp
  /\ part # "scroll" => viewportHeight = SomeScrollInit /\ m_scrollValue = 0 /\ m_contentHeight = 0

Connection(step) ==
  /\ part = "connection" /\ step
  /\ UNCHANGED <<part, marketVars, scrollVars, popupVars, dictionaryVars, orderVars,
                 historyVars, schedulerVars>>
Market(step) ==
  /\ part = "market" /\ step
  /\ UNCHANGED <<part, webSocketVars, scrollVars, popupVars, dictionaryVars, orderVars,
                 historyVars, schedulerVars>>
Scroll(step) ==
  /\ part = "scroll" /\ step
  /\ UNCHANGED <<part, webSocketVars, marketVars, popupVars, dictionaryVars, orderVars,
                 historyVars, schedulerVars>>
Popup(step) ==
  /\ part = "popup" /\ step
  /\ UNCHANGED <<part, webSocketVars, marketVars, scrollVars, dictionaryVars, orderVars,
                 historyVars, schedulerVars>>
Dictionary(step) ==
  /\ part = "dictionary" /\ step
  /\ UNCHANGED <<part, webSocketVars, marketVars, scrollVars, popupVars, orderVars,
                 historyVars, schedulerVars>>
Placing(step) ==
  /\ part = "orders" /\ step
  /\ UNCHANGED <<part, webSocketVars, marketVars, scrollVars, popupVars, dictionaryVars,
                 historyVars, schedulerVars>>
History(step) ==
  /\ part = "history" /\ step
  /\ UNCHANGED <<part, webSocketVars, marketVars, scrollVars, popupVars, dictionaryVars,
                 orderVars, schedulerVars>>
Scheduling(step) ==
  /\ part = "scheduler" /\ step
  /\ UNCHANGED <<part, webSocketVars, marketVars, scrollVars, popupVars, dictionaryVars,
                 orderVars, historyVars>>

Next ==
  \/ Connection(WebSocketNext) \/ Market(OnTickerUpdate) \/ Scroll(ScrollNext)
  \/ Popup(PopupNext) \/ Dictionary(DictionaryNext) \/ Placing(OrdersNext)
  \/ History(HistoryNext) \/ Scheduling(SchedulerNext)

(* What must happen in the end needs the client's event loop and the server's main
   loop to be fair. *)
Spec ==
  /\ Init /\ [][Next]_vars
  /\ WF_vars(Connection(WebSocketStep)) /\ WF_vars(Scheduling(UpdateStep))

TypeOK ==
  /\ WebSocketTypeOK /\ MarketTypeOK /\ ScrollTypeOK
  /\ PopupTypeOK /\ DictionaryTypeOK /\ OrdersTypeOK /\ HistoryTypeOK
  /\ SchedulerTypeOK
=============================================================================
