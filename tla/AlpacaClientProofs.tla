------------------------- MODULE AlpacaClientProofs -------------------------
(***************************************************************************)
(* What an OK of alpaca::Client means, for any orders, symbols, watchlists, *)
(* configurations and quantities, and any number of calls; and what becomes *)
(* of the bodies that it reads.                                             *)
(***************************************************************************)
EXTENDS AlpacaClient, FiniteSetTheorems, WellFoundedInduction, TLAPS

Ops == Reads \cup Trades \cup Settings

InProgress == stage \in {"sent", "answered"}

(* The response is one that the operation will take for a success. *)
Successful ==
  response.status \in request.accepts \/ (response.status = 204 /\ request.fetch)

(* What the service keeps: an open order can still be filled. *)
Types ==
  /\ orders \in [OrderIds -> Order \cup {Nothing}]
  /\ \A id \in OrderIds : IsOpen(id) => orders[id].filled < orders[id].qty
  /\ position \in [Symbols -> Nat]
  /\ watchlists \in [ListIds -> (SUBSET Symbols) \cup {Nothing}]

(* The requests that the operations send. *)
WellFormed(req) ==
  /\ 0 \notin req.accepts
  /\ \/ req.verb = "GET" /\ req.accepts = {200} /\ ~req.fetch
     \/ /\ req.verb = "POST" /\ req.path = <<"orders">>
        /\ req.body.symbol \in Symbols /\ req.body.qty \in Qtys
     \/ /\ req.verb = "PATCH" /\ req.body \in Qtys
        /\ \E id \in OrderIds : req.path = <<"orders", id>>
     \/ req.verb = "PATCH" /\ req.path = <<"account", "configurations">>
     \/ /\ req.verb = "DELETE"
        /\ \/ req.path = <<"orders">>
           \/ \E id \in OrderIds : req.path = <<"orders", id>>
           \/ \E symbol \in Symbols : req.path = <<"positions", symbol>>
           \/ \E list \in ListIds : req.path = <<"watchlists", list>>
           \/ \E list \in ListIds, symbol \in Symbols :
                req.path = <<"watchlists", list, symbol>>
     \/ req.verb = "POST" /\ req.path = <<"watchlists">> /\ req.body \in SUBSET Symbols
     \/ /\ req.verb = "PUT" /\ req.body \in SUBSET Symbols
        /\ \E list \in ListIds : req.path = <<"watchlists", list>>
     \/ /\ req.verb = "POST" /\ req.body \in Symbols
        /\ \E list \in ListIds : req.path = <<"watchlists", list>>

(* The request is that of the call, or the GET after a 204.  Orders are     *)
(* created by the one request that is not a GET, and a response that looks  *)
(* like a success, or led to the GET, means that the call did its work.     *)
IInv ==
  /\ Types
  /\ InProgress => call \in Ops
  /\ InProgress =>
       \/ request = call.request
       \/ /\ request = Fetch(call.request)
          /\ call.op # "closePositions" => done
  /\ created = {} \/ \E id \in OrderIds : created = {id}
  /\ stage = "sent" /\ created # {} => request.verb = "GET"
  /\ stage = "answered" /\ Successful /\ call.op # "closePositions" => done
  /\ OkMeansDone

-----------------------------------------------------------------------------
(* A Read has a GET and promises nothing. *)
LEMMA ReadPromises ==
  ASSUME NEW c \in Reads
  PROVE  /\ c.request.verb = "GET" /\ c.request.accepts = {200}
         /\ c.request.type # "nothing" /\ ~c.request.fetch
         /\ c.op \notin {"submitOrder", "replaceOrder", "cancelOrder", "closePosition",
                         "closePositions", "updateAccountConfigurations",
                         "createWatchlist", "updateWatchlist", "deleteWatchlist",
                         "addSymbolToWatchlist", "removeSymbolFromWatchlist"}
<1>1. CASE \E id \in OrderIds : c = Op("getOrder", <<id>>, getOrder(id))
  BY <1>1 DEF Op, getOrder, Get, Request
<1>2. CASE \E id \in OrderIds :
             c = Op("getOrderByClientOrderID", <<id>>, getOrderByClientOrderID(id))
  BY <1>2 DEF Op, getOrderByClientOrderID, Get, Request
<1>3. CASE \E symbol \in Symbols : c = Op("getPosition", <<symbol>>, getPosition(symbol))
  BY <1>3 DEF Op, getPosition, Get, Request
<1>4. CASE \E symbol \in Symbols : c = Op("getAsset", <<symbol>>, getAsset(symbol))
  BY <1>4 DEF Op, getAsset, Get, Request
<1>5. CASE \E id \in ListIds : c = Op("getWatchlist", <<id>>, getWatchlist(id))
  BY <1>5 DEF Op, getWatchlist, Get, Request
<1>6. CASE \E op \in {"getAccount", "getAccountConfigurations", "getAccountActivity",
                      "getOrders", "getPositions", "getAssets", "getClock",
                      "getCalendar", "getBars", "getPortfolioHistory",
                      "getWatchlists"} :
             /\ c.op = op /\ c.request.verb = "GET" /\ c.request.accepts = {200}
             /\ c.request.type # "nothing" /\ ~c.request.fetch
  BY <1>6
<1> QED BY <1>1, <1>2, <1>3, <1>4, <1>5, <1>6
        DEF Reads, Op, getAccount, getAccountConfigurations, getAccountActivity,
            getOrders, getPositions, getAssets, getClock, getCalendar, getBars,
            getPortfolioHistory, getWatchlists, GetList, Get, Request

(* The response that a request of the call gets when it is served. *)
Answered(op, args, req) ==
  /\ call = Op(op, args, req) /\ request = req
  /\ UNCHANGED <<call, request>>
  /\ Serve /\ Successful'

(* A successful POST /v2/orders created the order. *)
LEMMA SubmitDone ==
  ASSUME IInv, NEW symbol \in Symbols, NEW qty \in Qtys,
         Answered("submitOrder", <<symbol, qty>>, submitOrder(symbol, qty))
  PROVE  Promised(call)'
<1>1. /\ request.verb = "POST" /\ request.path = <<"orders">>
      /\ request.body = [symbol |-> symbol, qty |-> qty]
      /\ request.accepts = {200} /\ ~request.fetch
      /\ request' = request
      /\ call'.op = "submitOrder" /\ call'.args = <<symbol, qty>>
  BY DEF Answered, submitOrder, Request, Op
<1>2. Serve /\ response'.status = 200
  BY <1>1 DEF Answered, Successful
<1>3. ServeNewOrder
  BY <1>1, <1>2 DEF Serve, ServeRead, ServeConfig, ServeReplace, ServeCancel,
     ServeCancelAll, ServeClose, ServeWatchlist, ServeNot, Reply
<1>4. PICK id \in OrderIds :
        /\ id \in created'
        /\ orders'[id].symbol = symbol /\ orders'[id].qty = qty
  BY <1>1, <1>3 DEF ServeNewOrder, IInv, Types
<1> QED BY <1>1, <1>4 DEF Promised

(* A successful PATCH of an order replaced it. *)
LEMMA ReplaceDone ==
  ASSUME IInv, NEW order \in OrderIds, NEW qty \in Qtys,
         Answered("replaceOrder", <<order, qty>>, replaceOrder(order, qty))
  PROVE  Promised(call)'
<1>1. /\ request.verb = "PATCH" /\ request.path = <<"orders", order>>
      /\ request.body = qty
      /\ request.accepts = {200} /\ ~request.fetch
      /\ request' = request
      /\ call'.op = "replaceOrder" /\ call'.args = <<order, qty>>
  BY DEF Answered, replaceOrder, Request, Op
<1>2. Serve /\ response'.status = 200
  BY <1>1 DEF Answered, Successful
<1>3. ServeReplace
  BY <1>1, <1>2 DEF Serve, ServeRead, ServeConfig, ServeNewOrder, ServeCancel,
     ServeCancelAll, ServeClose, ServeWatchlist, ServeNot, Reply
<1>4. /\ IsOpen(order)
      /\ orders' = [orders EXCEPT ![order].qty = qty]
  BY <1>1, <1>3 DEF ServeReplace
<1>5. orders[order] \in Order
  BY <1>4 DEF IInv, Types, IsOpen
<1>6. orders'[order].qty = qty /\ orders'[order] \in Order
  BY <1>4, <1>5 DEF IInv, Types, Order
<1> QED BY <1>1, <1>6, NothingAssumption DEF Promised

(* A successful DELETE of an order, or a 204, canceled it; a body tells how *)
(* it ended.                                                                *)
LEMMA CancelServed ==
  ASSUME IInv, NEW order \in OrderIds,
         Answered("cancelOrder", <<order>>, cancelOrder(order))
  PROVE  /\ orders'[order] # Nothing /\ orders'[order].state = "canceled"
         /\ response'.status = 200 => response'.body = orders'[order]
<1>1. /\ request.verb = "DELETE" /\ request.path = <<"orders", order>>
      /\ request.accepts = {200}
      /\ request' = request
  BY DEF Answered, cancelOrder, Request, Op
<1>2. Serve /\ response'.status \in {200, 204}
  BY <1>1 DEF Answered, Successful
<1>3. ServeCancel
  BY <1>1, <1>2 DEF Serve, ServeRead, ServeConfig, ServeNewOrder, ServeReplace,
     ServeCancelAll, ServeClose, ServeWatchlist, ServeNot, Reply
<1>4. /\ IsOpen(order)
      /\ orders' = [orders EXCEPT ![order].state = "canceled"]
      /\ response'.status = 200 => response'.body = orders'[order]
  BY <1>1, <1>3 DEF ServeCancel, Reply
<1>5. orders[order] \in Order
  BY <1>4 DEF IInv, Types, IsOpen
<1>6. orders'[order].state = "canceled" /\ orders'[order] \in Order
  BY <1>4, <1>5 DEF IInv, Types, Order
<1> QED BY <1>4, <1>6, NothingAssumption

(* So cancelOrder did what it is for. *)
LEMMA CancelDone ==
  ASSUME IInv, NEW order \in OrderIds,
         Answered("cancelOrder", <<order>>, cancelOrder(order))
  PROVE  Promised(call)'
<1>1. call'.op = "cancelOrder" /\ call'.args = <<order>>
  BY DEF Answered, Op
<1> QED BY <1>1, CancelServed DEF Promised, IsOpen

(* A successful DELETE of a position, or a 204, closed it. *)
LEMMA CloseDone ==
  ASSUME IInv, NEW symbol \in Symbols,
         Answered("closePosition", <<symbol>>, closePosition(symbol))
  PROVE  Promised(call)'
<1>1. /\ request.verb = "DELETE" /\ request.path = <<"positions", symbol>>
      /\ request.accepts = {200}
      /\ request' = request
      /\ call'.op = "closePosition" /\ call'.args = <<symbol>>
  BY DEF Answered, closePosition, Request, Op
<1>2. Serve /\ response'.status \in {200, 204}
  BY <1>1 DEF Answered, Successful
<1>3. ServeClose
  BY <1>1, <1>2 DEF Serve, ServeRead, ServeConfig, ServeNewOrder, ServeReplace,
     ServeCancel, ServeCancelAll, ServeWatchlist, ServeNot, Reply
<1>4. position' = [position EXCEPT ![symbol] = 0]
  BY <1>1, <1>3 DEF ServeClose
<1>5. position'[symbol] = 0
  BY <1>4 DEF IInv, Types
<1> QED BY <1>1, <1>5 DEF Promised

(* A successful PATCH of the account's configuration set it. *)
LEMMA ConfigDone ==
  ASSUME NEW c \in Configs,
         Answered("updateAccountConfigurations", <<c>>, updateAccountConfigurations(c))
  PROVE  Promised(call)'
<1>1. /\ request.verb = "PATCH" /\ request.path = <<"account", "configurations">>
      /\ request.body = c
      /\ request.accepts = {200} /\ ~request.fetch
      /\ request' = request
      /\ call'.op = "updateAccountConfigurations" /\ call'.args = <<c>>
  BY DEF Answered, updateAccountConfigurations, Request, Op
<1>2. Serve /\ response'.status = 200
  BY <1>1 DEF Answered, Successful
<1>3. ServeConfig
  BY <1>1, <1>2 DEF Serve, ServeRead, ServeReplace, ServeNewOrder, ServeCancel,
     ServeCancelAll, ServeClose, ServeWatchlist, ServeNot, Reply
<1>4. config' = c
  BY <1>1, <1>3 DEF ServeConfig
<1> QED BY <1>1, <1>4 DEF Promised

(* A successful POST /v2/watchlists created the list. *)
LEMMA CreateListDone ==
  ASSUME IInv, NEW symbols \in SUBSET Symbols,
         Answered("createWatchlist", <<symbols>>, createWatchlist(symbols))
  PROVE  Promised(call)'
<1>1. /\ request.verb = "POST" /\ request.path = <<"watchlists">>
      /\ request.body = symbols
      /\ request.accepts = {200} /\ ~request.fetch
      /\ request' = request
      /\ call'.op = "createWatchlist" /\ call'.args = <<symbols>>
  BY DEF Answered, createWatchlist, Request, Op
<1>2. Serve /\ response'.status \in {200}
  BY <1>1 DEF Answered, Successful
<1>3. ServeWatchlist
  BY <1>1, <1>2 DEF Serve, ServeRead, ServeConfig, ServeReplace, ServeNewOrder,
     ServeCancel, ServeCancelAll, ServeClose, ServeNot, Reply
<1>4. \E id \in ListIds : watchlists'[id] = symbols
  BY <1>1, <1>3 DEF ServeWatchlist, IInv, Types
<1> QED BY <1>1, <1>4 DEF Promised

(* A successful PUT of a watchlist set it. *)
LEMMA UpdateListDone ==
  ASSUME IInv, NEW list \in ListIds, NEW symbols \in SUBSET Symbols,
         Answered("updateWatchlist", <<list, symbols>>, updateWatchlist(list, symbols))
  PROVE  Promised(call)'
<1>1. /\ request.verb = "PUT" /\ request.path = <<"watchlists", list>>
      /\ request.body = symbols
      /\ request.accepts = {200} /\ ~request.fetch
      /\ request' = request
      /\ call'.op = "updateWatchlist" /\ call'.args = <<list, symbols>>
  BY DEF Answered, updateWatchlist, Request, Op
<1>2. Serve /\ response'.status \in {200}
  BY <1>1 DEF Answered, Successful
<1>3. ServeWatchlist
  BY <1>1, <1>2 DEF Serve, ServeRead, ServeConfig, ServeReplace, ServeNewOrder,
     ServeCancel, ServeCancelAll, ServeClose, ServeNot, Reply
<1>4. watchlists'[list] = symbols
  BY <1>1, <1>3 DEF ServeWatchlist, IInv, Types
<1> QED BY <1>1, <1>4 DEF Promised

(* A successful DELETE of a watchlist deleted it. *)
LEMMA DeleteListDone ==
  ASSUME IInv, NEW list \in ListIds,
         Answered("deleteWatchlist", <<list>>, deleteWatchlist(list))
  PROVE  Promised(call)'
<1>1. /\ request.verb = "DELETE" /\ request.path = <<"watchlists", list>>
      /\ request.body = Nothing
      /\ request.accepts = {200, 204} /\ ~request.fetch
      /\ request' = request
      /\ call'.op = "deleteWatchlist" /\ call'.args = <<list>>
  BY DEF Answered, deleteWatchlist, Request, Op
<1>2. Serve /\ response'.status \in {200, 204}
  BY <1>1 DEF Answered, Successful
<1>3. ServeWatchlist
  BY <1>1, <1>2 DEF Serve, ServeRead, ServeConfig, ServeReplace, ServeNewOrder,
     ServeCancel, ServeCancelAll, ServeClose, ServeNot, Reply
<1>4. watchlists'[list] = Nothing
  BY <1>1, <1>3 DEF ServeWatchlist, IInv, Types
<1> QED BY <1>1, <1>4 DEF Promised

(* A successful POST of a symbol added it to the watchlist. *)
LEMMA AddSymbolDone ==
  ASSUME IInv, NEW list \in ListIds, NEW symbol \in Symbols,
         Answered("addSymbolToWatchlist", <<list, symbol>>, addSymbolToWatchlist(list, symbol))
  PROVE  Promised(call)'
<1>1. /\ request.verb = "POST" /\ request.path = <<"watchlists", list>>
      /\ request.body = symbol
      /\ request.accepts = {200} /\ ~request.fetch
      /\ request' = request
      /\ call'.op = "addSymbolToWatchlist" /\ call'.args = <<list, symbol>>
  BY DEF Answered, addSymbolToWatchlist, Request, Op
<1>2. Serve /\ response'.status \in {200}
  BY <1>1 DEF Answered, Successful
<1>3. ServeWatchlist
  BY <1>1, <1>2 DEF Serve, ServeRead, ServeConfig, ServeReplace, ServeNewOrder,
     ServeCancel, ServeCancelAll, ServeClose, ServeNot, Reply
<1>4. watchlists'[list] \in SUBSET Symbols /\ symbol \in watchlists'[list]
  <2>1. watchlists[list] \in SUBSET Symbols
    <3>1. /\ Len(request.path) = 2 /\ request.path[2] = list
          /\ Len(<<"watchlists">>) = 1
      BY <1>1
    <3>2. watchlists[list] # Nothing
      BY <3>1, <1>3 DEF ServeWatchlist
    <3> QED BY <3>2 DEF IInv, Types
  <2>2. watchlists'[list] = watchlists[list] \cup {symbol}
    <3>1. Len(request.path) = 2 /\ request.path[2] = list
      BY <1>1
    <3>2. watchlists' = [watchlists EXCEPT ![list] = watchlists[list] \cup {symbol}]
      BY <1>1, <1>3, <3>1 DEF ServeWatchlist
    <3> QED BY <3>2 DEF IInv, Types
  <2> QED BY <2>1, <2>2
<1> QED BY <1>1, <1>4, NothingAssumption DEF Promised

(* A successful DELETE of a symbol took it from the watchlist. *)
LEMMA RemoveSymbolDone ==
  ASSUME IInv, NEW list \in ListIds, NEW symbol \in Symbols,
         Answered("removeSymbolFromWatchlist", <<list, symbol>>, removeSymbolFromWatchlist(list, symbol))
  PROVE  Promised(call)'
<1>1. /\ request.verb = "DELETE" /\ request.path = <<"watchlists", list, symbol>>
      /\ request.body = Nothing
      /\ request.accepts = {200} /\ ~request.fetch
      /\ request' = request
      /\ call'.op = "removeSymbolFromWatchlist" /\ call'.args = <<list, symbol>>
  BY DEF Answered, removeSymbolFromWatchlist, Request, Op
<1>2. Serve /\ response'.status \in {200}
  BY <1>1 DEF Answered, Successful
<1>3. ServeWatchlist
  BY <1>1, <1>2 DEF Serve, ServeRead, ServeConfig, ServeReplace, ServeNewOrder,
     ServeCancel, ServeCancelAll, ServeClose, ServeNot, Reply
<1>4. watchlists'[list] \in SUBSET Symbols /\ symbol \notin watchlists'[list]
  <2>1. watchlists[list] \in SUBSET Symbols
    BY <1>1, <1>3 DEF ServeWatchlist, IInv, Types
  <2>2. watchlists'[list] = watchlists[list] \ {symbol}
    BY <1>1, <1>3 DEF ServeWatchlist, IInv, Types
  <2> QED BY <2>1, <2>2
<1> QED BY <1>1, <1>4, NothingAssumption DEF Promised

-----------------------------------------------------------------------------
(* The operations, one by one. *)
LEMMA OpCases ==
  ASSUME NEW c \in Ops
  PROVE  \/ c \in Reads
         \/ c = Op("cancelOrders", <<>>, cancelOrders)
         \/ c = Op("closePositions", <<>>, closePositions)
         \/ \E symbol \in Symbols, qty \in Qtys :
              c = Op("submitOrder", <<symbol, qty>>, submitOrder(symbol, qty))
         \/ \E id \in OrderIds, qty \in Qtys :
              c = Op("replaceOrder", <<id, qty>>, replaceOrder(id, qty))
         \/ \E id \in OrderIds : c = Op("cancelOrder", <<id>>, cancelOrder(id))
         \/ \E symbol \in Symbols :
              c = Op("closePosition", <<symbol>>, closePosition(symbol))
         \/ \E conf \in Configs :
              c = Op("updateAccountConfigurations", <<conf>>,
                     updateAccountConfigurations(conf))
         \/ \E symbols \in SUBSET Symbols :
              c = Op("createWatchlist", <<symbols>>, createWatchlist(symbols))
         \/ \E w \in ListIds, symbols \in SUBSET Symbols :
              c = Op("updateWatchlist", <<w, symbols>>, updateWatchlist(w, symbols))
         \/ \E w \in ListIds :
              c = Op("deleteWatchlist", <<w>>, deleteWatchlist(w))
         \/ \E w \in ListIds, symbol \in Symbols :
              c = Op("addSymbolToWatchlist", <<w, symbol>>,
                     addSymbolToWatchlist(w, symbol))
         \/ \E w \in ListIds, symbol \in Symbols :
              c = Op("removeSymbolFromWatchlist", <<w, symbol>>,
                     removeSymbolFromWatchlist(w, symbol))
<1>1. CASE c \in Reads
  BY <1>1
<1>2. CASE c \in Trades
  BY <1>2 DEF Trades
<1>3. CASE c \in Settings
  <2> DEFINE Confs == {Op("updateAccountConfigurations", <<conf>>,
                          updateAccountConfigurations(conf)) : conf \in Configs}
             Creates == {Op("createWatchlist", <<symbols>>, createWatchlist(symbols)) :
                           symbols \in SUBSET Symbols}
             Updates == {Op("updateWatchlist", <<id, symbols>>, updateWatchlist(id, symbols)) :
                           id \in ListIds, symbols \in SUBSET Symbols}
             Deletes == {Op("deleteWatchlist", <<id>>, deleteWatchlist(id)) : id \in ListIds}
             Adds == {Op("addSymbolToWatchlist", <<id, symbol>>,
                         addSymbolToWatchlist(id, symbol)) :
                           id \in ListIds, symbol \in Symbols}
             Removes == {Op("removeSymbolFromWatchlist", <<id, symbol>>,
                            removeSymbolFromWatchlist(id, symbol)) :
                           id \in ListIds, symbol \in Symbols}
  <2>1. Settings = Confs \cup Creates \cup Updates \cup Deletes \cup Adds \cup Removes
    BY DEF Settings
  <2>2. CASE c \in Confs \cup Creates
    BY <2>2
  <2>3. CASE c \in Updates \cup Deletes
    BY <2>3
  <2>4. \A d \in Adds : \E w \in ListIds, symbol \in Symbols :
          d = Op("addSymbolToWatchlist", <<w, symbol>>, addSymbolToWatchlist(w, symbol))
    OBVIOUS
  <2>5. \A d \in Removes : \E w \in ListIds, symbol \in Symbols :
          d = Op("removeSymbolFromWatchlist", <<w, symbol>>,
                 removeSymbolFromWatchlist(w, symbol))
    OBVIOUS
  <2> HIDE DEF Confs, Creates, Updates, Deletes, Adds, Removes
  <2> QED BY <1>3, <2>1, <2>2, <2>3, <2>4, <2>5
<1> QED BY <1>1, <1>2, <1>3 DEF Ops

(* Every operation sends a well-formed request. *)
LEMMA OpWellFormed ==
  ASSUME NEW c \in Ops
  PROVE  WellFormed(c.request)
<1>1. CASE c \in Reads
  BY <1>1, ReadPromises DEF WellFormed
<1>2. CASE c = Op("cancelOrders", <<>>, cancelOrders)
  <2>1. c.request.verb = "DELETE" /\ c.request.path = <<"orders">>
    BY <1>2 DEF Op, cancelOrders, DeleteAll, Request
  <2>2. c.request.accepts = {200, 207}
    BY <1>2 DEF Op, cancelOrders, DeleteAll, Request
  <2>3. 0 \notin c.request.accepts
    BY <2>2
  <2> QED BY <2>1, <2>3 DEF WellFormed
<1>3. CASE c = Op("closePositions", <<>>, closePositions)
  <2>1. c.request.verb = "DELETE" /\ c.request.path = <<"orders">>
    BY <1>3 DEF Op, closePositions, DeleteAll, Request
  <2>2. c.request.accepts = {200, 207}
    BY <1>3 DEF Op, closePositions, DeleteAll, Request
  <2>3. 0 \notin c.request.accepts
    BY <2>2
  <2> QED BY <2>1, <2>3 DEF WellFormed
<1>4. CASE \E symbol \in Symbols, qty \in Qtys :
             c = Op("submitOrder", <<symbol, qty>>, submitOrder(symbol, qty))
  BY <1>4 DEF Op, submitOrder, Request, WellFormed
<1>5. CASE \E id \in OrderIds, qty \in Qtys :
             c = Op("replaceOrder", <<id, qty>>, replaceOrder(id, qty))
  BY <1>5 DEF Op, replaceOrder, Request, WellFormed
<1>6. CASE \E id \in OrderIds :
             c = Op("cancelOrder", <<id>>, cancelOrder(id))
  BY <1>6 DEF Op, cancelOrder, Request, WellFormed
<1>7. CASE \E symbol \in Symbols :
             c = Op("closePosition", <<symbol>>, closePosition(symbol))
  BY <1>7 DEF Op, closePosition, Request, WellFormed
<1>8. CASE \E conf \in Configs :
             c = Op("updateAccountConfigurations", <<conf>>, updateAccountConfigurations(conf))
  BY <1>8 DEF Op, updateAccountConfigurations, Request, WellFormed
<1>9. CASE \E symbols \in SUBSET Symbols :
             c = Op("createWatchlist", <<symbols>>, createWatchlist(symbols))
  BY <1>9 DEF Op, createWatchlist, Request, WellFormed
<1>10. CASE \E w \in ListIds, symbols \in SUBSET Symbols :
             c = Op("updateWatchlist", <<w, symbols>>, updateWatchlist(w, symbols))
  BY <1>10 DEF Op, updateWatchlist, Request, WellFormed
<1>11. CASE \E w \in ListIds :
             c = Op("deleteWatchlist", <<w>>, deleteWatchlist(w))
  BY <1>11 DEF Op, deleteWatchlist, Request, WellFormed
<1>12. CASE \E w \in ListIds, symbol \in Symbols :
             c = Op("addSymbolToWatchlist", <<w, symbol>>, addSymbolToWatchlist(w, symbol))
  BY <1>12 DEF Op, addSymbolToWatchlist, Request, WellFormed
<1>13. CASE \E w \in ListIds, symbol \in Symbols :
             c = Op("removeSymbolFromWatchlist", <<w, symbol>>, removeSymbolFromWatchlist(w, symbol))
  BY <1>13 DEF Op, removeSymbolFromWatchlist, Request, WellFormed
<1> QED BY <1>1, <1>2, <1>3, <1>4, <1>5, <1>6, <1>7, <1>8, <1>9, <1>10, <1>11, <1>12, <1>13,
           OpCases

(* The request of the call that is served with success does what the        *)
(* operation promises.                                                      *)
LEMMA ServedDone ==
  ASSUME IInv, call \in Ops, request = call.request, UNCHANGED <<call, request>>,
         Serve, Successful', call.op # "closePositions"
  PROVE  Promised(call)'
<1>1. CASE call \in Reads \/ call = Op("cancelOrders", <<>>, cancelOrders)
  <2>1. call'.op \notin {"submitOrder", "replaceOrder", "cancelOrder", "closePosition",
                         "closePositions", "updateAccountConfigurations",
                         "createWatchlist", "updateWatchlist", "deleteWatchlist",
                         "addSymbolToWatchlist", "removeSymbolFromWatchlist"}
    BY <1>1, ReadPromises DEF Op
  <2> QED BY <2>1 DEF Promised
<1>2. CASE \E symbol \in Symbols, qty \in Qtys :
             call = Op("submitOrder", <<symbol, qty>>, submitOrder(symbol, qty))
  BY <1>2, SubmitDone DEF Answered, Op
<1>3. CASE \E id \in OrderIds, qty \in Qtys :
             call = Op("replaceOrder", <<id, qty>>, replaceOrder(id, qty))
  BY <1>3, ReplaceDone DEF Answered, Op
<1>4. CASE \E id \in OrderIds : call = Op("cancelOrder", <<id>>, cancelOrder(id))
  BY <1>4, CancelDone DEF Answered, Op
<1>5. CASE \E symbol \in Symbols :
             call = Op("closePosition", <<symbol>>, closePosition(symbol))
  BY <1>5, CloseDone DEF Answered, Op
<1>6. CASE \E conf \in Configs :
             call = Op("updateAccountConfigurations", <<conf>>,
                       updateAccountConfigurations(conf))
  BY <1>6, ConfigDone DEF Answered, Op
<1>7. CASE \E symbols \in SUBSET Symbols :
             call = Op("createWatchlist", <<symbols>>, createWatchlist(symbols))
  BY <1>7, CreateListDone DEF Answered, Op
<1>8. CASE \E w \in ListIds, symbols \in SUBSET Symbols :
             call = Op("updateWatchlist", <<w, symbols>>, updateWatchlist(w, symbols))
  BY <1>8, UpdateListDone DEF Answered, Op
<1>9. CASE \E w \in ListIds :
             call = Op("deleteWatchlist", <<w>>, deleteWatchlist(w))
  BY <1>9, DeleteListDone DEF Answered, Op
<1>10. CASE \E w \in ListIds, symbol \in Symbols :
              call = Op("addSymbolToWatchlist", <<w, symbol>>,
                        addSymbolToWatchlist(w, symbol))
  BY <1>10, AddSymbolDone DEF Answered, Op
<1>11. CASE \E w \in ListIds, symbol \in Symbols :
              call = Op("removeSymbolFromWatchlist", <<w, symbol>>,
                        removeSymbolFromWatchlist(w, symbol))
  BY <1>11, RemoveSymbolDone DEF Answered, Op
<1>12. call # Op("closePositions", <<>>, closePositions)
  BY DEF Op
<1> QED BY <1>1, <1>2, <1>3, <1>4, <1>5, <1>6, <1>7, <1>8, <1>9, <1>10, <1>11, <1>12,
           OpCases

-----------------------------------------------------------------------------
(* The service keeps its types when it serves a well-formed request. *)
LEMMA ServeTypes ==
  ASSUME Types, WellFormed(request), Serve
  PROVE  Types'
<1>1. CASE ServeRead \/ ServeNot \/ ServeConfig
  <2>1. UNCHANGED <<orders, position, watchlists>>
    BY <1>1 DEF ServeRead, ServeNot, ServeConfig, service
  <2> QED BY <2>1 DEF Types, IsOpen
<1>2. CASE ServeNewOrder
  <2>1. request.body.symbol \in Symbols /\ request.body.qty \in Qtys
    BY <1>2 DEF ServeNewOrder, WellFormed
  <2>2. PICK id \in OrderIds :
          orders' = [orders EXCEPT ![id] =
            [symbol |-> request.body.symbol, qty |-> request.body.qty,
             filled |-> 0, state |-> "open"]]
    BY <1>2 DEF ServeNewOrder
  <2>3. [symbol |-> request.body.symbol, qty |-> request.body.qty,
         filled |-> 0, state |-> "open"] \in Order
    BY <2>1, ClientAssumption DEF Order, Qtys
  <2>4. orders' \in [OrderIds -> Order \cup {Nothing}]
    BY <2>2, <2>3 DEF Types
  <2>5. \A x \in OrderIds : IsOpen(x)' => orders'[x].filled < orders'[x].qty
    BY <2>1, <2>2 DEF Types, IsOpen, Qtys
  <2> QED BY <1>2, <2>4, <2>5 DEF ServeNewOrder, Types
<1>3. CASE ServeReplace
  <2>1. PICK id \in OrderIds :
          /\ request.body \in Qtys /\ IsOpen(id) /\ orders[id].filled < request.body
          /\ orders' = [orders EXCEPT ![id].qty = request.body]
    <3>1. request.verb = "PATCH" /\ Head(request.path) = "orders"
      BY <1>3 DEF ServeReplace
    <3>2. request.path # <<"account", "configurations">>
      BY <3>1
    <3>3. PICK id \in OrderIds : request.path = <<"orders", id>> /\ request.body \in Qtys
      BY <3>1, <3>2 DEF WellFormed
    <3>4. request.path[2] = id
      BY <3>3
    <3> QED BY <1>3, <3>3, <3>4, Zenon DEF ServeReplace
  <2>2. orders[id] \in Order
    BY <2>1 DEF Types, IsOpen
  <2>3. [orders[id] EXCEPT !.qty = request.body] \in Order
    BY <2>1, <2>2 DEF Order
  <2>4. orders' \in [OrderIds -> Order \cup {Nothing}]
    BY <2>1, <2>3 DEF Types
  <2>5. \A x \in OrderIds : IsOpen(x)' => orders'[x].filled < orders'[x].qty
    BY <2>1, <2>2 DEF Types, IsOpen, Order
  <2> QED BY <1>3, <2>4, <2>5 DEF ServeReplace, Types
<1>4. CASE ServeCancel
  <2>1. PICK id \in OrderIds :
          IsOpen(id) /\ orders' = [orders EXCEPT ![id].state = "canceled"]
    <3>1. /\ request.verb = "DELETE" /\ Head(request.path) = "orders"
          /\ Len(request.path) = 2
      BY <1>4 DEF ServeCancel
    <3>2. /\ request.path # <<"orders">>
          /\ \A symbol \in Symbols : request.path # <<"positions", symbol>>
          /\ \A w \in ListIds : request.path # <<"watchlists", w>>
          /\ \A w \in ListIds, symbol \in Symbols :
               request.path # <<"watchlists", w, symbol>>
      BY <3>1
    <3>3. PICK id \in OrderIds : request.path = <<"orders", id>>
      BY <3>1, <3>2 DEF WellFormed
    <3>4. request.path[2] = id
      BY <3>3
    <3> QED BY <1>4, <3>3, <3>4, Zenon DEF ServeCancel
  <2>2. orders[id] \in Order
    BY <2>1 DEF Types, IsOpen
  <2>3. [orders[id] EXCEPT !.state = "canceled"] \in Order
    BY <2>1, <2>2 DEF Order
  <2>4. orders' \in [OrderIds -> Order \cup {Nothing}]
    BY <2>1, <2>3 DEF Types
  <2>5. \A x \in OrderIds : IsOpen(x)' => orders'[x].filled < orders'[x].qty
    BY <2>1, <2>2 DEF Types, IsOpen, Order
  <2> QED BY <1>4, <2>4, <2>5 DEF ServeCancel, Types
<1>5. CASE ServeCancelAll
  <2>1. PICK some \in SUBSET {id \in OrderIds : IsOpen(id)} :
          orders' = [id \in OrderIds |->
                       IF id \in some THEN [orders[id] EXCEPT !.state = "canceled"]
                                      ELSE orders[id]]
    BY <1>5 DEF ServeCancelAll
  <2>2. ASSUME NEW id \in some
        PROVE  [orders[id] EXCEPT !.state = "canceled"] \in Order
    <3>1. orders[id] \in Order
      BY DEF Types, IsOpen
    <3> QED BY <3>1 DEF Order
  <2>3. orders' \in [OrderIds -> Order \cup {Nothing}]
    BY <2>1, <2>2 DEF Types
  <2>4. ASSUME NEW x \in OrderIds, IsOpen(x)'
        PROVE  orders'[x].filled < orders'[x].qty
    <3>1. CASE x \in some
      <4>1. orders'[x] = [orders[x] EXCEPT !.state = "canceled"] /\ orders[x] \in Order
        BY <2>1, <3>1 DEF Types, IsOpen
      <4>2. orders'[x].state = "canceled"
        BY <4>1 DEF Order
      <4> QED BY <2>4, <4>2 DEF IsOpen
    <3>2. CASE x \notin some
      BY <2>1, <2>4, <3>2 DEF Types, IsOpen
    <3> QED BY <3>1, <3>2
  <2> QED BY <1>5, <2>3, <2>4 DEF ServeCancelAll, Types
<1>6. CASE ServeClose
  <2>1. position' = [position EXCEPT ![request.path[2]] = 0]
    BY <1>6 DEF ServeClose
  <2>2. position' \in [Symbols -> Nat]
    BY <2>1 DEF Types
  <2> QED BY <1>6, <2>2 DEF ServeClose, Types, IsOpen
<1>7. CASE ServeWatchlist
  <2>1. \E id \in ListIds : \E value \in (SUBSET Symbols) \cup {Nothing} :
          watchlists' = [watchlists EXCEPT ![id] = value]
    <3> DEFINE Value(id) ==
          CASE request.verb = "POST" /\ Len(request.path) = 2 ->
                 watchlists[id] \cup {request.body}
            [] request.verb = "PUT" \/ Len(request.path) = 1 -> request.body
            [] Len(request.path) = 3 -> watchlists[id] \ {request.path[3]}
            [] OTHER -> Nothing
    <3>1. PICK id \in ListIds :
            /\ request.path = <<"watchlists">> <=> watchlists[id] = Nothing
            /\ watchlists' = [watchlists EXCEPT ![id] = Value(id)]
      BY <1>7 DEF ServeWatchlist
    <3>2. watchlists[id] \in SUBSET Symbols \/ watchlists[id] = Nothing
      BY DEF Types
    <3>3. CASE request.path = <<"watchlists">>
      <4>1. Len(request.path) = 1
        BY <3>3
      <4>2. request.body \in SUBSET Symbols
        BY <1>7, <3>3, <4>1 DEF ServeWatchlist, WellFormed
      <4>3. Value(id) = request.body
        BY <4>1
      <4> QED BY <3>1, <4>2, <4>3
    <3>4. CASE request.path # <<"watchlists">>
      <4>1. watchlists[id] \in SUBSET Symbols
        BY <3>1, <3>2, <3>4
      <4>2. \/ /\ request.verb = "PUT" /\ request.body \in SUBSET Symbols
               /\ Len(request.path) = 2
            \/ /\ request.verb = "POST" /\ request.body \in Symbols
               /\ Len(request.path) = 2
            \/ request.verb = "DELETE" /\ Len(request.path) \in {2, 3}
        <5>1. request.verb # "GET" /\ Head(request.path) = "watchlists"
          BY <1>7 DEF ServeWatchlist
        <5>2. /\ request.path # <<"orders">>
              /\ request.path # <<"account", "configurations">>
              /\ \A x \in OrderIds : request.path # <<"orders", x>>
              /\ \A symbol \in Symbols : request.path # <<"positions", symbol>>
          BY <5>1
        <5>3. \/ /\ request.verb = "DELETE"
                 /\ \/ \E w \in ListIds : request.path = <<"watchlists", w>>
                    \/ \E w \in ListIds, symbol \in Symbols :
                         request.path = <<"watchlists", w, symbol>>
              \/ /\ request.verb = "PUT" /\ request.body \in SUBSET Symbols
                 /\ \E w \in ListIds : request.path = <<"watchlists", w>>
              \/ /\ request.verb = "POST" /\ request.body \in Symbols
                 /\ \E w \in ListIds : request.path = <<"watchlists", w>>
          BY <3>4, <5>1, <5>2 DEF WellFormed
        <5> QED BY <5>3
      <4>3. Value(id) \in (SUBSET Symbols) \cup {Nothing}
        BY <4>1, <4>2
      <4> QED BY <3>1, <4>3
    <3> QED BY <3>3, <3>4
  <2>2. watchlists' \in [ListIds -> (SUBSET Symbols) \cup {Nothing}]
    BY <2>1 DEF Types
  <2> QED BY <1>7, <2>2 DEF ServeWatchlist, Types, IsOpen
<1> QED BY <1>1, <1>2, <1>3, <1>4, <1>5, <1>6, <1>7 DEF Serve

(* So does the market. *)
LEMMA MarketTypes ==
  ASSUME Types, MarketMoves, UNCHANGED watchlists
  PROVE  Types'
<1>1. CASE UNCHANGED <<orders, position>>
  BY <1>1 DEF Types, IsOpen
<1>2. CASE \E id \in OrderIds :
          /\ IsOpen(id)
          /\ LET o == [orders[id] EXCEPT !.filled = @ + 1]
             IN  orders' = [orders EXCEPT ![id] =
                   IF o.filled = o.qty THEN [o EXCEPT !.state = "filled"] ELSE o]
          /\ position' = [position EXCEPT ![orders[id].symbol] = @ + 1]
  <2>1. PICK id \in OrderIds :
          /\ IsOpen(id)
          /\ LET o == [orders[id] EXCEPT !.filled = @ + 1]
             IN  orders' = [orders EXCEPT ![id] =
                   IF o.filled = o.qty THEN [o EXCEPT !.state = "filled"] ELSE o]
          /\ position' = [position EXCEPT ![orders[id].symbol] = @ + 1]
    BY <1>2
  <2>2. orders[id] \in Order /\ orders[id].filled < orders[id].qty
    BY <2>1 DEF Types, IsOpen
  <2> DEFINE o == [orders[id] EXCEPT !.filled = @ + 1]
             n == IF o.filled = o.qty THEN [o EXCEPT !.state = "filled"] ELSE o
  <2>3. /\ o \in Order /\ o.filled = orders[id].filled + 1 /\ o.qty = orders[id].qty
    BY <2>2, ClientAssumption DEF Order, Qtys
  <2>4. n \in Order /\ (n.state = "open" => n.filled < n.qty)
    <3> HIDE DEF o
    <3>1. CASE o.filled = o.qty
      BY <2>3, <3>1 DEF Order
    <3>2. CASE o.filled # o.qty
      <4>1. o.filled < o.qty
        BY <2>2, <2>3, <3>2, ClientAssumption DEF Order, Qtys
      <4> QED BY <2>3, <3>2, <4>1
    <3> QED BY <3>1, <3>2
  <2>5. orders' = [orders EXCEPT ![id] = n]
    BY <2>1
  <2> HIDE DEF n
  <2>6. orders' \in [OrderIds -> Order \cup {Nothing}]
    BY <2>4, <2>5 DEF Types
  <2>7. \A x \in OrderIds : IsOpen(x)' => orders'[x].filled < orders'[x].qty
    BY <2>4, <2>5 DEF Types, IsOpen
  <2>8. position' \in [Symbols -> Nat]
    <3>1. orders[id].symbol \in Symbols
      BY <2>2 DEF Order
    <3>2. position[orders[id].symbol] + 1 \in Nat
      BY <3>1 DEF Types
    <3> QED BY <2>1, <3>2 DEF Types
  <2> QED BY <2>6, <2>7, <2>8 DEF Types
<1> QED BY <1>1, <1>2 DEF MarketMoves

-----------------------------------------------------------------------------
(* A call begins. *)
LEMMA CallPreserves ==
  ASSUME IInv, Call
  PROVE  IInv'
<1>1. PICK c \in Ops : call' = c /\ request' = c.request
  BY DEF Call, Ops
<1>2. /\ UNCHANGED <<orders, position, watchlists>>
      /\ stage' = "sent" /\ created' = {}
  BY DEF Call, service
<1>3. Types'
  BY <1>2 DEF IInv, Types, IsOpen
<1> QED BY <1>1, <1>2, <1>3 DEF IInv, InProgress, OkMeansDone

(* The service answers. *)
LEMMA ServedPreserves ==
  ASSUME IInv, Served
  PROVE  IInv'
<1>1. /\ stage = "sent" /\ stage' = "answered" /\ Serve
      /\ UNCHANGED <<call, request>>
      /\ call \in Ops
  BY DEF Served, IInv, InProgress
<1>2. done' = (done \/ Promised(call)')
  BY DEF Served, Observe
<1>3. WellFormed(request)
  <2>1. CASE request = call.request
    BY <1>1, <2>1, OpWellFormed
  <2>2. CASE request = Fetch(call.request)
    BY <2>2 DEF Fetch, Get, Request, WellFormed
  <2> QED BY <1>1, <2>1, <2>2 DEF IInv, InProgress
<1>4. Types'
  BY <1>1, <1>3, ServeTypes DEF IInv
<1>5. created' = {} \/ \E id \in OrderIds : created' = {id}
  <2>1. CASE ServeNewOrder
    <3>1. request.verb = "POST" /\ \E id \in OrderIds : created' = created \cup {id}
      BY <2>1 DEF ServeNewOrder
    <3>2. created = {}
      BY <1>1, <3>1 DEF IInv
    <3> QED BY <3>1, <3>2
  <2>2. CASE ~ServeNewOrder
    <3>1. created' = created
      BY <1>1, <2>2 DEF Serve, ServeRead, ServeConfig, ServeReplace, ServeCancel,
         ServeCancelAll, ServeClose, ServeWatchlist, ServeNot
    <3> QED BY <3>1 DEF IInv
  <2> QED BY <2>1, <2>2
<1>6. ASSUME Successful', call.op # "closePositions"
      PROVE  done'
  <2>1. CASE request = call.request
    <3>1. Promised(call)'
      BY <1>1, <1>6, <2>1, ServedDone
    <3> QED BY <1>2, <3>1
  <2>2. CASE done
    BY <1>2, <2>2
  <2> QED BY <1>1, <1>6, <2>1, <2>2 DEF IInv, InProgress
<1>7. InProgress' => \/ request' = call'.request
                     \/ /\ request' = Fetch(call'.request)
                        /\ call'.op # "closePositions" => done'
  <2>1. Fetch(call.request)' = Fetch(call.request)
    BY <1>1 DEF Fetch, Get, Request
  <2>2. done => done'
    BY <1>2
  <2>3. \/ request = call.request
        \/ request = Fetch(call.request) /\ (call.op # "closePositions" => done)
    BY <1>1 DEF IInv, InProgress
  <2> QED BY <1>1, <2>1, <2>2, <2>3
<1> QED BY <1>1, <1>4, <1>5, <1>6, <1>7 DEF IInv, InProgress, OkMeansDone

(* A request or a reply is lost: nothing that looks like a success is left. *)
LEMMA LossIsNoSuccess ==
  ASSUME IInv, RequestLost \/ ReplyLost
  PROVE  /\ UNCHANGED <<orders, position, watchlists, call, request, created, done>>
         /\ stage' = "answered" /\ InProgress
         /\ ~Successful'
<1>1. /\ UNCHANGED <<orders, position, watchlists, call, request, created, done>>
      /\ stage' = "answered" /\ InProgress
      /\ response'.status = 0
  BY DEF RequestLost, ReplyLost, service, history, Empty, Reply, InProgress
<1>2. 0 \notin request.accepts
  <2>1. CASE request = Fetch(call.request)
    BY <2>1 DEF Fetch, Get, Request
  <2>2. CASE request = call.request
    <3>1. call \in Ops
      BY <1>1 DEF IInv
    <3> QED BY <2>2, <3>1, OpWellFormed DEF WellFormed
  <2> QED BY <1>1, <2>1, <2>2 DEF IInv
<1> QED BY <1>1, <1>2 DEF Successful

(* A loss keeps the invariant. *)
LEMMA LossPreserves ==
  ASSUME IInv, RequestLost \/ ReplyLost
  PROVE  IInv'
<1>1. Types'
  BY LossIsNoSuccess DEF IInv, Types, IsOpen
<1> QED BY <1>1, LossIsNoSuccess DEF IInv, InProgress, OkMeansDone, Fetch, Get, Request

(* The market moves. *)
LEMMA MarketPreserves ==
  ASSUME IInv, Market
  PROVE  IInv'
<1>1. /\ MarketMoves /\ UNCHANGED watchlists
      /\ UNCHANGED <<call, stage, request, response, result, created>>
      /\ done => done'
  BY DEF Market, Observe
<1>2. Types'
  BY <1>1, MarketTypes DEF IInv
<1> QED BY <1>1, <1>2
        DEF IInv, InProgress, OkMeansDone, Successful, Fetch, Get, Request

(* The operation looks at the response. *)
LEMMA ReceivePreserves ==
  ASSUME IInv, Receive
  PROVE  IInv'
<1>1. /\ UNCHANGED <<orders, position, watchlists, call, created, done>>
      /\ stage = "answered"
  BY DEF Receive, service, history
<1>2. Types'
  BY <1>1 DEF IInv, Types, IsOpen
<1>3. CASE /\ response.status = 204 /\ request.fetch
           /\ stage' = "sent" /\ request' = Fetch(request)
  <2>1. Successful
    BY <1>3 DEF Successful
  <2>2. call.op # "closePositions" => done
    BY <1>1, <2>1 DEF IInv
  <2>3. ~Fetch(call.request).fetch
    BY DEF Fetch, Get, Request
  <2>4. request = call.request /\ call \in Ops
    BY <1>1, <1>3, <2>3 DEF IInv, InProgress
  <2>5. request' = Fetch(call.request) /\ Fetch(call.request)' = Fetch(call.request)
    BY <1>1, <1>3, <2>4 DEF Fetch, Get, Request
  <2>6. request'.verb = "GET"
    BY <1>3 DEF Fetch, Get, Request
  <2> QED BY <1>1, <1>2, <1>3, <2>2, <2>4, <2>5, <2>6
          DEF IInv, InProgress, OkMeansDone
<1>4. CASE /\ stage' \in {"idle", "crashed"}
           /\ result'.ok => Successful
  BY <1>1, <1>2, <1>4 DEF IInv, InProgress, OkMeansDone
<1>5. NoAnswer \/ Return(NoResult) => stage' = "idle" /\ ~result'.ok
  BY DEF NoAnswer, Return, NoResult, Result
<1>6. ParseBody => stage' \in {"idle", "crashed"}
  BY DEF ParseBody, Return
<1>7. IsSuccess(response.status) => Successful
  BY DEF IsSuccess, Successful
<1> QED BY <1>3, <1>4, <1>5, <1>6, <1>7 DEF Receive

(* Every step keeps the invariant. *)
LEMMA NextPreserves == IInv /\ [Next]_vars => IInv'
<1> SUFFICES ASSUME IInv, [Next]_vars PROVE IInv'
  OBVIOUS
<1>1. CASE Call
  BY <1>1, CallPreserves
<1>2. CASE Receive
  BY <1>2, ReceivePreserves
<1>3. CASE Served
  BY <1>3, ServedPreserves
<1>4. CASE RequestLost \/ ReplyLost
  BY <1>4, LossPreserves
<1>5. CASE Market
  BY <1>5, MarketPreserves
<1>6. CASE UNCHANGED vars
  BY <1>6 DEF vars, service, history, IInv, Types, IsOpen, InProgress, OkMeansDone,
     Successful, Fetch, Get, Request
<1> QED BY <1>1, <1>2, <1>3, <1>4, <1>5, <1>6 DEF Next

-----------------------------------------------------------------------------
(* The inductive invariant of a call: its request, what it created, and     *)
(* that a response which looks like a success means that the work was done. *)
THEOREM SpecIInv == Spec => []IInv
<1>1. Init => IInv
  <2> SUFFICES ASSUME Init PROVE IInv
    OBVIOUS
  <2>1. /\ orders = [id \in OrderIds |-> Nothing]
        /\ position = [symbol \in Symbols |-> 0]
        /\ watchlists = [id \in ListIds |-> Nothing]
    BY DEF Init
  <2>2. Types
    BY <2>1 DEF Types, IsOpen
  <2> QED BY <2>2 DEF Init, IInv, InProgress, OkMeansDone, NoResult, Result
<1> QED BY <1>1, NextPreserves, PTL DEF Spec

(* client.h: every operation of alpaca::Client that returns OK has done     *)
(* what it is for, whatever the network loses and the market does meanwhile *)
(* (closePositions is the exception).                                       *)
THEOREM SpecOkMeansDone == Spec => []OkMeansDone
<1>1. IInv => OkMeansDone
  BY DEF IInv
<1> QED BY <1>1, SpecIInv, PTL

(* submitOrder never orders twice: a request is never sent again.           *)
THEOREM SpecAtMostOneOrder == Spec => []AtMostOneOrder
<1>1. IInv => AtMostOneOrder
  BY FS_EmptySet, FS_Singleton DEF IInv, AtMostOneOrder
<1> QED BY <1>1, SpecIInv, PTL

-----------------------------------------------------------------------------
(* What the answers say.  The order of a cancelOrder is closed when the GET *)
(* is sent, and stays as it is from then on; the body of an answer is what  *)
(* the resource was when it was given.                                      *)
Canceled == call.args[1]
Closed == orders[Canceled] # Nothing /\ ~IsOpen(Canceled)
Reading == call.request.verb = "GET" \/ call.op = "cancelOrder"
Accepted == stage = "answered" /\ response.status \in request.accepts

AnswerInv ==
  /\ call.op = "cancelOrder" =>
       /\ stage = "sent" /\ request # call.request => Closed
       /\ stage = "answered" /\ Successful => Closed
       /\ Accepted => response.body = orders[Canceled]
       /\ stage = "idle" /\ result.ok => Closed /\ result.value = orders[Canceled]
  /\ Accepted /\ Reading => response.body \in seen
  /\ AnswerIsTrue

(* Only the reads send a GET of their own. *)
LEMMA OnlyReadsGet ==
  ASSUME NEW c \in Ops, c.request.verb = "GET"
  PROVE  c \in Reads
<1>1. ASSUME c = Op("cancelOrders", <<>>, cancelOrders) PROVE FALSE
  <2>1. c.request.verb = "DELETE"
    BY <1>1 DEF Op, cancelOrders, DeleteAll, Request
  <2> QED BY <2>1
<1>2. ASSUME c = Op("closePositions", <<>>, closePositions) PROVE FALSE
  <2>1. c.request.verb = "DELETE"
    BY <1>2 DEF Op, closePositions, DeleteAll, Request
  <2> QED BY <2>1
<1>3. ~\E symbol \in Symbols, qty \in Qtys :
         c = Op("submitOrder", <<symbol, qty>>, submitOrder(symbol, qty))
  BY DEF Op, submitOrder, Request
<1>4. ~\E id \in OrderIds, qty \in Qtys :
         c = Op("replaceOrder", <<id, qty>>, replaceOrder(id, qty))
  BY DEF Op, replaceOrder, Request
<1>5. ASSUME NEW id \in OrderIds,
             c = Op("cancelOrder", <<id>>, cancelOrder(id))
      PROVE  FALSE
  <2>1. c.request.verb = "DELETE"
    BY <1>5 DEF Op, cancelOrder, Request
  <2> QED BY <2>1
<1>6. ASSUME NEW symbol \in Symbols,
             c = Op("closePosition", <<symbol>>, closePosition(symbol))
      PROVE  FALSE
  <2>1. c.request.verb = "DELETE"
    BY <1>6 DEF Op, closePosition, Request
  <2> QED BY <2>1
<1>7. ~\E conf \in Configs :
         c = Op("updateAccountConfigurations", <<conf>>, updateAccountConfigurations(conf))
  BY DEF Op, updateAccountConfigurations, Request
<1>8. ~\E symbols \in SUBSET Symbols :
         c = Op("createWatchlist", <<symbols>>, createWatchlist(symbols))
  BY DEF Op, createWatchlist, Request
<1>9. ~\E w \in ListIds, symbols \in SUBSET Symbols :
         c = Op("updateWatchlist", <<w, symbols>>, updateWatchlist(w, symbols))
  BY DEF Op, updateWatchlist, Request
<1>10. ASSUME NEW w \in ListIds,
             c = Op("deleteWatchlist", <<w>>, deleteWatchlist(w))
      PROVE  FALSE
  <2>1. c.request.verb = "DELETE"
    BY <1>10 DEF Op, deleteWatchlist, Request
  <2> QED BY <2>1
<1>11. ~\E w \in ListIds, symbol \in Symbols :
         c = Op("addSymbolToWatchlist", <<w, symbol>>, addSymbolToWatchlist(w, symbol))
  BY DEF Op, addSymbolToWatchlist, Request
<1>12. ~\E w \in ListIds, symbol \in Symbols :
         c = Op("removeSymbolFromWatchlist", <<w, symbol>>, removeSymbolFromWatchlist(w, symbol))
  BY DEF Op, removeSymbolFromWatchlist, Request
<1> QED BY <1>1, <1>2, <1>3, <1>4, <1>5, <1>6, <1>7, <1>8, <1>9, <1>10, <1>11, <1>12,
           OpCases

(* There is one cancelOrder for each order. *)
LEMMA CancelCall ==
  ASSUME NEW c \in Ops, c.op = "cancelOrder"
  PROVE  \E id \in OrderIds : c = Op("cancelOrder", <<id>>, cancelOrder(id))
<1>1. c \notin Reads
  BY ReadPromises
<1> QED BY <1>1, OpCases DEF Op

(* A GET that is answered says what the resource is. *)
LEMMA GetTold ==
  ASSUME request.verb = "GET", Serve, response'.status = 200
  PROVE  /\ response'.body = Resource(request.path)
         /\ UNCHANGED service
<1>1. ServeRead
  BY DEF Serve, ServeConfig, ServeNewOrder, ServeReplace, ServeCancel, ServeCancelAll,
     ServeClose, ServeWatchlist, ServeNot, Reply
<1> HIDE DEF Resource
<1>2. response'.body = Resource(request.path)
  BY <1>1 DEF ServeRead, Reply
<1> QED BY <1>1, <1>2 DEF ServeRead

(* The resource of an order is the order. *)
LEMMA OrderResource ==
  ASSUME NEW order
  PROVE  /\ Resource(<<"orders", order>>) = orders[order]
         /\ Resource(<<"orders", order>>)' = orders'[order]
<1>1. /\ Head(<<"orders", order>>) = "orders" /\ Len(<<"orders", order>>) = 2
      /\ <<"orders", order>>[2] = order
      /\ <<"orders", order>> # <<"orders">>
      /\ <<"orders", order>> # <<"positions">>
      /\ <<"orders", order>> # <<"watchlists">>
      /\ <<"orders", order>> # <<"account", "configurations">>
  OBVIOUS
<1> QED BY <1>1 DEF Resource

(* The service answers. *)
LEMMA ServedAnswers ==
  ASSUME IInv, AnswerInv, Served
  PROVE  AnswerInv'
<1>1. /\ stage = "sent" /\ stage' = "answered" /\ Serve
      /\ UNCHANGED <<call, request>>
      /\ call \in Ops
      /\ \/ request = call.request
         \/ request = Fetch(call.request)
  BY DEF Served, IInv, InProgress
<1>2. seen' = seen \cup {Resource(call.request.path)'}
  BY DEF Served, Observe
<1>3. request.path = call.request.path
  BY <1>1 DEF Fetch, Get, Request
<1>4. WellFormed(request)
  <2>1. CASE request = call.request
    BY <1>1, <2>1, OpWellFormed
  <2>2. CASE request = Fetch(call.request)
    BY <2>2 DEF Fetch, Get, Request, WellFormed
  <2> QED BY <1>1, <2>1, <2>2
<1>5. ASSUME request.verb = "GET", Successful'
      PROVE  /\ response'.body \in seen' /\ UNCHANGED orders
             /\ response'.body = Resource(request.path)
  <2>1. request.accepts = {200} /\ ~request.fetch
    BY <1>4, <1>5 DEF WellFormed
  <2>2. response'.status = 200
    BY <1>1, <1>5, <2>1 DEF Successful
  <2>3. response'.body = Resource(request.path) /\ UNCHANGED service
    BY <1>1, <1>5, <2>2, GetTold
  <2>4. Resource(call.request.path)' = Resource(call.request.path)
    BY <1>1, <2>3 DEF Resource, service, IsOpen
  <2> QED BY <1>2, <1>3, <2>3, <2>4 DEF service
<1>6. ASSUME call.op = "cancelOrder", Successful'
      PROVE  /\ Closed'
             /\ response'.status = 200 =>
                  response'.body = orders'[Canceled'] /\ response'.body \in seen'
  <2>1. PICK order \in OrderIds :
          call = Op("cancelOrder", <<order>>, cancelOrder(order))
    BY <1>1, <1>6, CancelCall
  <2>2. /\ Canceled = order /\ Canceled' = order
        /\ call.request = cancelOrder(order)
        /\ call.request.path = <<"orders", order>>
    BY <1>1, <2>1 DEF Canceled, Op, cancelOrder, Request
  <2>3. CASE request = call.request
    <3>1. Answered("cancelOrder", <<order>>, cancelOrder(order))
      BY <1>1, <1>6, <2>1, <2>2, <2>3 DEF Answered
    <3>2. /\ orders'[order] # Nothing /\ orders'[order].state = "canceled"
          /\ response'.status = 200 => response'.body = orders'[order]
      BY <3>1, CancelServed
    <3>3. Resource(call.request.path)' = orders'[order]
      BY <1>1, <2>2, OrderResource
    <3>4. orders'[order] \in seen'
      BY <1>2, <3>3
    <3> QED BY <2>2, <3>2, <3>4 DEF Closed, IsOpen
  <2>4. CASE request = Fetch(call.request)
    <3>1. request.verb = "GET" /\ cancelOrder(order).verb = "DELETE"
      BY <2>4 DEF Fetch, Get, Request, cancelOrder
    <3>2. Closed
      BY <1>1, <1>6, <2>2, <3>1 DEF AnswerInv
    <3>3. /\ response'.body \in seen' /\ UNCHANGED orders
          /\ response'.body = orders[order]
      BY <1>3, <1>5, <1>6, <2>2, <3>1, OrderResource
    <3> QED BY <2>2, <3>2, <3>3 DEF Closed, IsOpen
  <2> QED BY <1>1, <2>3, <2>4
<1>7. Accepted' => Successful'
  BY DEF Accepted, Successful
<1>8. call.op = "cancelOrder" => request.accepts = {200}
  <2>1. CASE request = Fetch(call.request)
    BY <2>1 DEF Fetch, Get, Request
  <2>2. ASSUME NEW order, request = cancelOrder(order)
        PROVE  request.accepts = {200}
    BY <2>2 DEF cancelOrder, Request
  <2>3. call.op = "cancelOrder" => \E order : call.request = cancelOrder(order)
    BY <1>1, CancelCall DEF Op
  <2> QED BY <1>1, <2>1, <2>2, <2>3
<1>9. call.op = "cancelOrder" /\ Accepted' => response'.status = 200
  BY <1>1, <1>8 DEF Accepted
<1>10. Accepted' /\ Reading' => response'.body \in seen'
  <2>1. call.request.verb = "GET" => request.verb = "GET"
    BY <1>1 DEF Fetch, Get, Request
  <2> QED BY <1>1, <1>5, <1>6, <1>7, <1>9, <2>1 DEF Reading
<1> QED BY <1>1, <1>6, <1>7, <1>9, <1>10 DEF AnswerInv, AnswerIsTrue

(* The market moves: a closed order is left as it is. *)
LEMMA MarketAnswers ==
  ASSUME IInv, AnswerInv, Market
  PROVE  AnswerInv'
<1>1. /\ MarketMoves
      /\ UNCHANGED <<call, stage, request, response, result>>
      /\ seen \subseteq seen'
  BY DEF Market, Observe
<1>2. Closed => Closed' /\ orders'[Canceled] = orders[Canceled]
  <2>1. CASE UNCHANGED orders
    BY <1>1, <2>1 DEF Closed, Canceled, IsOpen
  <2>2. ASSUME NEW id \in OrderIds, NEW value, IsOpen(id), Closed,
               orders' = [orders EXCEPT ![id] = value]
        PROVE  Closed' /\ orders'[Canceled] = orders[Canceled]
    <3>1. Canceled # id /\ Canceled' = Canceled
      BY <1>1, <2>2 DEF Closed, Canceled
    <3>2. orders'[Canceled] = orders[Canceled]
      BY <2>2, <3>1 DEF IInv, Types
    <3> QED BY <2>2, <3>1, <3>2 DEF Closed, IsOpen
  <2> QED BY <1>1, <2>1, <2>2, Zenon DEF MarketMoves
<1>3. /\ Canceled' = Canceled
      /\ Successful' <=> Successful
      /\ Accepted' <=> Accepted
      /\ Reading' <=> Reading
  BY <1>1 DEF Canceled, Successful, Accepted, Reading
<1>4. Accepted => Successful
  BY DEF Accepted, Successful
<1>5. AnswerIsTrue'
  BY <1>1 DEF AnswerInv, AnswerIsTrue
<1>6. Accepted' /\ Reading' => response'.body \in seen'
  BY <1>1, <1>3 DEF AnswerInv
<1>7. ASSUME call'.op = "cancelOrder"
      PROVE  /\ stage' = "sent" /\ request' # call'.request => Closed'
             /\ stage' = "answered" /\ Successful' => Closed'
             /\ Accepted' => response'.body = orders'[Canceled']
             /\ stage' = "idle" /\ result'.ok =>
                  Closed' /\ result'.value = orders'[Canceled']
  <2>1. Accepted => Closed
    BY <1>1, <1>4, <1>7 DEF AnswerInv, Accepted
  <2> QED BY <1>1, <1>2, <1>3, <1>7, <2>1 DEF AnswerInv
<1> QED BY <1>5, <1>6, <1>7 DEF AnswerInv

(* The operation looks at the response. *)
LEMMA ReceiveAnswers ==
  ASSUME IInv, AnswerInv, Receive
  PROVE  AnswerInv'
<1>1. /\ UNCHANGED <<orders, call, seen>> /\ stage = "answered" /\ call \in Ops
      /\ request = call.request \/ request = Fetch(call.request)
  BY DEF Receive, service, history, IInv, InProgress
<1>2. /\ Canceled' = Canceled /\ (Closed' <=> Closed) /\ (Reading' <=> Reading)
  BY <1>1 DEF Canceled, Closed, IsOpen, Reading
<1>3. CASE /\ response.status = 204 /\ request.fetch /\ stage' = "sent"
  <2>1. Successful
    BY <1>3 DEF Successful
  <2>2. call.op = "cancelOrder" => Closed
    BY <1>1, <2>1 DEF AnswerInv
  <2> QED BY <1>1, <1>2, <1>3, <2>2 DEF AnswerInv, Accepted, AnswerIsTrue
<1>4. Reading => request.type # "nothing"
  <2>1. Reading => call.request.type # "nothing"
    <3>1. ASSUME call.request.verb = "GET" PROVE call \in Reads
      BY <1>1, <3>1, OnlyReadsGet
    <3>2. ASSUME call.op = "cancelOrder" PROVE call.request.type = "Order"
      <4>1. PICK id \in OrderIds : call.request = cancelOrder(id)
        BY <1>1, <3>2, CancelCall DEF Op
      <4> QED BY <4>1 DEF cancelOrder, Request
    <3> QED BY <3>1, <3>2, ReadPromises DEF Reading
  <2> QED BY <1>1, <2>1 DEF Fetch, Get, Request
<1>5. CASE /\ stage' \in {"idle", "crashed"}
           /\ result'.ok => /\ Accepted
                            /\ request.type # "nothing" => result'.value = response.body
  <2>1. Accepted => Successful
    BY DEF Accepted, Successful
  <2>2. call.op = "cancelOrder" => Reading
    BY DEF Reading
  <2> QED BY <1>1, <1>2, <1>4, <1>5, <2>1, <2>2
          DEF AnswerInv, AnswerIsTrue, Reading, Accepted
<1>6. NoAnswer \/ Return(NoResult) => stage' = "idle" /\ ~result'.ok
  BY DEF NoAnswer, Return, NoResult, Result
<1>7. ParseBody => /\ stage' \in {"idle", "crashed"}
                   /\ result'.ok /\ request.type # "nothing" => result'.value = response.body
  BY DEF ParseBody, Return, Result
<1>8. IsSuccess(response.status) => Accepted
  BY <1>1 DEF IsSuccess, Accepted
<1> QED BY <1>3, <1>5, <1>6, <1>7, <1>8 DEF Receive

(* The other steps of a call. *)
LEMMA OtherAnswers ==
  ASSUME IInv, AnswerInv, Call \/ RequestLost \/ ReplyLost \/ UNCHANGED vars
  PROVE  AnswerInv'
<1>1. CASE Call
  <2>1. stage' = "sent" /\ request' = call'.request
    BY <1>1 DEF Call
  <2> QED BY <2>1 DEF AnswerInv, Accepted, AnswerIsTrue
<1>2. CASE RequestLost \/ ReplyLost
  <2>1. stage' = "answered" /\ ~Successful'
    BY <1>2, LossIsNoSuccess
  <2>2. ~Accepted'
    BY <2>1 DEF Accepted, Successful
  <2> QED BY <2>1, <2>2 DEF AnswerInv, AnswerIsTrue
<1>3. CASE UNCHANGED vars
  BY <1>3 DEF vars, service, history, AnswerInv, Closed, Canceled, IsOpen, Reading,
     Accepted, Successful, AnswerIsTrue
<1> QED BY <1>1, <1>2, <1>3

(* What the answers say stays true. *)
THEOREM SpecAnswerInv == Spec => []AnswerInv
<1>1. Init => AnswerInv
  BY DEF Init, AnswerInv, Accepted, AnswerIsTrue, NoResult, Result
<1>2. IInv /\ AnswerInv /\ [Next]_vars => AnswerInv'
  BY ServedAnswers, MarketAnswers, ReceiveAnswers, OtherAnswers DEF Next
<1> QED BY <1>1, <1>2, SpecIInv, PTL DEF Spec

(* A successful read returns a value that the resource had during the call, *)
(* also where a 204 was answered by fetching it.                            *)
THEOREM SpecAnswerIsTrue == Spec => []AnswerIsTrue
<1>1. AnswerInv => AnswerIsTrue
  BY DEF AnswerInv
<1> QED BY <1>1, SpecAnswerInv, PTL

(* The order that a successful cancelOrder returns has its final fill.      *)
THEOREM SpecCancelReportsFinalFill == Spec => []CancelReportsFinalFill
<1>1. AnswerInv => CancelReportsFinalFill
  BY DEF AnswerInv, CancelReportsFinalFill, Returned, Canceled
<1> QED BY <1>1, SpecAnswerInv, PTL

-----------------------------------------------------------------------------
(* What the operations read. *)
TypeNames == DOMAIN Members

(* The types, the items of their objects, and the macros of their members.  *)
LEMMA TypesAre ==
  ASSUME NEW type \in TypeNames
  PROVE  /\ type \in {"Account", "AccountConfigurations", "Activity", "Asset", "Bar", "Bars",
                      "Clock", "Date", "Order", "PortfolioHistory", "Position", "Watchlist"}
         /\ Scalars[type] \subseteq DOMAIN Members[type]
         /\ \A m \in DOMAIN Members[type] :
              Members[type][m] \in {"BOOL", "INT", "UINT", "DOUBLE", "NAME", "ITEMS",
                                    "VECTOR_DOUBLES", "VECTOR_UINT64"}
<1>0. type \in {"Account", "AccountConfigurations", "Activity", "Asset", "Bar", "Bars",
                "Clock", "Date", "Order", "PortfolioHistory", "Position", "Watchlist"}
  BY DEF TypeNames, Members
<1> DEFINE Good(name) ==
      /\ Scalars[name] \subseteq DOMAIN Members[name]
      /\ \A m \in DOMAIN Members[name] :
           Members[name][m] \in {"BOOL", "INT", "UINT", "DOUBLE", "NAME", "ITEMS",
                                 "VECTOR_DOUBLES", "VECTOR_UINT64"}
<1>1. Good("Account")
  <2>1. Members["Account"] = AccountJSON /\ Scalars["Account"] = AccountScalars
    BY DEF Members, Scalars
  <2> QED BY <2>1 DEF AccountJSON, AccountScalars
<1>2. Good("AccountConfigurations")
  <2>1. /\ Members["AccountConfigurations"] = ConfigurationsJSON
        /\ Scalars["AccountConfigurations"] = ConfigurationsScalars
    BY DEF Members, Scalars
  <2> QED BY <2>1 DEF ConfigurationsJSON, ConfigurationsScalars
<1>3. Good("Activity")
  <2>1. Members["Activity"] = ActivityJSON /\ Scalars["Activity"] = {}
    BY DEF Members, Scalars
  <2> QED BY <2>1 DEF ActivityJSON
<1>4. Good("Asset")
  <2>1. Members["Asset"] = AssetJSON /\ Scalars["Asset"] = AssetScalars
    BY DEF Members, Scalars
  <2> QED BY <2>1 DEF AssetJSON, AssetScalars
<1>5. Good("Bar")
  <2>1. Members["Bar"] = BarJSON /\ Scalars["Bar"] = BarScalars
    BY DEF Members, Scalars
  <2> QED BY <2>1 DEF BarJSON, BarScalars
<1>6. Good("Bars")
  <2>1. Members["Bars"] = [symbol |-> "ITEMS"] /\ Scalars["Bars"] = {}
    BY DEF Members, Scalars
  <2> QED BY <2>1
<1>7. Good("Clock")
  <2>1. Members["Clock"] = ClockJSON /\ Scalars["Clock"] = ClockScalars
    BY DEF Members, Scalars
  <2> QED BY <2>1 DEF ClockJSON, ClockScalars
<1>8. Good("Date")
  <2>1. Members["Date"] = <<>> /\ Scalars["Date"] = {} /\ DOMAIN <<>> = {}
    BY DEF Members, Scalars, DateJSON
  <2> QED BY <2>1
<1>9. Good("Order")
  <2>1. Members["Order"] = OrderJSON /\ Scalars["Order"] = OrderScalars
    BY DEF Members, Scalars
  <2> QED BY <2>1 DEF OrderJSON, OrderScalars
<1>10. Good("PortfolioHistory")
  <2>1. /\ Members["PortfolioHistory"] = PortfolioJSON
        /\ Scalars["PortfolioHistory"] = PortfolioScalars
    BY DEF Members, Scalars
  <2> QED BY <2>1 DEF PortfolioJSON, PortfolioScalars
<1>11. Good("Position")
  <2>1. Members["Position"] = <<>> /\ Scalars["Position"] = {} /\ DOMAIN <<>> = {}
    BY DEF Members, Scalars, PositionJSON
  <2> QED BY <2>1
<1>12. Good("Watchlist")
  <2>1. Members["Watchlist"] = [assets |-> "ITEMS"] /\ Scalars["Watchlist"] = {}
    BY DEF Members, Scalars
  <2> QED BY <2>1
<1> HIDE DEF Good
<1>13. Good(type)
  BY <1>0, <1>1, <1>2, <1>3, <1>4, <1>5, <1>6, <1>7, <1>8, <1>9, <1>10, <1>11, <1>12
<1> QED BY <1>0, <1>13 DEF Good

(* An object whose members are all as in the texts of the unit tests.       *)
Regular(type, text) ==
  /\ text.is = "object"
  /\ \A m \in DOMAIN Members[type] : text.of[m] \in Usual(type, m)

(* Its macros take all members, but for Order::legs, which is no bool.      *)
LEMMA UsualIsTaken ==
  ASSUME NEW type \in TypeNames, NEW text, Regular(type, text),
         NEW m \in DOMAIN Members[type], m # "legs"
  PROVE  Takes(type, text, m)
<1>1. text.of[m] \in Usual(type, m)
  BY DEF Regular
<1>2. Members[type][m] \in {"BOOL", "INT", "UINT", "DOUBLE", "NAME", "ITEMS",
                            "VECTOR_DOUBLES", "VECTOR_UINT64"}
  BY TypesAre
<1> DEFINE macro == Members[type][m]
<1>3. CASE macro = "BOOL"
  BY <1>1, <1>3 DEF Usual, Takes, Accepts, AcceptsWith
<1>4. CASE macro \in {"INT", "UINT"}
  BY <1>1, <1>4 DEF Usual, Takes, Accepts, AcceptsWith
<1>5. CASE macro = "DOUBLE"
  BY <1>1, <1>5 DEF Usual, Takes, Accepts, AcceptsWith
<1>6. CASE macro = "NAME"
  BY <1>1, <1>6 DEF Usual, Takes, Accepts, AcceptsWith
<1>7. CASE macro \in {"ITEMS", "VECTOR_DOUBLES", "VECTOR_UINT64"}
  BY <1>1, <1>7 DEF Usual, Takes, Accepts, AcceptsWith
<1> QED BY <1>2, <1>3, <1>4, <1>5, <1>6, <1>7

(* Such an object is read, and nothing but legs is left indeterminate.      *)
LEMMA RegularIsRead ==
  ASSUME NEW type \in TypeNames, NEW text, Regular(type, text)
  PROVE  Plain(type, text) = "ok" /\ Unset(type, text) \subseteq {"legs"}
<1>1. ASSUME NEW m \in DOMAIN Members[type], m = "legs"
      PROVE  text.of[m] # "fractions" /\ Members[type][m] # "ITEMS"
  <2>1. type = "Order"
    BY <1>1, TypesAre DEF Members, AccountJSON, ConfigurationsJSON, ActivityJSON, AssetJSON,
       BarJSON, ClockJSON, PortfolioJSON, DateJSON, PositionJSON
  <2>2. Members["Order"] = OrderJSON
    BY DEF Members
  <2>3. Members[type][m] = "BOOL"
    BY <1>1, <2>1, <2>2 DEF OrderJSON
  <2>4. text.of[m] = "null"
    BY <1>1, <2>3 DEF Regular, Usual
  <2> QED BY <2>3, <2>4
<1>2. ASSUME NEW m \in DOMAIN Members[type], m # "legs"
      PROVE  ~(Members[type][m] = "VECTOR_UINT64" /\ text.of[m] = "fractions")
  BY <1>2, UsualIsTaken DEF Takes, Accepts, AcceptsWith
<1>3. ~Asserts(type, text)
  BY <1>1, <1>2, UsualIsTaken DEF Asserts
<1>4. Plain(type, text) = "ok"
  BY <1>3 DEF Plain, Regular
<1>5. Unset(type, text) \subseteq {"legs"}
  BY TypesAre, UsualIsTaken DEF Unset
<1> QED BY <1>4, <1>5

(* The least number of a set. *)
LEMMA LeastNat ==
  ASSUME NEW T, T \subseteq Nat, T # {}
  PROVE  \E n \in T : \A m \in T : n <= m
<1> DEFINE R == {ss \in Nat \X Nat : ss[1] < ss[2]}
<1>1. IsWellFoundedOn(R, Nat)
  BY NatLessThanWellFounded DEF OpToRel
<1> HIDE DEF R
<1>2. PICK n \in T : \A m \in T : ~(<<m, n>> \in R)
  BY <1>1, WFMin
<1>3. ASSUME NEW m \in T
      PROVE  n <= m
  <2>1. m \in Nat /\ n \in Nat
    OBVIOUS
  <2>2. m < n => <<m, n>> \in R
    BY <2>1 DEF R
  <2> QED BY <1>2, <2>1, <2>2
<1> QED BY <1>3

(* A loop over items that returns at the first that fails succeeds if none  *)
(* does, and only then.                                                     *)
LEMMA LoopSucceeds ==
  ASSUME NEW outcomes, DOMAIN outcomes \subseteq Nat
  PROVE  FirstFailure(outcomes) = "ok" <=> \A i \in DOMAIN outcomes : outcomes[i] = "ok"
<1> DEFINE bad == {i \in DOMAIN outcomes : outcomes[i] # "ok"}
           first == CHOOSE i \in bad : \A j \in bad : i <= j
<1>1. CASE bad = {}
  BY <1>1 DEF FirstFailure
<1>2. CASE bad # {}
  <2>1. bad \subseteq Nat
    OBVIOUS
  <2>2. \E i \in bad : \A j \in bad : i <= j
    BY <1>2, <2>1, LeastNat
  <2>3. first \in bad
    BY <2>2
  <2>4. FirstFailure(outcomes) = outcomes[first]
    BY <1>2 DEF FirstFailure
  <2> HIDE DEF first
  <2> QED BY <2>3, <2>4
<1> QED BY <1>1, <1>2

(* A text has items if its type has, and they are numbered.                 *)
LEMMA TextItems ==
  ASSUME NEW type \in TypeNames, NEW text \in Texts(type)
  PROVE  /\ DOMAIN text.items \subseteq Nat
         /\ ItemType(type) = "none" => DOMAIN text.items = {}
<1> DEFINE Fine(items) ==
      DOMAIN items \subseteq Nat /\ (ItemType(type) = "none" => DOMAIN items = {})
<1>1. DOMAIN <<>> = {} /\ \A x : DOMAIN <<x>> = 1 .. 1
  OBVIOUS
<1>2. \A x, y : DOMAIN <<x, y>> = 1 .. 2
  OBVIOUS
<1>3. Fine(Documented(type).items)
  <2>1. CASE ItemType(type) = "none"
    BY <1>1, <2>1 DEF Documented, Text
  <2>2. CASE ItemType(type) # "none"
    BY <1>1, <2>2 DEF Documented, Text
  <2> QED BY <2>1, <2>2
<1>4. CASE text \in Objects(type)
  <2>1. text.items = Documented(type).items
    BY <1>4 DEF Objects, Documented, Text
  <2> HIDE DEF Fine
  <2>2. Fine(text.items)
    BY <1>3, <2>1
  <2> QED BY <2>2 DEF Fine
<1>5. ASSUME NEW x, NEW y, text.items = <<x, y>>, ItemType(type) # "none"
      PROVE  Fine(text.items)
  BY <1>2, <1>5
<1>6. CASE text \in WithItems(type)
  <2>1. ItemType(type) # "none" /\ \E x, y : text.items = <<x, y>>
    BY <1>6 DEF WithItems, Documented, Text
  <2> HIDE DEF Fine
  <2>2. Fine(text.items)
    BY <1>5, <2>1
  <2> QED BY <2>2 DEF Fine
<1>7. CASE text \in Others(type)
  <2>1. \/ text.items = Documented(type).items
        \/ ItemType(type) # "none" /\ \E x, y : text.items = <<x, y>>
    BY <1>7 DEF Others, Documented, Text
  <2> HIDE DEF Fine
  <2>2. Fine(text.items)
    BY <1>3, <1>5, <2>1
  <2> QED BY <2>2 DEF Fine
<1> QED BY <1>4, <1>6, <1>7 DEF Texts

(* What fromJSON makes of a text, of whatever type.                         *)
LEMMA ObjectIsRead ==
  ASSUME NEW type \in TypeNames, NEW text, DOMAIN text.items \subseteq Nat
  PROVE  /\ fromJSON(type, text) = "ok" =>
              /\ text.is = "object"
              /\ ItemType(type) # "none" =>
                   \A i \in DOMAIN text.items : text.items[i].is = "object"
         /\ /\ Regular(type, text)
            /\ ItemType(type) # "none" =>
                 \A i \in DOMAIN text.items : Regular(ItemType(type), text.items[i])
            => fromJSON(type, text) = "ok"
<1>1. type \in {"Account", "AccountConfigurations", "Activity", "Asset", "Bar", "Bars",
                "Clock", "Date", "Order", "PortfolioHistory", "Position", "Watchlist"}
  BY TypesAre
<1>2. \A t : Plain(t, text) = "ok" => text.is = "object"
  BY DEF Plain
<1>3. \A t : Regular(t, text) => text.is = "object"
  BY DEF Regular
<1>4. CASE text.is = "broken"
  BY <1>3, <1>4 DEF fromJSON
<1>5. CASE text.is # "broken" /\ type = "Activity"
  <2>1. fromJSON(type, text) = ActivityFromJSON(text) /\ ItemType(type) = "none"
    BY <1>5 DEF fromJSON, ItemType
  <2>2. Regular(type, text) => Takes("Activity", text, "activity_type")
    <3>1. "activity_type" \in DOMAIN Members["Activity"]
      BY DEF Members, ActivityJSON
    <3> QED BY <1>5, <3>1, UsualIsTaken
  <2>3. Regular(type, text) => Plain(type, text) = "ok"
    BY RegularIsRead
  <2> QED BY <1>3, <1>5, <2>1, <2>2, <2>3 DEF ActivityFromJSON
<1>6. CASE text.is # "broken" /\ type = "Bars"
  <2> DEFINE loop == [i \in DOMAIN text.items |->
                        IF text.items[i].is = "object" THEN "ok" ELSE "assert"]
  <2>1. fromJSON(type, text) = BarsFromJSON(text) /\ ItemType(type) = "Bar"
    BY <1>6 DEF fromJSON, ItemType
  <2>2. FirstFailure(loop) = "ok" <=> \A i \in DOMAIN text.items : text.items[i].is = "object"
    <3>1. DOMAIN loop = DOMAIN text.items
      OBVIOUS
    <3>2. \A i \in DOMAIN text.items : loop[i] = "ok" <=> text.items[i].is = "object"
      OBVIOUS
    <3> HIDE DEF loop
    <3>3. FirstFailure(loop) = "ok" <=> \A i \in DOMAIN loop : loop[i] = "ok"
      BY <3>1, LoopSucceeds
    <3> QED BY <3>1, <3>2, <3>3
  <2>3. BarsFromJSON(text) = "ok" <=> Plain("Bars", text) = "ok" /\ FirstFailure(loop) = "ok"
    BY DEF BarsFromJSON
  <2>4. \A i : Regular("Bar", text.items[i]) => text.items[i].is = "object"
    BY DEF Regular
  <2> HIDE DEF loop
  <2> QED BY <1>2, <1>6, <2>1, <2>2, <2>3, <2>4, RegularIsRead
<1>7. CASE text.is # "broken" /\ type = "Watchlist"
  <2> DEFINE loop == [i \in DOMAIN text.items |-> Plain("Asset", text.items[i])]
  <2>1. fromJSON(type, text) = WatchlistFromJSON(text) /\ ItemType(type) = "Asset"
    BY <1>7 DEF fromJSON, ItemType
  <2>2. FirstFailure(loop) = "ok" <=>
          \A i \in DOMAIN text.items : Plain("Asset", text.items[i]) = "ok"
    <3>1. DOMAIN loop = DOMAIN text.items
      OBVIOUS
    <3>2. \A i \in DOMAIN text.items : loop[i] = Plain("Asset", text.items[i])
      OBVIOUS
    <3> HIDE DEF loop
    <3>3. FirstFailure(loop) = "ok" <=> \A i \in DOMAIN loop : loop[i] = "ok"
      BY <3>1, LoopSucceeds
    <3> QED BY <3>1, <3>2, <3>3
  <2>3. WatchlistFromJSON(text) = "ok" <=>
          Plain("Watchlist", text) = "ok" /\ FirstFailure(loop) = "ok"
    BY DEF WatchlistFromJSON
  <2>4. \A i : Plain("Asset", text.items[i]) = "ok" => text.items[i].is = "object"
    BY DEF Plain
  <2>5. \A i : Regular("Asset", text.items[i]) => Plain("Asset", text.items[i]) = "ok"
    <3>1. "Asset" \in TypeNames
      BY DEF TypeNames, Members
    <3> QED BY <3>1, RegularIsRead
  <2> HIDE DEF loop
  <2> QED BY <1>2, <1>7, <2>1, <2>2, <2>3, <2>4, <2>5, RegularIsRead
<1>8. CASE text.is # "broken" /\ type \notin {"Activity", "Bars", "Watchlist"}
  <2>1. fromJSON(type, text) = Plain(type, text) /\ ItemType(type) = "none"
    BY <1>8 DEF fromJSON, ItemType
  <2> QED BY <1>2, <2>1, RegularIsRead
<1> QED BY <1>4, <1>5, <1>6, <1>7, <1>8

-----------------------------------------------------------------------------
(* The objects of a body, with their types.                                 *)
LEMMA BodyTexts ==
  ASSUME NEW type \in TypeNames, NEW list \in BOOLEAN, NEW body \in Bodies(type, list)
  PROVE  /\ list => DOMAIN body.items \subseteq Nat
         /\ list => \A i \in DOMAIN body.items : body.items[i] \in Texts(type)
         /\ ~list => body \in Texts(type)
<1>1. CASE list
  <2> DEFINE texts == {text \in Texts(type) : text.is # "broken"}
  <2>1. body \in Lists(type)
    BY <1>1 DEF Bodies
  <2>2. \/ body.items \in {<<>>} \cup [1 .. 1 -> texts] \cup [1 .. 2 -> texts]
        \/ body.items = <<>>
    BY <2>1 DEF Lists
  <2>3. DOMAIN <<>> = {}
    OBVIOUS
  <2>4. \/ DOMAIN body.items = {}
        \/ body.items \in [1 .. 1 -> texts]
        \/ body.items \in [1 .. 2 -> texts]
    BY <2>2, <2>3
  <2>5. texts \subseteq Texts(type)
    OBVIOUS
  <2> HIDE DEF texts
  <2> QED BY <1>1, <2>4, <2>5
<1>2. CASE ~list
  BY <1>2 DEF Bodies
<1> QED BY <1>1, <1>2

(* A body is read if all its objects are regular, and only if all of them   *)
(* are objects.                                                             *)
LEMMA BodyIsRead ==
  ASSUME NEW type \in TypeNames, NEW list \in BOOLEAN, NEW body \in Bodies(type, list)
  PROVE  /\ Outcome(type, list, body) = "ok" => Shape(type, list, body) # "wrong"
         /\ Shape(type, list, body) = "documented" =>
              /\ Outcome(type, list, body) = "ok"
              /\ UnsetIn(type, list, body) \subseteq {"legs"}
<1> DEFINE texts == IF list THEN {body.items[i] : i \in DOMAIN body.items} ELSE {body}
           Objective(text) ==
             /\ text.is = "object"
             /\ \A i \in DOMAIN text.items : text.items[i].is = "object"
           Documentary(text) ==
             /\ Regular(type, text)
             /\ \A i \in DOMAIN text.items : Regular(ItemType(type), text.items[i])
<1>1. \A text \in texts :
        /\ text \in Texts(type) /\ DOMAIN text.items \subseteq Nat
        /\ ItemType(type) = "none" => DOMAIN text.items = {}
  BY BodyTexts, TextItems
<1>2. \A text \in texts :
        /\ fromJSON(type, text) = "ok" => Objective(text)
        /\ Documentary(text) => fromJSON(type, text) = "ok"
  <2> SUFFICES ASSUME NEW text \in texts
               PROVE  /\ fromJSON(type, text) = "ok" => Objective(text)
                      /\ Documentary(text) => fromJSON(type, text) = "ok"
    OBVIOUS
  <2>1. DOMAIN text.items \subseteq Nat
    BY <1>1
  <2>2. ItemType(type) = "none" => DOMAIN text.items = {}
    BY <1>1
  <2> HIDE DEF texts
  <2> QED BY <2>1, <2>2, ObjectIsRead
<1>3. Outcome(type, list, body) = "ok" <=>
        /\ list => body.is = "array"
        /\ \A text \in texts : fromJSON(type, text) = "ok"
  <2>1. CASE ~list
    BY <2>1 DEF Outcome
  <2>2. CASE list /\ body.is # "array"
    BY <2>2 DEF Outcome, ListFromJSON
  <2>3. CASE list /\ body.is = "array"
    <3> DEFINE loop == [i \in DOMAIN body.items |-> fromJSON(type, body.items[i])]
    <3>1. Outcome(type, list, body) = FirstFailure(loop)
      BY <2>3 DEF Outcome, ListFromJSON
    <3>2. DOMAIN loop = DOMAIN body.items /\ DOMAIN body.items \subseteq Nat
      BY <2>3, BodyTexts
    <3>3. \A i \in DOMAIN body.items : loop[i] = fromJSON(type, body.items[i])
      OBVIOUS
    <3> HIDE DEF loop
    <3>4. FirstFailure(loop) = "ok" <=> \A i \in DOMAIN loop : loop[i] = "ok"
      BY <3>2, LoopSucceeds
    <3> QED BY <2>3, <3>1, <3>2, <3>3, <3>4
  <2> QED BY <2>1, <2>2, <2>3
<1>4. \A part : part \in Parts(type, list, body) <=>
        \/ \E text \in texts : part = <<type, text>>
        \/ \E text \in texts : \E i \in DOMAIN text.items :
             part = <<ItemType(type), text.items[i]>>
  BY DEF Parts
<1>5. ASSUME \A text \in texts : Objective(text), list => body.is = "array"
      PROVE  Shape(type, list, body) # "wrong"
  <2>1. \A part \in Parts(type, list, body) : part[2].is = "object"
    <3> HIDE DEF texts
    <3> QED BY <1>4, <1>5
  <2> QED BY <1>5, <2>1 DEF Shape
<1>6. ASSUME Shape(type, list, body) = "documented"
      PROVE  (list => body.is = "array") /\ \A text \in texts : Documentary(text)
  <2>1. /\ list => body.is = "array"
        /\ \A part \in Parts(type, list, body) :
             /\ part[2].is = "object"
             /\ \A m \in DOMAIN Members[part[1]] : part[2].of[m] \in Usual(part[1], m)
    BY <1>6 DEF Shape
  <2>2. ASSUME NEW text \in texts PROVE Regular(type, text)
    <3>1. <<type, text>> \in Parts(type, list, body)
      BY <1>4
    <3> HIDE DEF texts
    <3> QED BY <2>1, <3>1 DEF Regular
  <2>3. ASSUME NEW text \in texts, NEW i \in DOMAIN text.items
        PROVE  Regular(ItemType(type), text.items[i])
    <3>1. <<ItemType(type), text.items[i]>> \in Parts(type, list, body)
      BY <1>4
    <3> HIDE DEF texts
    <3> QED BY <2>1, <3>1 DEF Regular
  <2> HIDE DEF texts
  <2> QED BY <2>1, <2>2, <2>3
<1>7. ASSUME \A text \in texts : Documentary(text)
      PROVE  UnsetIn(type, list, body) \subseteq {"legs"}
  <2> SUFFICES ASSUME NEW part \in Parts(type, list, body)
               PROVE  Unset(part[1], part[2]) \subseteq {"legs"}
    BY DEF UnsetIn
  <2> HIDE DEF texts
  <2>1. CASE \E text \in texts : part = <<type, text>>
    <3>1. PICK text \in texts : part = <<type, text>>
      BY <2>1
    <3>2. Regular(type, text) /\ part[1] = type /\ part[2] = text
      BY <1>7, <3>1
    <3> QED BY <3>2, RegularIsRead
  <2>2. CASE \E text \in texts : \E i \in DOMAIN text.items :
                part = <<ItemType(type), text.items[i]>>
    <3>1. PICK text \in texts : \E i \in DOMAIN text.items :
                part = <<ItemType(type), text.items[i]>>
      BY <2>2
    <3>2. PICK i \in DOMAIN text.items : part = <<ItemType(type), text.items[i]>>
      BY <3>1
    <3>3. Regular(ItemType(type), part[2]) /\ part[1] = ItemType(type)
      BY <1>7, <3>1, <3>2
    <3>4. ItemType(type) # "none"
      <4>1. ItemType(type) = "none" => DOMAIN text.items = {}
        BY <1>1
      <4> QED BY <3>2, <4>1
    <3>5. ItemType(type) \in TypeNames
      BY <3>4 DEF ItemType, TypeNames, Members
    <3> QED BY <3>3, <3>5, RegularIsRead
  <2> QED BY <1>4, <2>1, <2>2
<1> HIDE DEF texts, Objective, Documentary
<1>8. ASSUME Outcome(type, list, body) = "ok" PROVE Shape(type, list, body) # "wrong"
  BY <1>2, <1>3, <1>5, <1>8
<1>9. ASSUME Shape(type, list, body) = "documented"
      PROVE  /\ Outcome(type, list, body) = "ok"
             /\ UnsetIn(type, list, body) \subseteq {"legs"}
  BY <1>2, <1>3, <1>6, <1>7, <1>9
<1> QED BY <1>8, <1>9

-----------------------------------------------------------------------------
(* The operations read an object of one of the types, or a list of them, or *)
(* nothing.                                                                 *)
Expects(req) == req.type \in TypeNames \cup {"nothing"} /\ req.list \in BOOLEAN

LEMMA OpExpects ==
  ASSUME NEW c \in Ops
  PROVE  Expects(c.request)
<1> DEFINE T == TypeNames \cup {"nothing"}
<1>0. {"Account", "AccountConfigurations", "Activity", "Asset", "Bars", "Clock", "Date",
       "Order", "PortfolioHistory", "Position", "Watchlist", "nothing"} \subseteq T
  BY DEF TypeNames, Members
<1>1. \A verb, path, body : \A type \in T :
        /\ Expects(Request(verb, path, body, type))
        /\ Expects([Request(verb, path, body, type) EXCEPT !.fetch = TRUE])
        /\ Expects([Request(verb, path, body, type) EXCEPT !.accepts = {200, 204}])
  BY DEF Request, Expects
<1>2. \A path : \A type \in T : Expects(GetList(path, type)) /\ Expects(DeleteAll(path, type))
  BY DEF GetList, DeleteAll, Get, Request, Expects
<1>3. \A path : \A type \in T : Expects(Get(path, type))
  BY <1>1 DEF Get
<1> HIDE DEF T
<1>4. /\ Expects(getAccount) /\ Expects(getAccountConfigurations) /\ Expects(getClock)
      /\ Expects(getBars) /\ Expects(getPortfolioHistory)
  BY <1>0, <1>3 DEF getAccount, getAccountConfigurations, getClock, getBars,
     getPortfolioHistory
<1>5. /\ \A id : Expects(getOrder(id)) /\ Expects(getOrderByClientOrderID(id))
      /\ \A symbol : Expects(getPosition(symbol)) /\ Expects(getAsset(symbol))
      /\ \A id : Expects(getWatchlist(id))
  BY <1>0, <1>3 DEF getOrder, getOrderByClientOrderID, getPosition, getAsset, getWatchlist
<1>6. /\ Expects(getAccountActivity) /\ Expects(getOrders) /\ Expects(getPositions)
      /\ Expects(getAssets) /\ Expects(getCalendar) /\ Expects(getWatchlists)
  BY <1>0, <1>2 DEF getAccountActivity, getOrders, getPositions, getAssets, getCalendar,
     getWatchlists
<1>7. Expects(cancelOrders) /\ Expects(closePositions)
  BY <1>0, <1>2 DEF cancelOrders, closePositions
<1>8. /\ \A symbol, qty : Expects(submitOrder(symbol, qty))
      /\ \A id, qty : Expects(replaceOrder(id, qty))
      /\ \A conf : Expects(updateAccountConfigurations(conf))
  BY <1>0, <1>1 DEF submitOrder, replaceOrder, updateAccountConfigurations
<1>9. /\ \A symbols : Expects(createWatchlist(symbols))
      /\ \A w, symbols : Expects(updateWatchlist(w, symbols))
      /\ \A w, symbol : Expects(addSymbolToWatchlist(w, symbol))
      /\ \A w, symbol : Expects(removeSymbolFromWatchlist(w, symbol))
  BY <1>0, <1>1 DEF createWatchlist, updateWatchlist, addSymbolToWatchlist,
     removeSymbolFromWatchlist
<1>10. \A id : Expects(cancelOrder(id))
  BY <1>0 DEF cancelOrder, Request, Expects, T
<1>11. \A symbol : Expects(closePosition(symbol))
  BY <1>0 DEF closePosition, Request, Expects, T
<1>12. \A w : Expects(deleteWatchlist(w))
  BY <1>0 DEF deleteWatchlist, Request, Expects, T
<1>13. \A op, args, req : Expects(req) => Expects(Op(op, args, req).request)
  BY DEF Op
<1>14. CASE c \in Reads
  BY <1>4, <1>5, <1>6, <1>13, <1>14 DEF Reads
<1>15. CASE c \notin Reads
  <2>1. CASE \/ c = Op("cancelOrders", <<>>, cancelOrders)
             \/ c = Op("closePositions", <<>>, closePositions)
    BY <1>7, <1>13, <2>1
  <2>2. CASE \/ \E symbol \in Symbols, qty \in Qtys :
                  c = Op("submitOrder", <<symbol, qty>>, submitOrder(symbol, qty))
             \/ \E id \in OrderIds, qty \in Qtys :
                  c = Op("replaceOrder", <<id, qty>>, replaceOrder(id, qty))
             \/ \E conf \in Configs :
                  c = Op("updateAccountConfigurations", <<conf>>,
                         updateAccountConfigurations(conf))
    BY <1>8, <1>13, <2>2
  <2>3. CASE \/ \E id \in OrderIds : c = Op("cancelOrder", <<id>>, cancelOrder(id))
             \/ \E symbol \in Symbols :
                  c = Op("closePosition", <<symbol>>, closePosition(symbol))
             \/ \E w \in ListIds : c = Op("deleteWatchlist", <<w>>, deleteWatchlist(w))
    BY <1>13, <1>10, <1>11, <1>12, <2>3
  <2>4. CASE \/ \E symbols \in SUBSET Symbols :
                  c = Op("createWatchlist", <<symbols>>, createWatchlist(symbols))
             \/ \E w \in ListIds, symbols \in SUBSET Symbols :
                  c = Op("updateWatchlist", <<w, symbols>>, updateWatchlist(w, symbols))
    BY <1>13, <1>9, <2>4
  <2>5. CASE \/ \E w \in ListIds, symbol \in Symbols :
                  c = Op("addSymbolToWatchlist", <<w, symbol>>,
                         addSymbolToWatchlist(w, symbol))
             \/ \E w \in ListIds, symbol \in Symbols :
                  c = Op("removeSymbolFromWatchlist", <<w, symbol>>,
                         removeSymbolFromWatchlist(w, symbol))
    BY <1>13, <1>9, <2>5
  <2> QED BY <1>15, <2>1, <2>2, <2>3, <2>4, <2>5, OpCases
<1> QED BY <1>14, <1>15

(* What was read, and of which shape the body was.                          *)
BodyInv == DocumentedBodyIsRead /\ WrongBodyIsRefused

(* The body of the answer is read.                                          *)
LEMMA ReceiveReads ==
  ASSUME IInv, BodyInv, Receive
  PROVE  BodyInv'
<1>1. Expects(request)
  <2>1. CASE request = call.request /\ call \in Ops
    BY <2>1, OpExpects
  <2>2. CASE request = Fetch(call.request) /\ call \in Ops
    BY <2>2, OpExpects DEF Fetch, Get, Request, Expects
  <2> QED BY <2>1, <2>2 DEF Receive, IInv, InProgress
<1>2. CASE UNCHANGED result
  BY <1>2 DEF BodyInv, DocumentedBodyIsRead, WrongBodyIsRefused
<1>3. CASE \E shape \in {"none", "unusual", "wrong"} : result'.shape = shape /\ ~result'.ok
  BY <1>3 DEF BodyInv, DocumentedBodyIsRead, WrongBodyIsRefused
<1>4. CASE result'.shape = "none"
  BY <1>4 DEF BodyInv, DocumentedBodyIsRead, WrongBodyIsRefused
<1>5. NoAnswer \/ Return(NoResult) => result'.shape = "none"
  BY DEF NoAnswer, Return, NoResult, Result
<1>6. ASSUME ParseBody PROVE BodyInv'
  <2>1. CASE request.type = "nothing" /\ Return(Result(TRUE, Nothing, "none", {}))
    BY <1>4, <2>1 DEF Return, Result
  <2>2. CASE request.type # "nothing"
    <3>1. request.type \in TypeNames /\ request.list \in BOOLEAN
      BY <1>1, <2>2 DEF Expects
    <3>2. PICK body \in Bodies(request.type, request.list) :
            LET outcome == Outcome(request.type, request.list, body)
                shape == Shape(request.type, request.list, body)
                unset == UnsetIn(request.type, request.list, body)
            IN  \/ /\ outcome = "ok"
                   /\ result' = Result(TRUE, response.body, shape,
                                       IF shape = "documented" THEN unset ELSE {})
                \/ outcome # "ok" /\ result' = Result(FALSE, Nothing, shape, {})
      BY <1>6, <2>2 DEF ParseBody, Return
    <3> DEFINE outcome == Outcome(request.type, request.list, body)
               shape == Shape(request.type, request.list, body)
               unset == UnsetIn(request.type, request.list, body)
    <3>3. /\ outcome = "ok" => shape # "wrong"
          /\ shape = "documented" => outcome = "ok" /\ unset \subseteq {"legs"}
      BY <3>1, BodyIsRead
    <3>4. \/ /\ outcome = "ok"
             /\ result' = Result(TRUE, response.body, shape,
                                 IF shape = "documented" THEN unset ELSE {})
          \/ outcome # "ok" /\ result' = Result(FALSE, Nothing, shape, {})
      BY <3>2
    <3> HIDE DEF outcome, shape, unset
    <3> QED BY <3>3, <3>4 DEF Result, BodyInv, DocumentedBodyIsRead, WrongBodyIsRefused
  <2> QED BY <1>6, <2>1, <2>2 DEF ParseBody
<1> QED BY <1>2, <1>4, <1>5, <1>6 DEF Receive

LEMMA SpecBodyInv == Spec => []BodyInv
<1>1. Init => BodyInv
  BY DEF Init, NoResult, Result, BodyInv, DocumentedBodyIsRead, WrongBodyIsRefused
<1>2. IInv /\ BodyInv /\ [Next]_vars => BodyInv'
  <2> SUFFICES ASSUME IInv, BodyInv, [Next]_vars PROVE BodyInv'
    OBVIOUS
  <2>1. CASE Call
    BY <2>1 DEF Call, NoResult, Result, BodyInv, DocumentedBodyIsRead, WrongBodyIsRefused
  <2>2. CASE Served \/ RequestLost \/ ReplyLost \/ Market \/ UNCHANGED vars
    BY <2>2 DEF Served, RequestLost, ReplyLost, Market, vars, BodyInv, DocumentedBodyIsRead,
       WrongBodyIsRefused
  <2> QED BY <2>1, <2>2, ReceiveReads DEF Next
<1> QED BY <1>1, <1>2, SpecIInv, PTL DEF Spec

(* Every body that is as the unit tests document it is read without a       *)
(* failing assertion, whatever operation reads it, and nothing but          *)
(* Order::legs is left indeterminate.                                       *)
THEOREM SpecDocumentedBodyIsRead == Spec => []DocumentedBodyIsRead
<1>1. BodyInv => DocumentedBodyIsRead
  BY DEF BodyInv
<1> QED BY <1>1, SpecBodyInv, PTL

(* No body that is not what the operation expects, in any part of it, gives *)
(* a success.                                                               *)
THEOREM SpecWrongBodyIsRefused == Spec => []WrongBodyIsRefused
<1>1. BodyInv => WrongBodyIsRefused
  BY DEF BodyInv
<1> QED BY <1>1, SpecBodyInv, PTL
=============================================================================
