---------------------------- MODULE AlpacaClient ----------------------------
(***************************************************************************)
(* class alpaca::Client of alpaca/client.{h,cpp}: every operation is one    *)
(* HTTP request (two, where a 204 is answered by fetching the resource),    *)
(* and the client keeps nothing between two calls.  With it the REST        *)
(* service (external) and a network that loses requests and replies.        *)
(*                                                                          *)
(* call      the operation in progress, or the last one                     *)
(* stage     "idle", "sent" (the request is on its way), "answered", or     *)
(*           "crashed"                                                      *)
(* request, response, result    of that operation; result.ok is the Status  *)
(*                                                                          *)
(* History, since the call began: done (what the operation promises became  *)
(* true), seen (the values of the resource it names), created (orders).     *)
(*                                                                          *)
(* Left out: how the queries and the JSON of requests are put together, and *)
(* the default or partial value that goes with an error.                    *)
(***************************************************************************)
EXTENDS AlpacaTypes

CONSTANTS OrderIds, Symbols, ListIds, Configs,
          Nothing,        \* no order, no watchlist, no body
          MaxQty,         \* bound: shares of an order
          MaxCalls        \* bound: calls in a behaviour

ASSUME ClientAssumption == MaxQty \in Nat \ {0} /\ MaxCalls \in Nat

Qtys == 1 .. MaxQty

Order == [symbol : Symbols, qty : Qtys, filled : 0 .. MaxQty,
          state : {"open", "filled", "canceled"}]

ASSUME NothingAssumption ==
  /\ \A order \in Order : order # Nothing
  /\ \A symbols \in SUBSET Symbols : symbols # Nothing

VARIABLES orders, position, watchlists, config, clock,
          call, stage, request, response, result, calls,
          done, seen, created

service == <<orders, position, watchlists, config, clock>>
history == <<done, seen, created>>
vars == <<service, call, stage, request, response, result, calls, history>>

-----------------------------------------------------------------------------
(***************************************************************************)
(* The operations.  accepts are the HTTP codes that are a success; a 204 is *)
(* followed by a GET if fetch is set; everything else is an error.  The     *)
(* body is read as an object of the type, or as a list of them.             *)
(***************************************************************************)
Request(verb, path, body, type) ==
  [verb |-> verb, path |-> path, body |-> body, type |-> type, list |-> FALSE,
   accepts |-> {200}, fetch |-> FALSE]

Get(path, type) == Request("GET", path, Nothing, type)
GetList(path, type) == [Get(path, type) EXCEPT !.list = TRUE]
DeleteAll(path, type) ==
  [Request("DELETE", path, Nothing, type) EXCEPT !.accepts = {200, 207}, !.list = TRUE]

getAccount == Get(<<"account">>, "Account")
getAccountConfigurations ==
  Get(<<"account", "configurations">>, "AccountConfigurations")
updateAccountConfigurations(c) ==
  Request("PATCH", <<"account", "configurations">>, c, "AccountConfigurations")
getAccountActivity == GetList(<<"account", "activities">>, "Activity")

getOrder(id) == Get(<<"orders", id>>, "Order")
getOrderByClientOrderID(id) == Get(<<"orders:by_client_order_id", id>>, "Order")
getOrders == GetList(<<"orders">>, "Order")
submitOrder(symbol, qty) ==
  Request("POST", <<"orders">>, [symbol |-> symbol, qty |-> qty], "Order")
replaceOrder(id, qty) == Request("PATCH", <<"orders", id>>, qty, "Order")
cancelOrders == DeleteAll(<<"orders">>, "Order")

(* Mutant: the order is only read. *)
cancelOrderUnsent(id) == getOrder(id)
cancelOrder(id) ==
  [Request("DELETE", <<"orders", id>>, Nothing, "Order") EXCEPT !.fetch = TRUE]

getPositions == GetList(<<"positions">>, "Position")
getPosition(symbol) == Get(<<"positions", symbol>>, "Position")

(* Line 587 names the orders, not the positions. *)
closePositions == DeleteAll(<<"orders">>, "Position")
closePosition(symbol) ==
  [Request("DELETE", <<"positions", symbol>>, Nothing, "Position") EXCEPT !.fetch = TRUE]

getAssets == GetList(<<"assets">>, "Asset")
getAsset(symbol) == Get(<<"assets", symbol>>, "Asset")
getClock == Get(<<"clock">>, "Clock")
getCalendar == GetList(<<"calendar">>, "Date")
getPortfolioHistory == Get(<<"account", "portfolio", "history">>, "PortfolioHistory")
getBars == Get(<<"bars">>, "Bars")

getWatchlists == GetList(<<"watchlists">>, "Watchlist")
getWatchlist(id) == Get(<<"watchlists", id>>, "Watchlist")
createWatchlist(symbols) == Request("POST", <<"watchlists">>, symbols, "Watchlist")
updateWatchlist(id, symbols) ==
  Request("PUT", <<"watchlists", id>>, symbols, "Watchlist")
deleteWatchlist(id) ==
  [Request("DELETE", <<"watchlists", id>>, Nothing, "nothing") EXCEPT !.accepts = {200, 204}]
addSymbolToWatchlist(id, symbol) ==
  Request("POST", <<"watchlists", id>>, symbol, "Watchlist")
removeSymbolFromWatchlist(id, symbol) ==
  Request("DELETE", <<"watchlists", id, symbol>>, Nothing, "Watchlist")

-----------------------------------------------------------------------------
(***************************************************************************)
(* The service.                                                             *)
(***************************************************************************)
IsOpen(id) == orders[id] # Nothing /\ orders[id].state = "open"

(* What a GET of the path would say. *)
Resource(path) ==
  CASE path = <<"account", "configurations">> -> config
    [] path = <<"orders">> -> {id \in OrderIds : IsOpen(id)}
    [] Head(path) \in {"orders", "orders:by_client_order_id"} /\ Len(path) = 2 ->
         orders[path[2]]
    [] path = <<"positions">> -> position
    [] Head(path) = "positions" /\ Len(path) = 2 ->
         IF position[path[2]] = 0 THEN Nothing ELSE position[path[2]]
    [] path = <<"watchlists">> -> watchlists
    [] Head(path) = "watchlists" /\ Len(path) > 1 -> watchlists[path[2]]
    [] OTHER -> clock

Reply(status, body) == [status |-> status, body |-> body]

(* Without an answer in time httplib gives up: an empty response. *)
Empty == Reply(0, Nothing)

ServeRead ==
  /\ request.verb = "GET"
  /\ LET value == Resource(request.path)
     IN  response' = IF value = Nothing THEN Reply(404, Nothing) ELSE Reply(200, value)
  /\ UNCHANGED <<service, created>>

ServeConfig ==
  /\ request.verb = "PATCH" /\ request.path = <<"account", "configurations">>
  /\ config' = request.body /\ response' = Reply(200, request.body)
  /\ UNCHANGED <<orders, position, watchlists, clock, created>>

ServeNewOrder ==
  /\ request.verb = "POST" /\ request.path = <<"orders">>
  /\ \E id \in OrderIds :
       /\ orders[id] = Nothing
       /\ orders' = [orders EXCEPT ![id] =
            [symbol |-> request.body.symbol, qty |-> request.body.qty,
             filled |-> 0, state |-> "open"]]
       /\ created' = created \cup {id}
       /\ response' = Reply(200, orders'[id])
  /\ UNCHANGED <<position, watchlists, config, clock>>

ServeReplace ==
  /\ request.verb = "PATCH" /\ Head(request.path) = "orders"
  /\ LET id == request.path[2]
     IN  /\ IsOpen(id) /\ orders[id].filled < request.body
         /\ orders' = [orders EXCEPT ![id].qty = request.body]
         /\ response' = Reply(200, orders'[id])
  /\ UNCHANGED <<position, watchlists, config, clock, created>>

ServeCancel ==
  /\ request.verb = "DELETE" /\ Head(request.path) = "orders"
  /\ Len(request.path) = 2
  /\ LET id == request.path[2]
     IN  /\ IsOpen(id)
         /\ orders' = [orders EXCEPT ![id].state = "canceled"]
         /\ response' \in {Reply(204, Nothing), Reply(200, orders'[id])}
  /\ UNCHANGED <<position, watchlists, config, clock, created>>

(* Some of the orders may not be cancelable: the body says which, but with  *)
(* a code the client does not look at.                                      *)
ServeCancelAll ==
  /\ request.verb = "DELETE" /\ request.path = <<"orders">>
  /\ \E some \in SUBSET {id \in OrderIds : IsOpen(id)} :
       orders' = [id \in OrderIds |->
                    IF id \in some THEN [orders[id] EXCEPT !.state = "canceled"]
                                   ELSE orders[id]]
  /\ response' = Reply(207, {id \in OrderIds : IsOpen(id)})
  /\ UNCHANGED <<position, watchlists, config, clock, created>>

ServeClose ==
  /\ request.verb = "DELETE" /\ Head(request.path) = "positions"
  /\ LET symbol == request.path[2]
     IN  /\ position[symbol] > 0
         /\ position' = [position EXCEPT ![symbol] = 0]
         /\ response' \in {Reply(204, Nothing), Reply(200, symbol)}
  /\ UNCHANGED <<orders, watchlists, config, clock, created>>

ServeWatchlist ==
  /\ Head(request.path) = "watchlists" /\ request.verb # "GET"
  /\ \E id \in ListIds :
       /\ Len(request.path) > 1 => request.path[2] = id
       /\ request.path = <<"watchlists">> <=> watchlists[id] = Nothing
       /\ watchlists' = [watchlists EXCEPT ![id] =
            CASE request.verb = "POST" /\ Len(request.path) = 2 -> @ \cup {request.body}
              [] request.verb = "PUT" \/ Len(request.path) = 1 -> request.body
              [] Len(request.path) = 3 -> @ \ {request.path[3]}
              [] OTHER -> Nothing]
       /\ response' = IF watchlists'[id] = Nothing THEN Reply(204, Nothing)
                                                   ELSE Reply(200, watchlists'[id])
  /\ UNCHANGED <<orders, position, config, clock, created>>

(* The service refuses: unknown id, order not open, not enough money...     *)
ServeNot ==
  /\ response' = Reply(422, Nothing)
  /\ UNCHANGED <<service, created>>

Serve ==
  \/ ServeRead \/ ServeConfig \/ ServeNewOrder \/ ServeReplace \/ ServeCancel
  \/ ServeCancelAll \/ ServeClose \/ ServeWatchlist \/ ServeNot

(* Orders are filled and the market moves at any time. *)
MarketMoves ==
  \/ /\ \E id \in OrderIds :
          /\ IsOpen(id)
          /\ LET o == [orders[id] EXCEPT !.filled = @ + 1]
             IN  orders' = [orders EXCEPT ![id] =
                   IF o.filled = o.qty THEN [o EXCEPT !.state = "filled"] ELSE o]
          /\ position' = [position EXCEPT ![orders[id].symbol] = @ + 1]
     /\ UNCHANGED clock
  \/ /\ clock' = 1 - clock
     /\ UNCHANGED <<orders, position>>

-----------------------------------------------------------------------------
(***************************************************************************)
(* The calls a program may make, each with its request.                     *)
(***************************************************************************)
Op(op, args, req) == [op |-> op, args |-> args, request |-> req]

Reads ==
  {Op("getAccount", <<>>, getAccount),
   Op("getAccountConfigurations", <<>>, getAccountConfigurations),
   Op("getAccountActivity", <<>>, getAccountActivity),
   Op("getOrders", <<>>, getOrders), Op("getPositions", <<>>, getPositions),
   Op("getAssets", <<>>, getAssets), Op("getClock", <<>>, getClock),
   Op("getCalendar", <<>>, getCalendar), Op("getBars", <<>>, getBars),
   Op("getPortfolioHistory", <<>>, getPortfolioHistory),
   Op("getWatchlists", <<>>, getWatchlists)}
  \cup {Op("getOrder", <<id>>, getOrder(id)) : id \in OrderIds}
  \cup {Op("getOrderByClientOrderID", <<id>>, getOrderByClientOrderID(id)) : id \in OrderIds}
  \cup {Op("getPosition", <<symbol>>, getPosition(symbol)) : symbol \in Symbols}
  \cup {Op("getAsset", <<symbol>>, getAsset(symbol)) : symbol \in Symbols}
  \cup {Op("getWatchlist", <<id>>, getWatchlist(id)) : id \in ListIds}

Trades ==
  {Op("cancelOrders", <<>>, cancelOrders), Op("closePositions", <<>>, closePositions)}
  \cup {Op("submitOrder", <<symbol, qty>>, submitOrder(symbol, qty)) :
           symbol \in Symbols, qty \in Qtys}
  \cup {Op("replaceOrder", <<id, qty>>, replaceOrder(id, qty)) :
           id \in OrderIds, qty \in Qtys}
  \cup {Op("cancelOrder", <<id>>, cancelOrder(id)) : id \in OrderIds}
  \cup {Op("closePosition", <<symbol>>, closePosition(symbol)) : symbol \in Symbols}

Settings ==
  {Op("updateAccountConfigurations", <<c>>, updateAccountConfigurations(c)) : c \in Configs}
  \cup {Op("createWatchlist", <<symbols>>, createWatchlist(symbols)) :
           symbols \in SUBSET Symbols}
  \cup {Op("updateWatchlist", <<id, symbols>>, updateWatchlist(id, symbols)) :
           id \in ListIds, symbols \in SUBSET Symbols}
  \cup {Op("deleteWatchlist", <<id>>, deleteWatchlist(id)) : id \in ListIds}
  \cup {Op("addSymbolToWatchlist", <<id, symbol>>, addSymbolToWatchlist(id, symbol)) :
           id \in ListIds, symbol \in Symbols}
  \cup {Op("removeSymbolFromWatchlist", <<id, symbol>>, removeSymbolFromWatchlist(id, symbol)) :
           id \in ListIds, symbol \in Symbols}

(* What client.h says the operation does. *)
Promised(c) ==
  CASE c.op = "submitOrder" ->
         \E id \in created : orders[id].symbol = c.args[1] /\ orders[id].qty = c.args[2]
    [] c.op = "replaceOrder" ->
         orders[c.args[1]] # Nothing /\ orders[c.args[1]].qty = c.args[2]
    [] c.op = "cancelOrder" -> orders[c.args[1]] # Nothing /\ ~IsOpen(c.args[1])
    [] c.op = "closePosition" -> position[c.args[1]] = 0
    [] c.op = "closePositions" -> \A symbol \in Symbols : position[symbol] = 0
    [] c.op = "updateAccountConfigurations" -> config = c.args[1]
    [] c.op = "createWatchlist" -> \E id \in ListIds : watchlists[id] = c.args[1]
    [] c.op = "updateWatchlist" -> watchlists[c.args[1]] = c.args[2]
    [] c.op = "deleteWatchlist" -> watchlists[c.args[1]] = Nothing
    [] c.op = "addSymbolToWatchlist" ->
         watchlists[c.args[1]] # Nothing /\ c.args[2] \in watchlists[c.args[1]]
    [] c.op = "removeSymbolFromWatchlist" ->
         watchlists[c.args[1]] # Nothing /\ c.args[2] \notin watchlists[c.args[1]]
    [] OTHER -> TRUE

NoCall == Op("none", <<>>, getClock)

(* shape is that of the body that was read, and unset the members that are  *)
(* indeterminate in the value, if the body was a documented one.            *)
Result(ok, value, shape, unset) ==
  [ok |-> ok, value |-> value, shape |-> shape, unset |-> unset]
NoResult == Result(FALSE, Nothing, "none", {})

Init ==
  /\ orders = [id \in OrderIds |-> Nothing]
  /\ position = [symbol \in Symbols |-> 0]
  /\ watchlists = [id \in ListIds |-> Nothing]
  /\ config \in Configs /\ clock = 0
  /\ call = NoCall /\ stage = "idle" /\ request = getClock /\ response = Empty
  /\ result = NoResult /\ calls = 0
  /\ done = FALSE /\ seen = {} /\ created = {}

(* What happens to the service while a call is in progress is remembered. *)
Observe ==
  /\ done' = (done \/ Promised(call)')
  /\ seen' = seen \cup {Resource(call.request.path)'}

Call ==
  /\ stage = "idle" /\ calls < MaxCalls
  /\ calls' = calls + 1 /\ UNCHANGED service
  /\ \E c \in Reads \cup Trades \cup Settings : call' = c /\ request' = c.request
  /\ stage' = "sent" /\ result' = NoResult /\ response' = Empty
  /\ created' = {}
  /\ done' = Promised(call)'
  /\ seen' = {Resource(call.request.path)'}

(* The network: the request, or the reply, may be lost. *)
Served ==
  /\ stage = "sent" /\ stage' = "answered"
  /\ Serve
  /\ UNCHANGED <<call, request, result, calls>>
  /\ Observe

RequestLost ==
  /\ stage = "sent" /\ stage' = "answered"
  /\ response' = Empty
  /\ UNCHANGED <<service, call, request, result, calls, history>>

ReplyLost ==
  /\ stage = "answered" /\ response.status # 0
  /\ response' = Empty
  /\ UNCHANGED <<service, call, stage, request, result, calls, history>>

Market ==
  /\ MarketMoves
  /\ UNCHANGED <<watchlists, config, call, stage, request, response, result,
                 calls, created>>
  /\ IF stage \in {"sent", "answered"} THEN Observe ELSE UNCHANGED <<done, seen>>

-----------------------------------------------------------------------------
(***************************************************************************)
(* What every operation does with the response, in the order of its checks. *)
(***************************************************************************)
(* Mutant: the value is copied before the body is parsed into it. *)
ReturnDefault(res) ==
  /\ stage' = "idle" /\ result' = [res EXCEPT !.value = Nothing]
  /\ response' = Empty
  /\ UNCHANGED request

Return(res) ==
  /\ stage' = "idle" /\ result' = res
  /\ response' = Empty
  /\ UNCHANGED request

(* if (!resp).  Mutant: the request is sent again. *)
NoAnswerResend == stage' = "sent" /\ UNCHANGED <<request, response, result>>
NoAnswer == Return(NoResult)

(* cancelOrder and closePosition after a 204. *)
Fetch(req) == Get(req.path, req.type)

(* Mutant: refusals are a success. *)
IsSuccessLoose(status) == status \in request.accepts \cup {422}
IsSuccess(status) == status \in request.accepts

(* The body is read, whatever it turns out to be. *)
ParseBody ==
  \/ request.type = "nothing" /\ Return(Result(TRUE, Nothing, "none", {}))
  \/ /\ request.type # "nothing"
     /\ \E body \in Bodies(request.type, request.list) :
          LET outcome == Outcome(request.type, request.list, body)
              shape == Shape(request.type, request.list, body)
              unset == UnsetIn(request.type, request.list, body)
          IN  \/ /\ outcome = "ok"
                 /\ Return(Result(TRUE, response.body, shape,
                                  IF shape = "documented" THEN unset ELSE {}))
              \/ outcome = "error" /\ Return(Result(FALSE, Nothing, shape, {}))
              \/ /\ outcome = "assert"
                 /\ stage' = "crashed"
                 /\ result' = Result(FALSE, Nothing, shape, {})
                 /\ UNCHANGED <<request, response>>

Receive ==
  /\ stage = "answered"
  /\ \/ response.status = 0 /\ NoAnswer
     \/ /\ response.status = 204 /\ request.fetch
        /\ stage' = "sent" /\ request' = Fetch(request) /\ response' = Empty
        /\ UNCHANGED result
     \/ /\ response.status # 0 /\ ~(response.status = 204 /\ request.fetch)
        /\ IF IsSuccess(response.status) THEN ParseBody ELSE Return(NoResult)
  /\ UNCHANGED <<service, call, calls, history>>

Next ==
  \/ Call \/ Receive
  \/ Served \/ RequestLost \/ ReplyLost
  \/ Market

(* httplib gives every request up after a while. *)
Fairness == WF_vars(Receive) /\ WF_vars(Served \/ RequestLost)

Spec == Init /\ [][Next]_vars /\ Fairness

-----------------------------------------------------------------------------
TypeOK ==
  /\ orders \in [OrderIds -> Order \cup {Nothing}]
  /\ position \in [Symbols -> Nat]
  /\ watchlists \in [ListIds -> (SUBSET Symbols) \cup {Nothing}]
  /\ config \in Configs /\ clock \in 0 .. 1
  /\ stage \in {"idle", "sent", "answered", "crashed"}
  /\ response.status \in {0, 200, 204, 207, 404, 422}
  /\ result.ok \in BOOLEAN /\ result.shape \in {"none", "documented", "unusual", "wrong"}
  /\ done \in BOOLEAN
  /\ calls \in 0 .. MaxCalls /\ created \subseteq OrderIds

Returned(op) == stage = "idle" /\ call.op = op

(* client.h: an operation that returns OK has done what it is for, at some  *)
(* time during the call.  (closePositions is ClosePositionsSells; OK of     *)
(* cancelOrders does not say that all orders are cancelled.)                *)
OkMeansDone ==
  stage = "idle" /\ result.ok /\ call.op # "closePositions" => done

(* An OK answer to a read is a value the resource really had during the     *)
(* call, also where it took two requests, or the resource changed meanwhile.*)
AnswerIsTrue ==
  stage = "idle" /\ result.ok
    /\ (call.request.verb = "GET" \/ call.op = "cancelOrder") =>
       result.value \in seen

(* What ChaseMomentumStrategy relies on: the order that cancelOrder returns *)
(* shows every share that will ever be filled.                              *)
CancelReportsFinalFill ==
  Returned("cancelOrder") /\ result.ok =>
    result.value.filled = orders[call.args[1]].filled

(* A call never orders twice, whatever is lost. *)
AtMostOneOrder == Cardinality(created) <= 1

(* A body as the unit tests document it is read: it gives an OK value and   *)
(* never fails an assertion, and no number or truth value of it is left     *)
(* indeterminate, except Order::legs, which is never set: it is a bool,     *)
(* and JSON has an array or null there (order_test.cpp:33).                 *)
DocumentedBodyIsRead ==
  result.shape = "documented" => result.ok /\ result.unset \subseteq {"legs"}

(* A body that is not what the operation expects, in any part, never passes *)
(* for a success.                                                           *)
WrongBodyIsRefused == result.shape = "wrong" => ~result.ok

(* Every call returns, whatever is lost. *)
CallEnds == stage \in {"sent", "answered"} ~> stage \in {"idle", "crashed"}

(* client.h:348: "Close (liquidate) all Alpaca positions." *)
ClosePositionsSells ==
  Returned("closePositions") /\ result.ok => done
=============================================================================
