----------------------------- MODULE DataClient -----------------------------
(***************************************************************************)
(* class DataClient of data_handler/data_client.{h,cc}: the websocket       *)
(* session with the data supplier, from Run() to the delivery of data to    *)
(* the registered functions, with the supplier and the websocket library    *)
(* it talks through (external).                                             *)
(*                                                                          *)
(* The client:   state_, status_, auth_, reg_func_; phase is where Run() is *)
(*               and ret what it returned; stop_called is c->stop().        *)
(* The library:  conn is the connection, readbuf the frames that one read   *)
(*               of the socket brought.  All frames of a read are           *)
(*               dispatched, even after stop(): stop() only keeps the event *)
(*               loop from running the next handler.                        *)
(* The supplier: srv is its side of the session, outbox and inbox are the   *)
(*               two directions of the connection, data_sent counts.        *)
(* History:      delivered, the messages given to the functions; rejected,  *)
(*               the client handled a refusal or could not send.            *)
(***************************************************************************)
EXTENDS Integers, Sequences

CONSTANTS Funcs,          \* names for RegisterFunc
          MaxData,        \* bound: data messages of the supplier
          MaxStatus       \* bound: status messages out of turn

ASSUME ClientAssumption == MaxData \in Nat /\ MaxStatus \in Nat

VARIABLES state_, status_, auth_, reg_func_, no_run, phase, ret, stop_called,
          conn, readbuf, inbox, outbox, srv, data_sent, status_sent,
          delivered, rejected

client == <<state_, status_, stop_called>>
setup == <<auth_, reg_func_, no_run>>
supplier == <<srv, data_sent, status_sent>>
history == <<delivered, rejected>>
vars == <<client, setup, phase, ret, conn, readbuf, inbox, outbox, supplier,
          history>>

Message == [kind : {"connected", "authenticated", "auth_failed", "subscribed",
                    "sub_failed", "status"}, n : {0}]
             \cup [kind : {"data"}, n : 1 .. MaxData]

Msg(kind) == [kind |-> kind, n |-> 0]

-----------------------------------------------------------------------------
Init ==
  /\ state_ = "INIT" /\ status_ = "Ok"
  /\ auth_ = "" /\ reg_func_ = {} /\ no_run \in BOOLEAN
  /\ phase = "setup" /\ ret = "None" /\ stop_called = FALSE
  /\ conn = "none" /\ readbuf = <<>> /\ inbox = <<>> /\ outbox = <<>>
  /\ srv = "none" /\ data_sent = 0 /\ status_sent = 0
  /\ delivered = [f \in Funcs |-> <<>>] /\ rejected = FALSE

(***************************************************************************)
(* Before Run(), which occupies the only thread until it returns.           *)
(***************************************************************************)
SetAuthentication(auth) ==
  /\ phase = "setup"
  /\ auth_' = auth
  /\ UNCHANGED <<client, reg_func_, no_run, phase, ret, conn, readbuf, inbox,
                 outbox, supplier, history>>

(* AlreadyExists changes nothing. *)
RegisterFunc(f) ==
  /\ phase = "setup" /\ f \notin reg_func_
  /\ reg_func_' = reg_func_ \cup {f}
  /\ UNCHANGED <<client, auth_, no_run, phase, ret, conn, readbuf, inbox,
                 outbox, supplier, history>>

(* NotFound changes nothing. *)
UnregisterFunc(f) ==
  /\ phase = "setup" /\ f \in reg_func_
  /\ reg_func_' = reg_func_ \ {f}
  /\ UNCHANGED <<client, auth_, no_run, phase, ret, conn, readbuf, inbox,
                 outbox, supplier, history>>

(* Mutant: the state of the session is returned. *)
ReturnState(value) == phase' = "returned" /\ ret' = state_
Return(value) == phase' = "returned" /\ ret' = value

(* Run() up to c_.run(): it refuses to run without credentials, creating    *)
(* the connection may fail, and the library may throw.                      *)
Run ==
  /\ phase = "setup"
  /\ \/ /\ auth_ = "" /\ Return("Unauthenticated") /\ conn' = conn
     \/ /\ auth_ # "" /\ Return("Unavailable") /\ conn' = conn
     \/ /\ auth_ # "" /\ Return("Internal") /\ conn' = conn
     \/ /\ auth_ # "" /\ phase' = "running" /\ ret' = ret
        /\ conn' = "connecting"
  /\ UNCHANGED <<client, setup, readbuf, inbox, outbox, supplier, history>>

(* c_.run() comes back after stop(), or when the connection is gone and     *)
(* everything read from it has been dispatched.  Mutant: only after stop(). *)
LoopEndsAfterStop == readbuf = <<>> /\ stop_called
LoopEnds ==
  readbuf = <<>> /\ (stop_called \/ (conn = "closed" /\ inbox = <<>>))

RunReturns ==
  /\ phase = "running" /\ LoopEnds
  /\ Return(status_)
  /\ UNCHANGED <<client, setup, conn, readbuf, inbox, outbox, supplier, history>>

(***************************************************************************)
(* OnMessage, by state_.  Only status_, state_, stop() and what is sent.    *)
(***************************************************************************)
(* Mutant: the other frames of the read are dropped. *)
DispatchedFirst(state, msg) ==
  /\ phase = "running" /\ readbuf # <<>>
  /\ state_ = state /\ msg = Head(readbuf)
  /\ readbuf' = <<>>

Dispatched(state, msg) ==
  /\ phase = "running" /\ readbuf # <<>>
  /\ state_ = state /\ msg = Head(readbuf)
  /\ readbuf' = Tail(readbuf)

(* c->send: an error code at any time, or the frame is on its way; on a     *)
(* connection that is gone it goes nowhere.                                 *)
Send(frame, error) ==
  \/ /\ outbox' = IF conn = "open" THEN Append(outbox, frame) ELSE outbox
     /\ UNCHANGED <<status_, stop_called, rejected>>
  \/ /\ status_' = error /\ stop_called' = TRUE /\ rejected' = TRUE
     /\ UNCHANGED outbox

(* Mutant of Refuse: status_ is not set. *)
RefuseSilently(error) ==
  /\ stop_called' = TRUE /\ rejected' = TRUE
  /\ UNCHANGED <<state_, status_, outbox>>

Refuse(error) ==
  /\ status_' = error /\ stop_called' = TRUE /\ rejected' = TRUE
  /\ UNCHANGED <<state_, outbox>>

OnMessageInit ==
  /\ \E msg \in Message :
       /\ Dispatched("INIT", msg)
       /\ \/ /\ msg.kind = "connected"
             /\ state_' = "CONNECTED"
             /\ Send("auth", "Aborted")
          \/ /\ msg.kind # "connected"
             /\ Refuse("Unavailable")
  /\ UNCHANGED <<setup, phase, ret, conn, inbox, supplier, delivered>>

(* Mutant: the answer is not looked at. *)
IsAuthenticatedAlways(msg) == TRUE
IsAuthenticated(msg) == msg.kind = "authenticated"

OnMessageConnected ==
  /\ \E msg \in Message :
       /\ Dispatched("CONNECTED", msg)
       /\ \/ /\ IsAuthenticated(msg)
             /\ state_' = "AUTHENTICATED"
             /\ Send("subscribe", "Aborted")
          \/ /\ ~IsAuthenticated(msg)
             /\ Refuse("Unauthenticated")
  /\ UNCHANGED <<setup, phase, ret, conn, inbox, supplier, delivered>>

(* With --data_client_no_run the client stops here. *)
OnMessageAuthenticated ==
  /\ \E msg \in Message :
       /\ Dispatched("AUTHENTICATED", msg)
       /\ \/ /\ msg.kind = "subscribed"
             /\ state_' = "SUBSCRIBED"
             /\ stop_called' = (stop_called \/ no_run)
             /\ UNCHANGED <<status_, outbox, rejected>>
          \/ /\ msg.kind # "subscribed"
             /\ Refuse("Aborted")
  /\ UNCHANGED <<setup, phase, ret, conn, inbox, supplier, delivered>>

(* Every message is data now, and goes to every function.  Mutant: it goes  *)
(* to one of them.                                                          *)
ReceiversOne == {f \in reg_func_ : f = CHOOSE g \in reg_func_ : TRUE}
Receivers == reg_func_

OnMessageSubscribed ==
  /\ \E msg \in Message :
       /\ Dispatched("SUBSCRIBED", msg)
       /\ delivered' = [f \in Funcs |-> IF f \in Receivers
                                        THEN Append(delivered[f], msg)
                                        ELSE delivered[f]]
  /\ UNCHANGED <<client, setup, phase, ret, conn, inbox, outbox, supplier,
                 rejected>>

(* A function ends the process (a CHECK, an uncaught exception). *)
FuncCrashes ==
  /\ phase = "running" /\ state_ = "SUBSCRIBED" /\ readbuf # <<>>
  /\ reg_func_ # {}
  /\ phase' = "crashed"
  /\ UNCHANGED <<client, setup, ret, conn, readbuf, inbox, outbox, supplier,
                 history>>

OnMessage ==
  OnMessageInit \/ OnMessageConnected \/ OnMessageAuthenticated
    \/ OnMessageSubscribed

(***************************************************************************)
(* The library reads a number of frames at once; the network fails at any   *)
(* time, with a number of frames still readable.                            *)
(***************************************************************************)
Read ==
  /\ phase = "running" /\ ~stop_called /\ readbuf = <<>>
  /\ \E n \in 1 .. Len(inbox) :
       /\ readbuf' = SubSeq(inbox, 1, n)
       /\ inbox' = SubSeq(inbox, n + 1, Len(inbox))
  /\ UNCHANGED <<client, setup, phase, ret, conn, outbox, supplier, history>>

ConnectionLost ==
  /\ conn \in {"connecting", "open"}
  /\ conn' = "closed" /\ outbox' = <<>>
  /\ \E n \in 0 .. Len(inbox) : inbox' = SubSeq(inbox, 1, n)
  /\ UNCHANGED <<client, setup, phase, ret, readbuf, supplier, history>>

(***************************************************************************)
(* The supplier.                                                            *)
(***************************************************************************)
Reply(kind) == inbox' = Append(inbox, Msg(kind))

Hears(frame) ==
  /\ outbox # <<>> /\ Head(outbox) = frame
  /\ outbox' = Tail(outbox)

SupplierAccepts ==
  /\ conn = "connecting"
  /\ conn' = "open" /\ srv' = "await_auth" /\ Reply("connected")
  /\ UNCHANGED <<client, setup, phase, ret, readbuf, outbox, data_sent,
                 status_sent, history>>

SupplierAuthenticates ==
  /\ conn = "open" /\ srv = "await_auth" /\ Hears("auth")
  /\ \/ auth_ = "valid" /\ Reply("authenticated") /\ srv' = "await_subscribe"
     \/ auth_ # "valid" /\ Reply("auth_failed") /\ srv' = "refusing"
  /\ UNCHANGED <<client, setup, phase, ret, conn, readbuf, data_sent,
                 status_sent, history>>

SupplierSubscribes ==
  /\ conn = "open" /\ srv = "await_subscribe" /\ Hears("subscribe")
  /\ \/ Reply("subscribed") /\ srv' = "streaming"
     \/ Reply("sub_failed") /\ srv' = "refusing"
  /\ UNCHANGED <<client, setup, phase, ret, conn, readbuf, data_sent,
                 status_sent, history>>

SupplierSendsData ==
  /\ conn = "open" /\ srv = "streaming" /\ data_sent < MaxData
  /\ data_sent' = data_sent + 1
  /\ inbox' = Append(inbox, [kind |-> "data", n |-> data_sent + 1])
  /\ UNCHANGED <<client, setup, phase, ret, conn, readbuf, outbox, srv,
                 status_sent, history>>

SupplierSendsStatus ==
  /\ conn = "open" /\ status_sent < MaxStatus
  /\ status_sent' = status_sent + 1 /\ Reply("status")
  /\ UNCHANGED <<client, setup, phase, ret, conn, readbuf, outbox, srv,
                 data_sent, history>>

Supplier ==
  SupplierAccepts \/ SupplierAuthenticates \/ SupplierSubscribes
    \/ SupplierSendsData \/ SupplierSendsStatus

Next ==
  \/ \E auth \in {"valid", "invalid"} : SetAuthentication(auth)
  \/ \E f \in Funcs : RegisterFunc(f) \/ UnregisterFunc(f)
  \/ Run \/ RunReturns
  \/ OnMessage \/ FuncCrashes
  \/ Read \/ ConnectionLost
  \/ Supplier

(* The event loop runs as long as it has something to do.  Nothing is       *)
(* assumed of the supplier or of the network.                               *)
Fairness == WF_vars(Read) /\ WF_vars(OnMessage) /\ WF_vars(RunReturns)

Spec == Init /\ [][Next]_vars /\ Fairness

-----------------------------------------------------------------------------
States == {"INIT", "CONNECTED", "AUTHENTICATED", "SUBSCRIBED"}
Codes == {"Ok", "Unauthenticated", "Unavailable", "Internal", "Aborted"}

TypeOK ==
  /\ state_ \in States /\ status_ \in Codes /\ stop_called \in BOOLEAN
  /\ auth_ \in {"", "valid", "invalid"} /\ reg_func_ \subseteq Funcs
  /\ no_run \in BOOLEAN
  /\ phase \in {"setup", "running", "returned", "crashed"}
  /\ ret \in Codes \cup {"None"}
  /\ conn \in {"none", "connecting", "open", "closed"}
  /\ readbuf \in Seq(Message) /\ inbox \in Seq(Message)
  /\ outbox \in Seq({"auth", "subscribe"})
  /\ srv \in {"none", "await_auth", "await_subscribe", "streaming", "refusing"}
  /\ data_sent \in 0 .. MaxData /\ status_sent \in 0 .. MaxStatus
  /\ delivered \in [Funcs -> Seq(Message)] /\ rejected \in BOOLEAN

(* The client is never ahead of the supplier: it believes itself            *)
(* authenticated, or subscribed, only when the supplier accepted valid      *)
(* credentials, or the subscription -- also when it keeps on dispatching    *)
(* the frames of a read after it called stop().                             *)
NeverAheadOfSupplier ==
  /\ state_ = "AUTHENTICATED" =>
       auth_ = "valid" /\ srv \in {"await_subscribe", "streaming", "refusing"}
  /\ state_ = "SUBSCRIBED" => auth_ = "valid" /\ srv = "streaming"

(* The data messages of a sequence of frames are numbered 1, 2, 3, ... in    *)
(* their order, up to at most the number of those that were sent.           *)
Data(seq) == {i \in DOMAIN seq : seq[i].kind = "data"}
Numbered(seq, sent) ==
  \A i \in Data(seq) :
    /\ seq[i].n <= sent
    /\ \A j \in Data(seq) : j < i => seq[j].n < seq[i].n
    /\ seq[i].n > 1 => \E j \in Data(seq) : j < i /\ seq[j].n = seq[i].n - 1

(* Every registered function sees the data of the supplier from the first   *)
(* message on, in order, without gap or repetition, however the frames were *)
(* grouped into reads and whatever status messages came between.            *)
DataInOrder == \A f \in reg_func_ : Numbered(delivered[f], data_sent)

(* Run() returns OK only after a subscription, or when the connection went  *)
(* away before the client had any reason to complain.                       *)
OkIsHonest ==
  phase = "returned" /\ ret = "Ok" =>
    \/ state_ = "SUBSCRIBED"
    \/ conn = "closed" /\ ~stop_called /\ ~rejected

(* Run() does not hang once the client called stop() or the connection is   *)
(* gone: the frames already read are dispatched and it returns.             *)
RunEnds ==
  phase = "running" /\ (stop_called \/ conn = "closed") ~> phase # "running"

(* What the supplier sends on a subscribed session reaches the functions,   *)
(* unless the session ends.                                                 *)
DataArrives ==
  \A n \in 1 .. MaxData :
    data_sent >= n ~>
      \/ phase # "running" \/ stop_called \/ conn = "closed"
      \/ \A f \in reg_func_ :
           \E i \in DOMAIN delivered[f] : delivered[f][i] = [kind |-> "data", n |-> n]

(* data_client_test.cc:21-26 (AuthenticationFailure): with invalid          *)
(* credentials Run() does not return OK.  It does when the connection is    *)
(* lost before the supplier's answer: no close or fail handler is set, and  *)
(* status_ still holds its initial OK.                                      *)
InvalidAuthIsReported ==
  phase = "returned" /\ auth_ = "invalid" => ret # "Ok"
=============================================================================
