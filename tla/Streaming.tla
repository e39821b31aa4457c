------------------------------ MODULE Streaming ------------------------------
(***************************************************************************)
(* alpaca::stream::Handler of alpaca/streaming.{h,cpp}: the websocket on    *)
(* which Alpaca reports the fate of orders and the changes of the account,  *)
(* with the websocket library and the server (external).                    *)
(*                                                                          *)
(* variables   the variables the process's environment has                  *)
(* env         the Environment given to run(); garbage is what its          *)
(*             uninitialised parsed_ held at first                          *)
(* handler     where run() is: "idle" before it and after it returned, then *)
(*             status holds the code it returned                            *)
(* server      the server's side of the connection                          *)
(* to_server, to_client   the messages on their way                         *)
(* sent        history: the updates the server sent on this connection      *)
(* given       history: what each callback was given on this connection     *)
(***************************************************************************)
EXTENDS Integers, SequencesExt, Environment

CONSTANTS MaxUpdates,     \* bound: updates of a connection
          MaxNoise,       \* bound: other messages of the server
          MaxRuns         \* bound: calls of run()

ASSUME StreamAssumption == MaxUpdates \in Nat /\ MaxNoise \in Nat /\ MaxRuns \in Nat

VARIABLES variables, env, garbage, handler, status, server, to_server,
          to_client, sent, given, noise, runs

process == <<variables, env, garbage>>
bounds == <<noise, runs>>
vars == <<process, handler, status, server, to_server, to_client, sent, given, bounds>>

UpdateStreams == {"trade_updates", "account_updates"}
StreamNames == UpdateStreams \cup {"authorization", "listening", "other", ""}

(* What a text is to parseReply: JSON of an object, whose "stream" may be   *)
(* missing, and whose "data" is "{}" when it is missing or not an object.   *)
Text(stream, data) == [json |-> "object", stream |-> stream, data |-> data]
Noise == {[json |-> "error", stream |-> "none", data |-> 0],
          [json |-> "array", stream |-> "none", data |-> 0],
          Text("none", 0), Text("", 0), Text("other", 0)}

(* The first characters of the streams' names. *)
FirstCharacter ==
  [name \in StreamNames |->
     CASE name = "authorization" -> "a" [] name = "listening" -> "l"
       [] name = "trade_updates" -> "t" [] name = "account_updates" -> "a"
       [] name = "other" -> "o"         [] name = "" -> "NUL"]

(* Mutant of SameStream: any stream is taken for any other. *)
AnyStream(stream, name) == TRUE

(* *stream == *kStream.c_str() compares a character with a character. *)
SameStream(stream, name) == FirstCharacter[stream] = FirstCharacter[name]

(* parseReply, and the if-else chain of onMessage: what becomes of a text.  *)
Route(text) ==
  IF text.json # "object" \/ text.stream = "none"   THEN "logged"
  ELSE IF SameStream(text.stream, "authorization")   THEN "listen"
  ELSE IF SameStream(text.stream, "listening")       THEN "confirmed"
  ELSE IF SameStream(text.stream, "trade_updates")   THEN "trade_updates"
  ELSE IF SameStream(text.stream, "account_updates") THEN "account_updates"
  ELSE "logged"

-----------------------------------------------------------------------------
Nothing == [stream \in UpdateStreams |-> <<>>]

Init ==
  /\ variables \in SUBSET Variables
  /\ env \in NewEnvironments
  /\ garbage = env.parsed_
  /\ handler = "idle" /\ status = 0
  /\ server = "none" /\ to_server = <<>> /\ to_client = <<>>
  /\ sent = Nothing /\ given = Nothing
  /\ noise = 0 /\ runs = 0

(* The user's call of parse(). *)
Parse ==
  /\ handler = "idle"
  /\ env' = Parsed(env, variables)
  /\ UNCHANGED <<variables, garbage, handler, status, server, to_server, to_client,
                 sent, given, bounds>>

(* run() up to hub.connect(). *)
Run ==
  /\ handler = "idle" /\ runs < MaxRuns
  /\ runs' = runs + 1
  /\ env' = Ready(env, variables)
  /\ IF ReadyOk(env, variables)
     THEN handler' = "connecting" /\ UNCHANGED status
     ELSE status' = 1 /\ UNCHANGED handler
  /\ sent' = Nothing /\ given' = Nothing
  /\ UNCHANGED <<variables, garbage, server, to_server, to_client, noise>>

(* onError or onDisconnection; then hub.run() has nothing left to wait for  *)
(* and run() returns.  What was on its way is lost.                         *)
Ends ==
  /\ handler' = "idle" /\ status' = 1
  /\ server' = "none" /\ to_server' = <<>> /\ to_client' = <<>>
  /\ UNCHANGED <<process, sent, given, bounds>>

ConnectFails == handler = "connecting" /\ Ends

Disconnect == handler = "open" /\ Ends

(* onConnection: the authentication message.  There is no server without an *)
(* address.                                                                 *)
Connected ==
  /\ handler = "connecting" /\ env.api_base_url_ # ""
  /\ handler' = "open"
  /\ server' = "new"
  /\ to_server' = <<[action |-> "authenticate",
                     keys |-> {env.api_key_id_, env.api_secret_key_}]>>
  /\ UNCHANGED <<process, status, to_client, sent, given, bounds>>

(* onMessage *)
OnMessage ==
  /\ handler = "open" /\ to_client # <<>>
  /\ to_client' = Tail(to_client)
  /\ LET text == Head(to_client)
     IN  \/ /\ Route(text) \in {"logged", "confirmed"}
            /\ UNCHANGED <<to_server, given>>
         \/ /\ Route(text) = "listen"
            /\ to_server' = Append(to_server, [action |-> "listen", keys |-> {}])
            /\ UNCHANGED given
         \/ /\ Route(text) \in UpdateStreams
            /\ given' = [given EXCEPT ![Route(text)] = Append(@, text.data)]
            /\ UNCHANGED to_server
  /\ UNCHANGED <<process, handler, status, server, sent, bounds>>

-----------------------------------------------------------------------------
(* The server answers an authentication, and a request to listen, which a   *)
(* client that it refused may not make.                                     *)
ServerAnswers ==
  /\ to_server # <<>>
  /\ to_server' = Tail(to_server)
  /\ \/ /\ Head(to_server).action = "authenticate"
        /\ \/ server' = "refused"
           \/ Head(to_server).keys = {"set"} /\ server' = "authorized"
        /\ to_client' = Append(to_client, Text("authorization", 0))
     \/ /\ Head(to_server).action = "listen"
        /\ server' = IF server = "authorized" THEN "listening" ELSE server
        /\ to_client' = Append(to_client, Text("listening", 0))
  /\ UNCHANGED <<process, handler, status, sent, given, bounds>>

(* An order is filled, or the account changes. *)
ServerUpdates(stream) ==
  /\ server = "listening"
  /\ Len(sent[stream]) < MaxUpdates
  /\ LET n == Len(sent[stream]) + 1
     IN  /\ sent' = [sent EXCEPT ![stream] = Append(@, n)]
         /\ to_client' = Append(to_client, Text(stream, n))
  /\ UNCHANGED <<process, handler, status, server, to_server, given, bounds>>

ServerNoise(text) ==
  /\ server # "none" /\ noise < MaxNoise
  /\ noise' = noise + 1
  /\ to_client' = Append(to_client, text)
  /\ UNCHANGED <<process, handler, status, server, to_server, sent, given, runs>>

Next ==
  \/ Parse \/ Run \/ ConnectFails \/ Connected \/ Disconnect \/ OnMessage
  \/ ServerAnswers
  \/ \E stream \in UpdateStreams : ServerUpdates(stream)
  \/ \E text \in Noise : ServerNoise(text)

(* The event loop handles what arrives. *)
Spec == Init /\ [][Next]_vars /\ WF_vars(OnMessage)

-----------------------------------------------------------------------------
Message == [json : {"error", "array", "object"}, stream : StreamNames \cup {"none"},
            data : 0 .. MaxUpdates]

TypeOK ==
  /\ variables \subseteq Variables
  /\ env \in EnvironmentType
  /\ garbage \in BOOLEAN
  /\ handler \in {"idle", "connecting", "open"}
  /\ status \in {0, 1}
  /\ server \in {"none", "new", "refused", "authorized", "listening"}
  /\ to_server \in Seq([action : {"authenticate", "listen"}, keys : SUBSET Value])
  /\ to_client \in Seq(Message)
  /\ sent \in [UpdateStreams -> Seq(1 .. MaxUpdates)]
  /\ given \in [UpdateStreams -> Seq(0 .. MaxUpdates)]
  /\ noise \in 0 .. MaxNoise
  /\ runs \in 0 .. MaxRuns

(* The callback of a stream has been given the first updates that the       *)
(* server sent; those that are under way are exactly the rest of them, in   *)
(* their order.                                                             *)
GivenInOrder(stream) == IsPrefix(given[stream], sent[stream])

Pending(stream) == {i \in DOMAIN to_client : to_client[i].stream = stream}
PendingInOrder(stream) ==
  /\ {to_client[i].data : i \in Pending(stream)}
       = {sent[stream][n] : n \in Len(given[stream]) + 1 .. Len(sent[stream])}
  /\ \A i, j \in Pending(stream) : i < j => to_client[i].data < to_client[j].data

(* Every trade update of a connection is given to on_trade_update_, once    *)
(* and in the order in which the server sent them, and nothing else is.     *)
TradesInOrder ==
  /\ GivenInOrder("trade_updates")
  /\ handler = "open" => PendingInOrder("trade_updates")

(* streaming.cpp:34-36, streaming.h:58: the same of account updates and     *)
(* on_account_update_, which the user of Handler passes to be given them.   *)
AccountsInOrder ==
  handler = "open" =>
    GivenInOrder("account_updates") /\ PendingInOrder("account_updates")

(* config.h:54-56: the keys that an authentication message carries have     *)
(* been read by parse(), unless the uninitialised parsed_ said so falsely.  *)
AuthenticatesWithKeys ==
  ~garbage =>
    \A i \in DOMAIN to_server :
      to_server[i].action = "authenticate" => to_server[i].keys = {"set"}

(* A trade update the server has sent reaches the callback unless the       *)
(* connection is lost.                                                      *)
TradesArrive ==
  \A n \in 1 .. MaxUpdates :
    Len(sent["trade_updates"]) >= n
      ~> (Len(given["trade_updates"]) >= n \/ handler # "open")
=============================================================================
