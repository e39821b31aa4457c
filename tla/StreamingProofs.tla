--------------------------- MODULE StreamingProofs ---------------------------
(***************************************************************************)
(* What the handler of Streaming sends carries keys that were read, and the *)
(* trade updates it receives are given to their callback in order, for any  *)
(* environment of the process and any number of runs and messages.          *)
(***************************************************************************)
EXTENDS Streaming, TLAPS, SequenceTheorems

Request == [action : {"authenticate", "listen"}, keys : SUBSET Value]

HasKeys(e) == e.api_key_id_ = "set" /\ e.api_secret_key_ = "set"

(* An environment that says it has been parsed has its keys, unless it was  *)
(* born saying so, and a run goes on only with one that says it.            *)
IInv ==
  /\ to_server \in Seq(Request)
  /\ env \in EnvironmentType
  /\ garbage \in BOOLEAN
  /\ ~garbage /\ env.parsed_ => HasKeys(env)
  /\ handler # "idle" => env.parsed_
  /\ AuthenticatesWithKeys

-----------------------------------------------------------------------------
(* parse() has read both keys, or does not say that it has parsed. *)
LEMMA ParsedKeys ==
  ASSUME NEW e \in EnvironmentType, NEW v
  PROVE  /\ Parsed(e, v) \in EnvironmentType
         /\ Parsed(e, v).parsed_ /\ ~e.parsed_ => HasKeys(Parsed(e, v))
         /\ HasKeys(e) => HasKeys(Parsed(e, v))
         /\ ParseOk(v) => Parsed(e, v).parsed_
         /\ e.parsed_ => Parsed(e, v).parsed_
<1>1. CASE "APCA_API_KEY_ID" \notin v
  BY <1>1 DEF Parsed, ParseOk
<1>2. CASE "APCA_API_KEY_ID" \in v /\ "APCA_API_SECRET_KEY" \notin v
  BY <1>2 DEF Parsed, ParseOk, EnvironmentType, HasKeys, Value
<1>3. CASE "APCA_API_KEY_ID" \in v /\ "APCA_API_SECRET_KEY" \in v
  BY <1>3 DEF Parsed, ParseOk, EnvironmentType, HasKeys, Value, OrDefault
<1> QED BY <1>1, <1>2, <1>3

(* One more request, of a client that has its keys or of one that only      *)
(* wants to listen.                                                         *)
LEMMA SendPreserves ==
  ASSUME IInv, NEW r \in Request, to_server' = Append(to_server, r),
         ~garbage /\ r.action = "authenticate" => r.keys = {"set"},
         UNCHANGED <<env, garbage, handler>>
  PROVE  IInv'
<1>1. /\ to_server' \in Seq(Request) /\ Len(to_server') = Len(to_server) + 1
      /\ Len(to_server) \in Nat
      /\ \A i \in 1 .. Len(to_server) : to_server'[i] = to_server[i]
      /\ to_server'[Len(to_server) + 1] = r
  BY DEF IInv
<1>2. \A i \in 1 .. Len(to_server) + 1 : i \in 1 .. Len(to_server) \/ i = Len(to_server) + 1
  BY <1>1
<1>3. AuthenticatesWithKeys'
  BY <1>1, <1>2 DEF IInv, AuthenticatesWithKeys
<1> QED BY <1>1, <1>3 DEF IInv

(* Before the first run nothing is on its way. *)
LEMMA InitIInv == Init => IInv
<1> SUFFICES ASSUME Init PROVE IInv
  OBVIOUS
<1>1. env \in EnvironmentType /\ garbage \in BOOLEAN /\ garbage = env.parsed_
  <2>1. PICK g \in BOOLEAN :
          env = [parsed_ |-> g, api_key_id_ |-> "", api_secret_key_ |-> "",
                 api_base_url_ |-> "", api_data_url_ |-> ""]
    BY DEF Init, NewEnvironments
  <2> QED BY <2>1 DEF Init, EnvironmentType, Value
<1> QED BY <1>1 DEF Init, IInv, AuthenticatesWithKeys

(* Every step keeps the keys of what is sent. *)
LEMMA NextIInv == IInv /\ [Next]_vars => IInv'
<1> SUFFICES ASSUME IInv, [Next]_vars PROVE IInv'
  OBVIOUS
<1> USE DEF process, bounds
<1>1. CASE UNCHANGED vars
  BY <1>1 DEF vars, IInv, AuthenticatesWithKeys
<1>2. CASE Parse
  <2>1. /\ env' = Parsed(env, variables) /\ handler = "idle"
        /\ UNCHANGED <<garbage, handler, to_server>>
    BY <1>2 DEF Parse
  <2>2. env' \in EnvironmentType /\ (~garbage /\ env'.parsed_ => HasKeys(env'))
    BY <2>1, ParsedKeys DEF IInv
  <2> QED BY <2>1, <2>2 DEF IInv, AuthenticatesWithKeys
<1>3. CASE Run
  <2>1. /\ env' = Ready(env, variables) /\ handler = "idle"
        /\ UNCHANGED <<garbage, to_server>>
        /\ handler' # "idle" => ReadyOk(env, variables)
    BY <1>3 DEF Run
  <2>2. /\ env' \in EnvironmentType
        /\ ~garbage /\ env'.parsed_ => HasKeys(env')
        /\ handler' # "idle" => env'.parsed_
    BY <2>1, ParsedKeys DEF IInv, Ready, ReadyOk
  <2> QED BY <2>1, <2>2 DEF IInv, AuthenticatesWithKeys
<1>4. CASE ConnectFails \/ Disconnect
  <2>1. /\ to_server' = <<>> /\ handler' = "idle" /\ UNCHANGED <<env, garbage>>
        /\ <<>> \in Seq(Request)
    BY <1>4 DEF ConnectFails, Disconnect, Ends
  <2> QED BY <2>1 DEF IInv, AuthenticatesWithKeys
<1>5. CASE Connected
  <2> DEFINE r == [action |-> "authenticate", keys |-> {env.api_key_id_, env.api_secret_key_}]
  <2>1. /\ to_server' = <<r>> /\ UNCHANGED <<env, garbage>>
        /\ handler # "idle" /\ handler' # "idle"
    BY <1>5 DEF Connected
  <2>2. r \in Request
    BY DEF IInv, EnvironmentType, Request
  <2>3. ~garbage => r.keys = {"set"}
    BY <2>1 DEF IInv, HasKeys
  <2> HIDE DEF r
  <2>4. <<r>> \in Seq(Request) /\ \A i \in DOMAIN <<r>> : <<r>>[i] = r
    BY <2>2
  <2> QED BY <2>1, <2>2, <2>3, <2>4 DEF IInv, AuthenticatesWithKeys
<1>6. CASE OnMessage
  <2>1. UNCHANGED <<env, garbage, handler>>
    BY <1>6 DEF OnMessage
  <2>2. CASE UNCHANGED to_server
    BY <2>1, <2>2 DEF IInv, AuthenticatesWithKeys
  <2>3. CASE to_server' = Append(to_server, [action |-> "listen", keys |-> {}])
    <3>1. [action |-> "listen", keys |-> {}] \in Request
      BY DEF Request
    <3> QED BY <2>1, <2>3, <3>1, SendPreserves
  <2> QED BY <1>6, <2>2, <2>3 DEF OnMessage
<1>7. CASE ServerAnswers
  <2>1. /\ to_server # <<>> /\ to_server' = Tail(to_server)
        /\ UNCHANGED <<env, garbage, handler>>
    BY <1>7 DEF ServerAnswers
  <2>2. /\ to_server' \in Seq(Request) /\ Len(to_server') = Len(to_server) - 1
        /\ Len(to_server) \in Nat
        /\ \A i \in 1 .. Len(to_server') : to_server'[i] = to_server[i + 1]
    BY <2>1 DEF IInv
  <2>3. AuthenticatesWithKeys'
    BY <2>1, <2>2 DEF IInv, AuthenticatesWithKeys
  <2> QED BY <2>1, <2>2, <2>3 DEF IInv
<1>8. CASE \/ \E stream \in UpdateStreams : ServerUpdates(stream)
           \/ \E text \in Noise : ServerNoise(text)
  <2>1. UNCHANGED <<env, garbage, handler, to_server>>
    BY <1>8 DEF ServerUpdates, ServerNoise
  <2> QED BY <2>1 DEF IInv, AuthenticatesWithKeys
<1> QED BY <1>1, <1>2, <1>3, <1>4, <1>5, <1>6, <1>7, <1>8 DEF Next

(* config.h:54-56: an authentication message carries keys that parse() has  *)
(* read, unless the uninitialised parsed_ said falsely that it had.         *)
THEOREM KeysAreRead == Spec => []AuthenticatesWithKeys
<1>1. IInv => AuthenticatesWithKeys
  BY DEF IInv
<1> QED BY <1>1, InitIInv, NextIInv, PTL DEF Spec

-----------------------------------------------------------------------------
(* The trade updates of a sequence of texts, and that they are those from   *)
(* after the first g up to the t-th, in their order.                        *)
Trade == "trade_updates"
Trades(texts) == {i \in DOMAIN texts : texts[i].stream = Trade}
Rest(texts, g, t) ==
  /\ \A i \in Trades(texts) : texts[i].data \in g + 1 .. t
  /\ \A n \in g + 1 .. t : \E i \in Trades(texts) : texts[i].data = n
  /\ \A i, j \in Trades(texts) : i < j => texts[i].data < texts[j].data

(* What makes TradesInOrder inductive: what the callback has been given and *)
(* what is under way add up to what was sent, and without a connection      *)
(* nothing is under way.                                                    *)
Received == [json : {"error", "array", "object"}, stream : StreamNames \cup {"none"},
             data : Nat]

OrderInv ==
  /\ to_client \in Seq(Received)
  /\ \A i \in Trades(to_client) : to_client[i].json = "object"
  /\ sent \in [UpdateStreams -> Seq(Nat)] /\ given \in [UpdateStreams -> Seq(Nat)]
  /\ \A n \in 1 .. Len(sent[Trade]) : sent[Trade][n] = n
  /\ \A n \in 1 .. Len(given[Trade]) : given[Trade][n] = n
  /\ Len(given[Trade]) <= Len(sent[Trade])
  /\ handler = "open" => Rest(to_client, Len(given[Trade]), Len(sent[Trade]))
  /\ handler # "open" => server = "none" /\ to_server = <<>> /\ to_client = <<>>
  /\ handler = "connecting" => sent = Nothing /\ given = Nothing

(* A text is given to on_trade_update_ exactly when it is of that stream:   *)
(* no other stream has a name that starts with the same character.          *)
LEMMA RouteTrade ==
  ASSUME NEW text \in Received, text.stream = Trade => text.json = "object"
  PROVE  Route(text) = Trade <=> text.stream = Trade
<1>1. /\ FirstCharacter["authorization"] = "a" /\ FirstCharacter["listening"] = "l"
      /\ FirstCharacter["trade_updates"] = "t" /\ FirstCharacter["account_updates"] = "a"
      /\ FirstCharacter["other"] = "o" /\ FirstCharacter[""] = "NUL"
  BY DEF FirstCharacter, StreamNames, UpdateStreams
<1>2. CASE text.json # "object" \/ text.stream = "none"
  BY <1>2 DEF Route, Trade
<1>3. CASE text.json = "object" /\ text.stream # "none"
  <2>1. text.stream \in {"authorization", "listening", "trade_updates", "account_updates",
                         "other", ""}
    BY <1>3 DEF Received, StreamNames, UpdateStreams
  <2>2. Route(text) =
          IF FirstCharacter[text.stream] = "a" THEN "listen"
          ELSE IF FirstCharacter[text.stream] = "l" THEN "confirmed"
          ELSE IF FirstCharacter[text.stream] = "t" THEN "trade_updates"
          ELSE "logged"
    BY <1>1, <1>3 DEF Route, SameStream
  <2> QED BY <1>1, <2>1, <2>2 DEF Trade
<1> QED BY <1>2, <1>3

(* A text that is no trade update leaves the front. *)
LEMMA RestTail ==
  ASSUME NEW texts \in Seq(Received), texts # <<>>, NEW g \in Nat, NEW t \in Nat,
         Rest(texts, g, t), texts[1].stream # Trade
  PROVE  Rest(Tail(texts), g, t)
<1> DEFINE rest == Tail(texts)
<1>1. /\ DOMAIN texts = 1 .. Len(texts) /\ DOMAIN rest = 1 .. Len(rest)
      /\ Len(texts) \in Nat /\ Len(rest) = Len(texts) - 1
      /\ \A i \in 1 .. Len(rest) : rest[i] = texts[i + 1]
  OBVIOUS
<1> HIDE DEF rest
<1>2. \A i \in Trades(rest) : i + 1 \in Trades(texts) /\ rest[i] = texts[i + 1] /\ i \in Nat
  BY <1>1 DEF Trades
<1>3. ASSUME NEW j \in Trades(texts)
      PROVE  j - 1 \in Trades(rest) /\ rest[j - 1] = texts[j]
  <2>1. j \in 1 .. Len(texts) /\ j # 1 /\ texts[j].stream = Trade
    BY <1>1 DEF Trades
  <2>2. j - 1 \in 1 .. Len(rest) /\ (j - 1) + 1 = j
    BY <1>1, <2>1
  <2> QED BY <1>1, <2>1, <2>2 DEF Trades
<1>4. \A i \in Trades(rest) : rest[i].data \in g + 1 .. t
  BY <1>2 DEF Rest
<1>5. \A n \in g + 1 .. t : \E i \in Trades(rest) : rest[i].data = n
  BY <1>3 DEF Rest
<1>6. \A i, j \in Trades(rest) : i < j => rest[i].data < rest[j].data
  <2> SUFFICES ASSUME NEW i \in Trades(rest), NEW j \in Trades(rest), i < j
               PROVE  rest[i].data < rest[j].data
    OBVIOUS
  <2>1. i + 1 < j + 1
    BY <1>2
  <2> QED BY <1>2, <2>1 DEF Rest
<1> QED BY <1>4, <1>5, <1>6 DEF Rest, rest

(* A trade update at the front is the next one. *)
LEMMA RestTake ==
  ASSUME NEW texts \in Seq(Received), texts # <<>>, NEW g \in Nat, NEW t \in Nat,
         Rest(texts, g, t), texts[1].stream = Trade
  PROVE  texts[1].data = g + 1 /\ g + 1 <= t /\ Rest(Tail(texts), g + 1, t)
<1> DEFINE rest == Tail(texts)
<1>1. /\ DOMAIN texts = 1 .. Len(texts) /\ DOMAIN rest = 1 .. Len(rest)
      /\ Len(texts) \in Nat \ {0} /\ Len(rest) = Len(texts) - 1
      /\ \A i \in 1 .. Len(rest) : rest[i] = texts[i + 1]
  OBVIOUS
<1> HIDE DEF rest
<1>2. 1 \in Trades(texts) /\ texts[1].data \in g + 1 .. t
  BY <1>1 DEF Trades, Rest
<1>3. texts[1].data = g + 1
  <2>1. PICK i \in Trades(texts) : texts[i].data = g + 1
    BY <1>2 DEF Rest
  <2>2. i \in Nat \ {0}
    BY <1>1 DEF Trades
  <2>3. 1 < i => texts[1].data < texts[i].data
    BY <1>2 DEF Rest
  <2> QED BY <1>2, <2>1, <2>2, <2>3
<1>4. \A i \in Trades(rest) : i + 1 \in Trades(texts) /\ rest[i] = texts[i + 1] /\ i \in Nat \ {0}
  BY <1>1 DEF Trades
<1>5. ASSUME NEW j \in Trades(texts), j # 1
      PROVE  j - 1 \in Trades(rest) /\ rest[j - 1] = texts[j]
  <2>1. j \in 1 .. Len(texts) /\ texts[j].stream = Trade
    BY <1>1 DEF Trades
  <2>2. j - 1 \in 1 .. Len(rest) /\ (j - 1) + 1 = j
    BY <1>1, <1>5, <2>1
  <2> QED BY <1>1, <2>1, <2>2 DEF Trades
<1>6. \A i \in Trades(rest) : rest[i].data \in (g + 1) + 1 .. t
  <2> SUFFICES ASSUME NEW i \in Trades(rest)
               PROVE  rest[i].data \in (g + 1) + 1 .. t
    OBVIOUS
  <2>1. /\ i + 1 \in Trades(texts) /\ rest[i] = texts[i + 1] /\ 1 < i + 1
    BY <1>4
  <2>2. texts[i + 1].data \in g + 1 .. t
    BY <2>1 DEF Rest
  <2>3. texts[1].data < texts[i + 1].data
    BY <1>2, <2>1 DEF Rest
  <2> QED BY <1>3, <2>1, <2>2, <2>3
<1>7. \A n \in (g + 1) + 1 .. t : \E i \in Trades(rest) : rest[i].data = n
  <2> SUFFICES ASSUME NEW n \in (g + 1) + 1 .. t
               PROVE  \E i \in Trades(rest) : rest[i].data = n
    OBVIOUS
  <2>1. n \in g + 1 .. t /\ n # g + 1
    OBVIOUS
  <2>2. PICK j \in Trades(texts) : texts[j].data = n
    BY <2>1 DEF Rest
  <2> QED BY <1>3, <1>5, <2>1, <2>2
<1>8. \A i, j \in Trades(rest) : i < j => rest[i].data < rest[j].data
  <2> SUFFICES ASSUME NEW i \in Trades(rest), NEW j \in Trades(rest), i < j
               PROVE  rest[i].data < rest[j].data
    OBVIOUS
  <2>1. i + 1 < j + 1
    BY <1>4
  <2> QED BY <1>4, <2>1 DEF Rest
<1>9. Rest(rest, g + 1, t)
  BY <1>6, <1>7, <1>8 DEF Rest
<1> QED BY <1>2, <1>3, <1>9 DEF rest

(* One more text, which is no trade update or the next one. *)
LEMMA RestAppend ==
  ASSUME NEW texts \in Seq(Received), NEW text \in Received, NEW g \in Nat,
         NEW t \in Nat, NEW more \in Nat, g <= t, Rest(texts, g, t),
         \/ text.stream # Trade /\ more = t
         \/ text.stream = Trade /\ text.data = t + 1 /\ more = t + 1
  PROVE  Rest(Append(texts, text), g, more)
<1> DEFINE new == Append(texts, text)
<1>1. /\ DOMAIN texts = 1 .. Len(texts) /\ DOMAIN new = 1 .. Len(texts) + 1
      /\ Len(texts) \in Nat
      /\ \A i \in 1 .. Len(texts) : new[i] = texts[i]
      /\ new[Len(texts) + 1] = text
  OBVIOUS
<1> HIDE DEF new
<1>2. \A i \in Trades(texts) : /\ i \in Trades(new) /\ new[i] = texts[i]
                               /\ i \in Nat /\ i < Len(texts) + 1
                               /\ texts[i].data \in g + 1 .. t
  BY <1>1 DEF Trades, Rest
<1>3. \A i \in Trades(new) : \/ i \in Trades(texts)
                             \/ i = Len(texts) + 1 /\ new[i] = text /\ text.stream = Trade
  BY <1>1 DEF Trades
<1>4. text.stream = Trade => Len(texts) + 1 \in Trades(new)
  BY <1>1 DEF Trades
<1>5. \A i \in Trades(new) : new[i].data \in g + 1 .. more
  BY <1>2, <1>3
<1>6. \A n \in g + 1 .. more : \E i \in Trades(new) : new[i].data = n
  <2> SUFFICES ASSUME NEW n \in g + 1 .. more
               PROVE  \E i \in Trades(new) : new[i].data = n
    OBVIOUS
  <2>1. CASE n \in g + 1 .. t
    BY <1>2, <2>1 DEF Rest
  <2>2. CASE n = t + 1 /\ text.stream = Trade /\ text.data = t + 1
    BY <1>1, <1>4, <2>2
  <2> QED BY <2>1, <2>2
<1>7. \A i, j \in Trades(new) : i < j => new[i].data < new[j].data
  <2> SUFFICES ASSUME NEW i \in Trades(new), NEW j \in Trades(new), i < j
               PROVE  new[i].data < new[j].data
    OBVIOUS
  <2>1. CASE j \in Trades(texts)
    <3>1. i \in Trades(texts)
      BY <1>2, <1>3, <2>1
    <3> QED BY <1>2, <2>1, <3>1 DEF Rest
  <2>2. CASE j = Len(texts) + 1 /\ new[j] = text /\ text.stream = Trade
    <3>1. i # Len(texts) + 1
      <4>1. i \in Nat
        BY <1>1 DEF Trades
      <4> QED BY <1>1, <2>2, <4>1
    <3>2. i \in Trades(texts)
      BY <1>3, <3>1
    <3>3. new[i].data <= t /\ new[i].data \in Nat /\ new[j].data = t + 1
      <4>1. new[i].data \in g + 1 .. t
        BY <1>2, <3>2
      <4>2. text.data = t + 1
        BY <2>2
      <4> QED BY <2>2, <4>1, <4>2
    <3> QED BY <3>3
  <2> QED BY <1>3, <2>1, <2>2
<1> QED BY <1>5, <1>6, <1>7 DEF Rest, new

(* One more text on its way to the client. *)
LEMMA TextOrder ==
  ASSUME OrderInv, handler = "open", NEW text \in Received,
         to_client' = Append(to_client, text),
         text.stream = Trade => text.json = "object",
         UNCHANGED <<handler, given>>,
         sent' \in [UpdateStreams -> Seq(Nat)],
         \/ text.stream # Trade /\ sent'[Trade] = sent[Trade]
         \/ /\ text.stream = Trade /\ text.data = Len(sent[Trade]) + 1
            /\ sent'[Trade] = Append(sent[Trade], text.data)
  PROVE  OrderInv'
<1>1. Trade \in UpdateStreams
  BY DEF Trade, UpdateStreams
<1>2. /\ sent[Trade] \in Seq(Nat) /\ given[Trade] \in Seq(Nat)
      /\ Len(sent[Trade]) \in Nat /\ Len(given[Trade]) \in Nat
      /\ to_client \in Seq(Received)
  BY <1>1 DEF OrderInv
<1>3. /\ to_client' \in Seq(Received)
      /\ \A i \in Trades(to_client') : to_client'[i].json = "object"
  <2>1. /\ DOMAIN to_client = 1 .. Len(to_client)
        /\ DOMAIN Append(to_client, text) = 1 .. Len(to_client) + 1
        /\ Len(to_client) \in Nat
        /\ Append(to_client, text) \in Seq(Received)
        /\ \A i \in 1 .. Len(to_client) : Append(to_client, text)[i] = to_client[i]
        /\ Append(to_client, text)[Len(to_client) + 1] = text
    BY <1>2
  <2>2. \A i \in Trades(Append(to_client, text)) :
          i \in Trades(to_client) \/ i = Len(to_client) + 1
    BY <2>1 DEF Trades
  <2>3. \A i \in Trades(to_client) : Append(to_client, text)[i] = to_client[i]
    BY <2>1 DEF Trades
  <2>4. Len(to_client) + 1 \in Trades(Append(to_client, text)) => text.json = "object"
    BY <2>1 DEF Trades
  <2> QED BY <2>1, <2>2, <2>3, <2>4 DEF OrderInv
<1>4. /\ Len(sent'[Trade]) \in Nat /\ Len(given[Trade]) <= Len(sent'[Trade])
      /\ \A n \in 1 .. Len(sent'[Trade]) : sent'[Trade][n] = n
      /\ \/ text.stream # Trade /\ Len(sent'[Trade]) = Len(sent[Trade])
         \/ /\ text.stream = Trade /\ text.data = Len(sent[Trade]) + 1
            /\ Len(sent'[Trade]) = Len(sent[Trade]) + 1
  <2>1. CASE text.stream # Trade /\ sent'[Trade] = sent[Trade]
    BY <1>2, <2>1 DEF OrderInv
  <2>2. CASE /\ text.stream = Trade /\ text.data = Len(sent[Trade]) + 1
             /\ sent'[Trade] = Append(sent[Trade], text.data)
    <3>1. /\ Len(sent'[Trade]) = Len(sent[Trade]) + 1
          /\ \A n \in 1 .. Len(sent[Trade]) : sent'[Trade][n] = sent[Trade][n]
          /\ sent'[Trade][Len(sent[Trade]) + 1] = Len(sent[Trade]) + 1
      BY <1>2, <2>2
    <3> QED BY <1>2, <2>2, <3>1 DEF OrderInv
  <2> QED BY <2>1, <2>2
<1>5. Rest(Append(to_client, text), Len(given[Trade]), Len(sent'[Trade]))
  <2>1. Rest(to_client, Len(given[Trade]), Len(sent[Trade]))
    BY DEF OrderInv
  <2>2. Len(given[Trade]) <= Len(sent[Trade])
    BY DEF OrderInv
  <2> QED BY <1>2, <1>4, <2>1, <2>2, RestAppend
<1> QED BY <1>3, <1>4, <1>5 DEF OrderInv

(* At first nothing was sent and nothing given. *)
LEMMA InitOrder == Init => OrderInv
<1> SUFFICES ASSUME Init PROVE OrderInv
  OBVIOUS
<1>1. Trade \in UpdateStreams
  BY DEF Trade, UpdateStreams
<1>2. /\ to_client = <<>> /\ to_server = <<>> /\ server = "none" /\ handler = "idle"
      /\ sent = Nothing /\ given = Nothing
  BY DEF Init
<1>3. /\ Nothing \in [UpdateStreams -> Seq(Nat)] /\ Nothing[Trade] = <<>>
      /\ Trades(<<>>) = {}
  BY <1>1 DEF Nothing, Trades
<1> QED BY <1>2, <1>3 DEF OrderInv

(* Every step keeps the order. *)
LEMMA NextOrder == OrderInv /\ [Next]_vars => OrderInv'
<1> SUFFICES ASSUME OrderInv, [Next]_vars PROVE OrderInv'
  OBVIOUS
<1> USE DEF process, bounds
<1>1. /\ Trade \in UpdateStreams
      /\ sent[Trade] \in Seq(Nat) /\ given[Trade] \in Seq(Nat)
      /\ Len(sent[Trade]) \in Nat /\ Len(given[Trade]) \in Nat
      /\ to_client \in Seq(Received)
  BY DEF OrderInv, Trade, UpdateStreams
<1>2. /\ Nothing \in [UpdateStreams -> Seq(Nat)] /\ Nothing[Trade] = <<>>
      /\ Trades(<<>>) = {} /\ <<>> \in Seq(Received)
  BY <1>1 DEF Nothing, Trades
<1>3. CASE Parse \/ UNCHANGED vars
  <2>1. UNCHANGED <<handler, server, to_server, to_client, sent, given>>
    BY <1>3 DEF Parse, vars
  <2> QED BY <2>1 DEF OrderInv
<1>4. CASE Run
  <2>1. /\ handler = "idle" /\ handler' \in {"idle", "connecting"}
        /\ UNCHANGED <<server, to_server, to_client>> /\ sent' = Nothing /\ given' = Nothing
    BY <1>4 DEF Run
  <2> QED BY <1>2, <2>1 DEF OrderInv
<1>5. CASE ConnectFails \/ Disconnect
  <2>1. /\ handler' = "idle" /\ server' = "none" /\ to_server' = <<>> /\ to_client' = <<>>
        /\ UNCHANGED <<sent, given>>
    BY <1>5 DEF ConnectFails, Disconnect, Ends
  <2> QED BY <1>2, <2>1 DEF OrderInv
<1>6. CASE Connected
  <2>1. /\ handler = "connecting" /\ handler' = "open" /\ UNCHANGED <<to_client, sent, given>>
        /\ to_client = <<>> /\ sent = Nothing /\ given = Nothing
    BY <1>6 DEF Connected, OrderInv
  <2>2. Rest(<<>>, 0, 0)
    BY <1>2 DEF Rest
  <2>3. Len(Nothing[Trade]) = 0
    BY <1>2
  <2> QED BY <1>2, <2>1, <2>2, <2>3 DEF OrderInv
<1>7. CASE OnMessage
  <2>1. PICK text \in Received :
          /\ handler = "open" /\ to_client # <<>> /\ text = to_client[1]
          /\ text.stream = Trade => text.json = "object"
          /\ to_client' = Tail(to_client)
          /\ UNCHANGED <<handler, sent>>
          /\ \/ Route(text) \notin UpdateStreams /\ UNCHANGED given
             \/ /\ Route(text) \in UpdateStreams
                /\ given' = [given EXCEPT ![Route(text)] = Append(@, text.data)]
    <3>1. /\ handler = "open" /\ to_client # <<>> /\ to_client[1] \in Received
          /\ Head(to_client) = to_client[1] /\ 1 \in DOMAIN to_client
      BY <1>1, <1>7 DEF OnMessage
    <3>2. to_client[1].stream = Trade => to_client[1].json = "object"
      BY <3>1 DEF OrderInv, Trades
    <3> QED BY <1>7, <3>1, <3>2 DEF OnMessage, UpdateStreams
  <2>2. /\ to_client' \in Seq(Received)
        /\ \A i \in Trades(to_client') : to_client'[i].json = "object"
    <3>1. /\ Tail(to_client) \in Seq(Received)
          /\ DOMAIN Tail(to_client) = 1 .. Len(to_client) - 1
          /\ DOMAIN to_client = 1 .. Len(to_client) /\ Len(to_client) \in Nat
          /\ \A i \in 1 .. Len(to_client) - 1 : Tail(to_client)[i] = to_client[i + 1]
      BY <1>1, <2>1
    <3>2. \A i \in Trades(Tail(to_client)) :
            i + 1 \in Trades(to_client) /\ Tail(to_client)[i] = to_client[i + 1]
      BY <3>1 DEF Trades
    <3>3. \A i \in Trades(Tail(to_client)) : Tail(to_client)[i].json = "object"
      BY <3>2 DEF OrderInv
    <3> QED BY <2>1, <3>1, <3>3
  <2>3. Rest(to_client, Len(given[Trade]), Len(sent[Trade]))
    BY <2>1 DEF OrderInv
  <2>4. Route(text) = Trade <=> text.stream = Trade
    BY <2>1, RouteTrade
  <2>5. given' \in [UpdateStreams -> Seq(Nat)]
    <3>1. text.data \in Nat
      BY DEF Received
    <3>2. given \in [UpdateStreams -> Seq(Nat)]
      BY DEF OrderInv
    <3>3. \A stream \in UpdateStreams :
            [given EXCEPT ![stream] = Append(@, text.data)] \in [UpdateStreams -> Seq(Nat)]
      BY <3>1, <3>2
    <3> QED BY <2>1, <3>2, <3>3
  <2>6. CASE text.stream # Trade
    <3>1. given'[Trade] = given[Trade]
      BY <1>1, <2>1, <2>4, <2>6 DEF OrderInv
    <3>2. Rest(Tail(to_client), Len(given[Trade]), Len(sent[Trade]))
      BY <1>1, <2>1, <2>3, <2>6, RestTail
    <3> QED BY <2>1, <2>2, <2>5, <3>1, <3>2 DEF OrderInv
  <2>7. CASE text.stream = Trade
    <3>1. /\ text.data = Len(given[Trade]) + 1 /\ Len(given[Trade]) + 1 <= Len(sent[Trade])
          /\ Rest(Tail(to_client), Len(given[Trade]) + 1, Len(sent[Trade]))
      BY <1>1, <2>1, <2>3, <2>7, RestTake
    <3>2. given'[Trade] = Append(given[Trade], text.data)
      BY <1>1, <2>1, <2>4, <2>7 DEF OrderInv
    <3>3. /\ Len(given'[Trade]) = Len(given[Trade]) + 1
          /\ \A n \in 1 .. Len(given[Trade]) : given'[Trade][n] = given[Trade][n]
          /\ given'[Trade][Len(given[Trade]) + 1] = text.data
      BY <1>1, <3>1, <3>2
    <3>4. \A n \in 1 .. Len(given'[Trade]) : given'[Trade][n] = n
      <4>1. \A n \in 1 .. Len(given[Trade]) : given[Trade][n] = n
        BY DEF OrderInv
      <4>2. ASSUME NEW n \in 1 .. Len(given'[Trade]) PROVE given'[Trade][n] = n
        <5>1. n \in 1 .. Len(given[Trade]) \/ n = Len(given[Trade]) + 1
          BY <1>1, <3>3
        <5>2. CASE n \in 1 .. Len(given[Trade])
          <6>1. given'[Trade][n] = given[Trade][n]
            BY <3>3, <5>2
          <6> QED BY <4>1, <5>2, <6>1
        <5>3. CASE n = Len(given[Trade]) + 1
          BY <3>1, <3>3, <5>3
        <5> QED BY <5>1, <5>2, <5>3
      <4> QED BY <4>2
    <3> QED BY <2>1, <2>2, <2>5, <3>1, <3>3, <3>4 DEF OrderInv
  <2> QED BY <2>6, <2>7
<1>8. CASE ServerAnswers
  <2>1. handler = "open"
    BY <1>8 DEF ServerAnswers, OrderInv
  <2>2. /\ UNCHANGED <<handler, given, sent>>
        /\ \E stream \in {"authorization", "listening"} :
             to_client' = Append(to_client, Text(stream, 0))
    BY <1>8 DEF ServerAnswers
  <2>3. \A stream \in {"authorization", "listening"} :
          Text(stream, 0) \in Received /\ Text(stream, 0).stream # Trade
    BY DEF Text, Received, StreamNames, Trade
  <2>4. sent' \in [UpdateStreams -> Seq(Nat)] /\ sent'[Trade] = sent[Trade]
    BY <2>2 DEF OrderInv
  <2> QED BY <2>1, <2>2, <2>3, <2>4, TextOrder
<1>9. CASE \E stream \in UpdateStreams : ServerUpdates(stream)
  <2>1. PICK stream \in UpdateStreams : ServerUpdates(stream)
    BY <1>9
  <2> DEFINE n == Len(sent[stream]) + 1
  <2>2. /\ handler = "open" /\ UNCHANGED <<handler, given>>
        /\ sent' = [sent EXCEPT ![stream] = Append(@, n)]
        /\ to_client' = Append(to_client, Text(stream, n))
    BY <2>1 DEF ServerUpdates, OrderInv
  <2>3. sent[stream] \in Seq(Nat) /\ n \in Nat
    BY DEF OrderInv
  <2>4. /\ Text(stream, n) \in Received /\ Text(stream, n).stream = stream
        /\ Text(stream, n).json = "object" /\ Text(stream, n).data = n
    BY <2>3 DEF Text, Received, StreamNames
  <2>5. /\ sent' \in [UpdateStreams -> Seq(Nat)]
        /\ \/ stream # Trade /\ sent'[Trade] = sent[Trade]
           \/ /\ stream = Trade /\ n = Len(sent[Trade]) + 1
              /\ sent'[Trade] = Append(sent[Trade], n)
    BY <1>1, <2>2, <2>3 DEF OrderInv
  <2> HIDE DEF n
  <2> QED BY <2>2, <2>4, <2>5, TextOrder
<1>10. CASE \E text \in Noise : ServerNoise(text)
  <2>1. PICK text \in Noise : ServerNoise(text)
    BY <1>10
  <2>2. /\ handler = "open" /\ UNCHANGED <<handler, given, sent>>
        /\ to_client' = Append(to_client, text)
    BY <2>1 DEF ServerNoise, OrderInv
  <2>3. text \in Received /\ text.stream # Trade
    <3>1. ASSUME NEW json \in {"error", "array", "object"}, NEW stream \in {"none", "", "other"}
          PROVE  LET x == [json |-> json, stream |-> stream, data |-> 0]
                 IN  x \in Received /\ x.stream # Trade
      BY DEF Received, StreamNames, Trade
    <3>2. \E json \in {"error", "array", "object"}, stream \in {"none", "", "other"} :
            text = [json |-> json, stream |-> stream, data |-> 0]
      <4>1. CASE text = [json |-> "error", stream |-> "none", data |-> 0]
        BY <4>1
      <4>2. CASE text = [json |-> "array", stream |-> "none", data |-> 0]
        BY <4>2
      <4>3. CASE text = Text("none", 0)
        BY <4>3 DEF Text
      <4>4. CASE text = Text("", 0)
        BY <4>4 DEF Text
      <4>5. CASE text = Text("other", 0)
        BY <4>5 DEF Text
      <4> QED BY <2>1, <4>1, <4>2, <4>3, <4>4, <4>5 DEF Noise
    <3> QED BY <3>1, <3>2
  <2>4. sent' \in [UpdateStreams -> Seq(Nat)] /\ sent'[Trade] = sent[Trade]
    BY <2>2 DEF OrderInv
  <2> QED BY <2>2, <2>3, <2>4, TextOrder
<1> QED BY <1>3, <1>4, <1>5, <1>6, <1>7, <1>8, <1>9, <1>10 DEF Next

(* onMessage gives every trade update to on_trade_update_, once and in the  *)
(* order in which the server sent them, and nothing else: the character by  *)
(* which it tells the streams apart is enough for this one.                 *)
THEOREM TradesAreGivenInOrder == Spec => []TradesInOrder
<1>1. OrderInv => TradesInOrder
  <2> SUFFICES ASSUME OrderInv PROVE TradesInOrder
    OBVIOUS
  <2>1. /\ sent["trade_updates"] \in Seq(Nat) /\ given["trade_updates"] \in Seq(Nat)
        /\ Len(sent["trade_updates"]) \in Nat /\ Len(given["trade_updates"]) \in Nat
    BY DEF OrderInv, UpdateStreams
  <2>2. /\ Len(given["trade_updates"]) <= Len(sent["trade_updates"])
        /\ \A n \in 1 .. Len(given["trade_updates"]) :
             given["trade_updates"][n] = sent["trade_updates"][n]
        /\ \A n \in 1 .. Len(sent["trade_updates"]) : sent["trade_updates"][n] = n
    BY <2>1 DEF OrderInv, Trade
  <2>3. GivenInOrder("trade_updates")
    <3> DEFINE g == given["trade_updates"]
               t == sent["trade_updates"]
    <3>1. /\ SubSeq(g, 1, Len(g)) \in Seq(Nat) /\ SubSeq(t, 1, Len(g)) \in Seq(Nat)
          /\ Len(SubSeq(g, 1, Len(g))) = Len(g) /\ Len(SubSeq(t, 1, Len(g))) = Len(g)
          /\ \A n \in 1 .. Len(g) : /\ SubSeq(g, 1, Len(g))[n] = g[n]
                                    /\ SubSeq(t, 1, Len(g))[n] = t[n]
      BY <2>1, <2>2
    <3>2. SubSeq(g, 1, Len(g)) = SubSeq(t, 1, Len(g))
      BY <2>2, <3>1, SeqEqual
    <3> QED BY <2>2, <3>2 DEF GivenInOrder, IsPrefix
  <2>4. ASSUME handler = "open"
        PROVE  PendingInOrder("trade_updates")
    <3>1. /\ Rest(to_client, Len(given["trade_updates"]), Len(sent["trade_updates"]))
          /\ Pending("trade_updates") = Trades(to_client)
      BY <2>4 DEF OrderInv, Trade, Trades, Pending
    <3>2. {sent["trade_updates"][n] :
             n \in Len(given["trade_updates"]) + 1 .. Len(sent["trade_updates"])}
          = Len(given["trade_updates"]) + 1 .. Len(sent["trade_updates"])
      <4>1. \A n \in Len(given["trade_updates"]) + 1 .. Len(sent["trade_updates"]) :
              n \in 1 .. Len(sent["trade_updates"])
        BY <2>1
      <4>2. \A n \in Len(given["trade_updates"]) + 1 .. Len(sent["trade_updates"]) :
              sent["trade_updates"][n] = n
        BY <2>2, <4>1
      <4> QED BY <4>2
    <3>3. {to_client[i].data : i \in Trades(to_client)}
          = Len(given["trade_updates"]) + 1 .. Len(sent["trade_updates"])
      BY <3>1 DEF Rest
    <3> QED BY <3>1, <3>2, <3>3 DEF PendingInOrder, Rest
  <2> QED BY <2>3, <2>4 DEF TradesInOrder
<1> QED BY <1>1, InitOrder, NextOrder, PTL DEF Spec
=============================================================================
