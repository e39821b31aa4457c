-------------------------- MODULE DataClientProofs --------------------------
(***************************************************************************)
(* The session of DataClient is never ahead of the supplier, returns OK     *)
(* only when it may, and gives the functions the data in order, for any     *)
(* number of functions, data and status messages.                           *)
(***************************************************************************)
EXTENDS DataClient, TLAPS, SequenceTheorems

Kinds(seq) == {seq[i].kind : i \in 1 .. Len(seq)}

(* The frames that are on their way to the client or read and waiting. *)
Coming == Kinds(readbuf) \cup Kinds(inbox)

Accepted == auth_ = "valid" /\ srv \in {"await_subscribe", "streaming", "refusing"}
Streaming == auth_ = "valid" /\ srv = "streaming"

(* What makes NeverAheadOfSupplier inductive: an answer that is still on    *)
(* its way was given by the supplier, and before the supplier has accepted  *)
(* the connection nothing is on its way and the client has not moved.       *)
IInv ==
  /\ readbuf \in Seq(Message) /\ inbox \in Seq(Message)
  /\ srv \in {"await_subscribe", "streaming"} => auth_ = "valid"
  /\ "authenticated" \in Coming => Accepted
  /\ "subscribed" \in Coming => Streaming
  /\ state_ = "AUTHENTICATED" => Accepted
  /\ state_ = "SUBSCRIBED" => Streaming
  /\ conn \in {"none", "connecting"} =>
       srv = "none" /\ state_ = "INIT" /\ Coming = {}
  /\ phase = "setup" => conn = "none"
  /\ data_sent \in Nat

-----------------------------------------------------------------------------
(* A status message is a message of its kind. *)
LEMMA MsgType ==
  ASSUME NEW kind \in {"connected", "authenticated", "auth_failed",
                       "subscribed", "sub_failed", "status"}
  PROVE  Msg(kind) \in Message /\ Msg(kind).kind = kind
  BY DEF Msg, Message

(* So is a data message. *)
LEMMA DataType ==
  ASSUME NEW n \in 1 .. MaxData
  PROVE  [kind |-> "data", n |-> n] \in Message
  BY DEF Message

(* One more frame on its way. *)
LEMMA KindsAppend ==
  ASSUME NEW seq \in Seq(Message), NEW msg \in Message
  PROVE  Kinds(Append(seq, msg)) = Kinds(seq) \cup {msg.kind}
<1> DEFINE new == Append(seq, msg)
<1>1. /\ Len(new) = Len(seq) + 1 /\ Len(seq) \in Nat
      /\ \A i \in 1 .. Len(seq) : new[i] = seq[i]
      /\ new[Len(seq) + 1] = msg
  OBVIOUS
<1> HIDE DEF new
<1>2. 1 .. Len(new) = (1 .. Len(seq)) \cup {Len(seq) + 1}
  BY <1>1
<1>3. Kinds(new) \subseteq Kinds(seq) \cup {msg.kind}
  BY <1>1, <1>2 DEF Kinds
<1>4. Kinds(seq) \cup {msg.kind} \subseteq Kinds(new)
  BY <1>1, <1>2 DEF Kinds
<1> QED BY <1>3, <1>4 DEF new

(* Neither taking frames from the front nor cutting the back adds a kind. *)
LEMMA KindsSubSeq ==
  ASSUME NEW seq \in Seq(Message), NEW m \in 1 .. Len(seq) + 1, NEW n \in 0 .. Len(seq)
  PROVE  /\ SubSeq(seq, m, n) \in Seq(Message)
         /\ Kinds(SubSeq(seq, m, n)) \subseteq Kinds(seq)
<1> DEFINE sub == SubSeq(seq, m, n)
<1>1. /\ sub \in Seq(Message) /\ Len(sub) \in Nat
      /\ \A i \in 1 .. Len(sub) : sub[i] = seq[m + i - 1] /\ m + i - 1 \in 1 .. Len(seq)
  OBVIOUS
<1> HIDE DEF sub
<1>2. Kinds(sub) \subseteq Kinds(seq)
  BY <1>1 DEF Kinds
<1> QED BY <1>1, <1>2 DEF sub

(* The first frame is dispatched. *)
LEMMA KindsTail ==
  ASSUME NEW seq \in Seq(Message), seq # <<>>
  PROVE  /\ Tail(seq) \in Seq(Message)
         /\ Kinds(Tail(seq)) \subseteq Kinds(seq)
         /\ Head(seq).kind \in Kinds(seq)
         /\ Head(seq) \in Message
<1>1. /\ Tail(seq) \in Seq(Message) /\ Len(Tail(seq)) = Len(seq) - 1
      /\ \A i \in 1 .. Len(Tail(seq)) : Tail(seq)[i] = seq[i + 1]
      /\ Len(seq) \in Nat \ {0} /\ Head(seq) = seq[1] /\ Head(seq) \in Message
  OBVIOUS
<1>2. Kinds(Tail(seq)) \subseteq Kinds(seq)
  BY <1>1 DEF Kinds
<1>3. Head(seq).kind \in Kinds(seq)
  BY <1>1 DEF Kinds
<1> QED BY <1>1, <1>2, <1>3

-----------------------------------------------------------------------------
(* A client that was just constructed. *)
LEMMA InitIInv == Init => IInv
<1> SUFFICES ASSUME Init PROVE IInv
  OBVIOUS
<1>1. readbuf = <<>> /\ inbox = <<>>
  BY DEF Init
<1>2. <<>> \in Seq(Message) /\ Len(<<>>) = 0 /\ 1 .. 0 = {}
  OBVIOUS
<1>3. Coming = {}
  BY <1>1, <1>2 DEF Coming, Kinds
<1>4. /\ srv = "none" /\ state_ = "INIT" /\ conn = "none" /\ data_sent = 0
  BY DEF Init
<1> QED BY <1>1, <1>2, <1>3, <1>4 DEF IInv

(* Before Run() nothing is on its way, so the credentials may change. *)
LEMMA SetupPreserves ==
  ASSUME IInv,
         \/ \E auth \in {"valid", "invalid"} : SetAuthentication(auth)
         \/ \E f \in Funcs : RegisterFunc(f) \/ UnregisterFunc(f)
         \/ Run
  PROVE  IInv'
<1>1. phase = "setup"
  BY DEF SetAuthentication, RegisterFunc, UnregisterFunc, Run
<1>2. /\ srv = "none" /\ state_ = "INIT" /\ Coming = {} /\ conn = "none"
  BY <1>1 DEF IInv
<1>3. UNCHANGED <<readbuf, inbox, srv, state_, data_sent>>
  BY DEF SetAuthentication, RegisterFunc, UnregisterFunc, Run, client, setup,
         supplier
<1>4. conn' = "none" \/ (conn' = "connecting" /\ phase' # "setup")
  BY <1>2 DEF SetAuthentication, RegisterFunc, UnregisterFunc, Run, Return
<1>5. Coming' = {}
  BY <1>2, <1>3 DEF Coming, Kinds
<1>6. phase' = "setup" => conn' = "none"
  BY <1>4
<1> QED BY <1>2, <1>3, <1>4, <1>5, <1>6 DEF IInv

(* A frame leaves readbuf, and the client moves as it says. *)
LEMMA OnMessagePreserves ==
  ASSUME IInv, OnMessage
  PROVE  IInv'
<1>1. PICK msg \in Message :
        /\ phase = "running" /\ readbuf # <<>> /\ msg = Head(readbuf)
        /\ readbuf' = Tail(readbuf)
        /\ UNCHANGED <<phase, conn, inbox, srv, auth_, data_sent>>
        /\ \/ state_' = state_
           \/ state_' = "CONNECTED"
           \/ state_' = "AUTHENTICATED" /\ msg.kind = "authenticated"
           \/ state_' = "SUBSCRIBED" /\ msg.kind = "subscribed"
  <2>1. CASE OnMessageInit
    BY <2>1 DEF OnMessageInit, Dispatched, Refuse, setup, supplier
  <2>2. CASE OnMessageConnected
    BY <2>2 DEF OnMessageConnected, IsAuthenticated, Dispatched, Refuse, setup, supplier
  <2>3. CASE OnMessageAuthenticated
    BY <2>3 DEF OnMessageAuthenticated, Dispatched, Refuse, setup, supplier
  <2>4. CASE OnMessageSubscribed
    BY <2>4 DEF OnMessageSubscribed, Dispatched, client, setup, supplier
  <2> QED BY <2>1, <2>2, <2>3, <2>4 DEF OnMessage
<1>2. /\ readbuf' \in Seq(Message) /\ inbox' \in Seq(Message)
      /\ Coming' \subseteq Coming
      /\ msg.kind \in Coming
  BY <1>1, KindsTail DEF IInv, Coming, Kinds
<1>3. Coming # {}
  BY <1>2
<1>4. conn \notin {"none", "connecting"}
  BY <1>3 DEF IInv
<1>5. /\ state_' = "AUTHENTICATED" => Accepted
      /\ state_' = "SUBSCRIBED" => Streaming
  BY <1>1, <1>2 DEF IInv
<1>6. (Accepted' <=> Accepted) /\ (Streaming' <=> Streaming)
  BY <1>1 DEF Accepted, Streaming
<1> QED BY <1>1, <1>2, <1>4, <1>5, <1>6 DEF IInv

(* Frames move from inbox to readbuf, or are lost. *)
LEMMA TransportPreserves ==
  ASSUME IInv, Read \/ ConnectionLost
  PROVE  IInv'
<1>1. /\ UNCHANGED <<phase, srv, auth_, state_, data_sent>>
      /\ conn' = conn \/ conn' = "closed"
  BY DEF Read, ConnectionLost, client, setup, supplier
<1>2. /\ readbuf' \in Seq(Message) /\ inbox' \in Seq(Message)
      /\ Coming' \subseteq Coming
  <2>1. CASE Read
    <3>1. PICK n \in 1 .. Len(inbox) :
            /\ readbuf' = SubSeq(inbox, 1, n)
            /\ inbox' = SubSeq(inbox, n + 1, Len(inbox))
      BY <2>1 DEF Read
    <3>2. inbox \in Seq(Message) /\ Len(inbox) \in Nat
      BY DEF IInv
    <3>3. /\ 1 \in 1 .. Len(inbox) + 1 /\ n \in 0 .. Len(inbox)
          /\ n + 1 \in 1 .. Len(inbox) + 1 /\ Len(inbox) \in 0 .. Len(inbox)
      BY <3>1, <3>2
    <3>4. /\ readbuf' \in Seq(Message) /\ Kinds(readbuf') \subseteq Kinds(inbox)
          /\ inbox' \in Seq(Message) /\ Kinds(inbox') \subseteq Kinds(inbox)
      BY <3>1, <3>2, <3>3, KindsSubSeq
    <3> QED BY <3>4 DEF Coming, Kinds
  <2>2. CASE ConnectionLost
    <3>1. PICK n \in 0 .. Len(inbox) : inbox' = SubSeq(inbox, 1, n)
      BY <2>2 DEF ConnectionLost
    <3>2. readbuf' = readbuf
      BY <2>2 DEF ConnectionLost
    <3>3. inbox \in Seq(Message) /\ Len(inbox) \in Nat /\ 1 \in 1 .. Len(inbox) + 1
      BY DEF IInv
    <3>4. inbox' \in Seq(Message) /\ Kinds(inbox') \subseteq Kinds(inbox)
      BY <3>1, <3>3, KindsSubSeq
    <3> QED BY <3>2, <3>4 DEF Coming, Kinds, IInv
  <2> QED BY <2>1, <2>2
<1>3. (Accepted' <=> Accepted) /\ (Streaming' <=> Streaming)
  BY <1>1 DEF Accepted, Streaming
<1>4. phase # "setup"
  BY DEF Read, ConnectionLost, IInv
<1>5. conn' \in {"none", "connecting"} => Coming' = {} /\ srv = "none" /\ state_ = "INIT"
  BY <1>1, <1>2 DEF IInv
<1>6. /\ "authenticated" \in Coming' => Accepted
      /\ "subscribed" \in Coming' => Streaming
  BY <1>2 DEF IInv
<1>7. /\ state_' = "AUTHENTICATED" => Accepted'
      /\ state_' = "SUBSCRIBED" => Streaming'
      /\ srv' \in {"await_subscribe", "streaming"} => auth_' = "valid"
      /\ data_sent' \in Nat
  BY <1>1, <1>3 DEF IInv
<1> QED BY <1>1, <1>2, <1>3, <1>4, <1>5, <1>6, <1>7 DEF IInv

(* The supplier answers, and moves to the state its answer announces. *)
LEMMA SupplierPreserves ==
  ASSUME IInv, Supplier
  PROVE  IInv'
<1>1. /\ UNCHANGED <<phase, auth_, state_, readbuf>> /\ phase # "setup"
      /\ data_sent' \in Nat
  BY DEF Supplier, SupplierAccepts, SupplierAuthenticates, SupplierSubscribes,
         SupplierSendsData, SupplierSendsStatus, client, setup, IInv
<1>2. ASSUME NEW msg \in Message, inbox' = Append(inbox, msg)
      PROVE  inbox' \in Seq(Message) /\ Coming' = Coming \cup {msg.kind}
  <2>1. inbox \in Seq(Message)
    BY DEF IInv
  <2>2. inbox' \in Seq(Message)
    BY <1>2, <2>1
  <2>3. Kinds(inbox') = Kinds(inbox) \cup {msg.kind}
    BY <1>2, <2>1, KindsAppend
  <2>4. Kinds(readbuf') = Kinds(readbuf)
    BY <1>1 DEF Kinds
  <2>5. Coming' = Kinds(readbuf') \cup Kinds(inbox')
    BY DEF Coming, Kinds
  <2> QED BY <2>2, <2>3, <2>4, <2>5 DEF Coming
<1>3. CASE SupplierAccepts
  <2>1. /\ conn = "connecting" /\ conn' = "open" /\ srv' = "await_auth"
        /\ inbox' = Append(inbox, Msg("connected"))
    BY <1>3 DEF SupplierAccepts, Reply
  <2>2. state_ = "INIT" /\ Coming = {}
    BY <2>1 DEF IInv
  <2>3. Coming' = {"connected"} /\ inbox' \in Seq(Message)
    BY <1>2, <2>1, <2>2, MsgType
  <2> QED BY <1>1, <2>1, <2>2, <2>3 DEF IInv
<1>4. CASE SupplierAuthenticates
  <2>1. conn = "open" /\ conn' = conn /\ srv = "await_auth"
    BY <1>4 DEF SupplierAuthenticates
  <2>2. /\ "authenticated" \notin Coming /\ "subscribed" \notin Coming
        /\ state_ # "AUTHENTICATED" /\ state_ # "SUBSCRIBED"
    BY <2>1 DEF IInv, Accepted, Streaming
  <2>3. CASE /\ auth_ = "valid" /\ srv' = "await_subscribe"
             /\ inbox' = Append(inbox, Msg("authenticated"))
    <3>1. /\ Coming' = Coming \cup {"authenticated"} /\ inbox' \in Seq(Message)
      BY <1>2, <2>3, MsgType
    <3>2. Accepted'
      BY <1>1, <2>3 DEF Accepted
    <3> QED BY <1>1, <2>1, <2>2, <2>3, <3>1, <3>2 DEF IInv
  <2>4. CASE /\ srv' = "refusing"
             /\ inbox' = Append(inbox, Msg("auth_failed"))
    <3>1. /\ Coming' = Coming \cup {"auth_failed"} /\ inbox' \in Seq(Message)
      BY <1>2, <2>4, MsgType
    <3> QED BY <1>1, <2>1, <2>2, <2>4, <3>1 DEF IInv
  <2> QED BY <1>4, <2>3, <2>4 DEF SupplierAuthenticates, Reply
<1>5. CASE SupplierSubscribes
  <2>1. conn = "open" /\ conn' = conn /\ srv = "await_subscribe" /\ auth_ = "valid"
    BY <1>5 DEF SupplierSubscribes, IInv
  <2>2. "subscribed" \notin Coming /\ state_ # "SUBSCRIBED"
    BY <2>1 DEF IInv, Streaming
  <2>3. CASE /\ srv' = "streaming"
             /\ inbox' = Append(inbox, Msg("subscribed"))
    <3>1. /\ Coming' = Coming \cup {"subscribed"} /\ inbox' \in Seq(Message)
      BY <1>2, <2>3, MsgType
    <3>2. Accepted' /\ Streaming'
      BY <1>1, <2>1, <2>3 DEF Accepted, Streaming
    <3> QED BY <1>1, <2>1, <2>2, <2>3, <3>1, <3>2 DEF IInv
  <2>4. CASE /\ srv' = "refusing"
             /\ inbox' = Append(inbox, Msg("sub_failed"))
    <3>1. /\ Coming' = Coming \cup {"sub_failed"} /\ inbox' \in Seq(Message)
      BY <1>2, <2>4, MsgType
    <3>2. Accepted'
      BY <1>1, <2>1, <2>4 DEF Accepted
    <3> QED BY <1>1, <2>1, <2>2, <2>4, <3>1, <3>2 DEF IInv
  <2> QED BY <1>5, <2>3, <2>4 DEF SupplierSubscribes, Reply
<1>6. CASE SupplierSendsData \/ SupplierSendsStatus
  <2>1. conn = "open" /\ conn' = conn /\ srv' = srv
    BY <1>6 DEF SupplierSendsData, SupplierSendsStatus
  <2>2. PICK msg \in Message :
          inbox' = Append(inbox, msg) /\ msg.kind \in {"data", "status"}
    <3>1. CASE SupplierSendsData
      <4>1. data_sent + 1 \in 1 .. MaxData
        BY <3>1, ClientAssumption DEF SupplierSendsData, IInv
      <4> QED BY <3>1, <4>1, DataType DEF SupplierSendsData
    <3>2. CASE SupplierSendsStatus
      BY <3>2, MsgType DEF SupplierSendsStatus, Reply
    <3> QED BY <1>6, <3>1, <3>2
  <2>3. /\ Coming' = Coming \cup {msg.kind} /\ inbox' \in Seq(Message)
    BY <1>2, <2>2
  <2>4. /\ "authenticated" \in Coming' => "authenticated" \in Coming
        /\ "subscribed" \in Coming' => "subscribed" \in Coming
    BY <2>2, <2>3
  <2>5. (Accepted' <=> Accepted) /\ (Streaming' <=> Streaming)
    BY <1>1, <2>1 DEF Accepted, Streaming
  <2> QED BY <1>1, <2>1, <2>3, <2>4, <2>5 DEF IInv
<1> QED BY <1>3, <1>4, <1>5, <1>6 DEF Supplier

(* The return of Run(), a crash and stuttering leave the session alone. *)
LEMMA EndPreserves ==
  ASSUME IInv, RunReturns \/ FuncCrashes \/ UNCHANGED vars
  PROVE  IInv'
<1>1. UNCHANGED <<readbuf, inbox, srv, auth_, state_, conn, data_sent>>
  BY DEF RunReturns, FuncCrashes, vars, client, setup, supplier
<1>2. phase' = "setup" => phase = "setup"
  BY DEF RunReturns, FuncCrashes, Return, vars
<1>3. /\ Coming' = Coming
      /\ (Accepted' <=> Accepted) /\ (Streaming' <=> Streaming)
  BY <1>1 DEF Coming, Kinds, Accepted, Streaming
<1> QED BY <1>1, <1>2, <1>3 DEF IInv

(* Every step keeps the invariant. *)
LEMMA NextPreserves == IInv /\ [Next]_vars => IInv'
<1> SUFFICES ASSUME IInv, [Next]_vars PROVE IInv'
  OBVIOUS
<1>1. CASE \/ \E auth \in {"valid", "invalid"} : SetAuthentication(auth)
           \/ \E f \in Funcs : RegisterFunc(f) \/ UnregisterFunc(f)
           \/ Run
  BY <1>1, SetupPreserves
<1>2. CASE OnMessage
  BY <1>2, OnMessagePreserves
<1>3. CASE Read \/ ConnectionLost
  BY <1>3, TransportPreserves
<1>4. CASE Supplier
  BY <1>4, SupplierPreserves
<1>5. CASE RunReturns \/ FuncCrashes \/ UNCHANGED vars
  BY <1>5, EndPreserves
<1> QED BY <1>1, <1>2, <1>3, <1>4, <1>5 DEF Next

-----------------------------------------------------------------------------
(* The inductive invariant of the session: what is on its way to the client *)
(* was said by the supplier, however frames are cut into reads or lost.     *)
THEOREM SpecIInv == Spec => []IInv
<1> QED BY InitIInv, NextPreserves, PTL DEF Spec

(* The client never believes itself authenticated or subscribed before the  *)
(* supplier accepted it: DataClient::OnMessage moves on the answers alone.  *)
THEOREM SpecNeverAheadOfSupplier == Spec => []NeverAheadOfSupplier
<1>1. IInv => NeverAheadOfSupplier
  BY DEF IInv, NeverAheadOfSupplier, Accepted, Streaming
<1> QED BY <1>1, SpecIInv, PTL

-----------------------------------------------------------------------------
(* What makes OkIsHonest inductive: a complaint is never forgotten, also    *)
(* when more frames of the read are dispatched after stop(), and without    *)
(* one only a subscribed client stops.                                      *)
HonestInv ==
  /\ rejected => stop_called /\ status_ # "Ok"
  /\ stop_called /\ ~rejected => state_ = "SUBSCRIBED"
  /\ OkIsHonest

(* Dispatching a frame of the session. *)
LEMMA OnMessageHonest ==
  ASSUME HonestInv, OnMessage
  PROVE  HonestInv'
<1>1. phase = "running" /\ phase' = "running"
  BY DEF OnMessage, OnMessageInit, OnMessageConnected, OnMessageAuthenticated,
         OnMessageSubscribed, Dispatched
<1>2. /\ rejected' => stop_called' /\ status_' # "Ok"
      /\ stop_called' /\ ~rejected' => state_' = "SUBSCRIBED"
  <2>1. CASE OnMessageInit
    BY <2>1 DEF OnMessageInit, Dispatched, Send, Refuse, HonestInv
  <2>2. CASE OnMessageConnected
    BY <2>2 DEF OnMessageConnected, Dispatched, Send, Refuse, HonestInv
  <2>3. CASE OnMessageAuthenticated
    <3>1. CASE /\ state_' = "SUBSCRIBED" /\ UNCHANGED <<status_, rejected>>
               /\ stop_called' = (stop_called \/ no_run)
      <4>1. stop_called => stop_called'
        BY <3>1
      <4> QED BY <3>1, <4>1 DEF HonestInv
    <3>2. CASE Refuse("Aborted")
      BY <3>2 DEF Refuse
    <3> QED BY <2>3, <3>1, <3>2 DEF OnMessageAuthenticated
  <2>4. CASE OnMessageSubscribed
    BY <2>4 DEF OnMessageSubscribed, client, HonestInv
  <2> QED BY <2>1, <2>2, <2>3, <2>4 DEF OnMessage
<1> QED BY <1>1, <1>2 DEF HonestInv, OkIsHonest

(* Every step keeps the books on complaints. *)
LEMMA NextHonest == HonestInv /\ [Next]_vars => HonestInv'
<1> SUFFICES ASSUME HonestInv, [Next]_vars PROVE HonestInv'
  OBVIOUS
<1>1. CASE \/ \E auth \in {"valid", "invalid"} : SetAuthentication(auth)
           \/ \E f \in Funcs : RegisterFunc(f) \/ UnregisterFunc(f)
  <2>1. UNCHANGED <<client, rejected>> /\ phase' = "setup"
    BY <1>1 DEF SetAuthentication, RegisterFunc, UnregisterFunc, history
  <2> QED BY <2>1 DEF HonestInv, OkIsHonest, client
<1>2. CASE Run
  <2>1. UNCHANGED <<client, rejected>> /\ (phase' = "returned" => ret' # "Ok")
    BY <1>2 DEF Run, Return, history
  <2> QED BY <2>1 DEF HonestInv, OkIsHonest, client
<1>3. CASE RunReturns
  <2>1. UNCHANGED <<client, conn, rejected>> /\ ret' = status_ /\ LoopEnds
    BY <1>3 DEF RunReturns, Return, history
  <2> QED BY <2>1 DEF HonestInv, OkIsHonest, LoopEnds, client
<1>4. CASE OnMessage
  BY <1>4, OnMessageHonest
<1>5. CASE FuncCrashes
  <2>1. UNCHANGED <<client, rejected>> /\ phase' = "crashed"
    BY <1>5 DEF FuncCrashes, history
  <2> QED BY <2>1 DEF HonestInv, OkIsHonest, client
<1>6. CASE Read \/ ConnectionLost \/ Supplier
  <2>1. UNCHANGED <<client, phase, ret, rejected>> /\ (conn = "closed" => conn' = "closed")
    BY <1>6 DEF Read, ConnectionLost, Supplier, SupplierAccepts, SupplierAuthenticates,
       SupplierSubscribes, SupplierSendsData, SupplierSendsStatus, history
  <2> QED BY <2>1 DEF HonestInv, OkIsHonest, client
<1>7. CASE UNCHANGED vars
  BY <1>7 DEF vars, client, history, HonestInv, OkIsHonest
<1> QED BY <1>1, <1>2, <1>3, <1>4, <1>5, <1>6, <1>7 DEF Next

(* Run() returns OK only after a subscription, or when the connection went  *)
(* away before the client refused, failed to send or stopped.               *)
THEOREM SpecOkIsHonest == Spec => []OkIsHonest
<1>1. Init => HonestInv
  BY DEF Init, HonestInv, OkIsHonest
<1>2. HonestInv => OkIsHonest
  BY DEF HonestInv
<1> QED BY <1>1, <1>2, NextHonest, PTL DEF Spec

-----------------------------------------------------------------------------
(* What is under way to the client, and what a function has been given of   *)
(* the session together with what is under way to it.                       *)
Stream == readbuf \o inbox
Log(f) == delivered[f] \o Stream

(* What makes DataInOrder inductive: the log of a function holds the data   *)
(* in order, all of it as long as the connection is open, and no data comes *)
(* before the confirmation that makes the client take messages for data.    *)
OrderInv ==
  /\ delivered \in [Funcs -> Seq(Message)] /\ reg_func_ \subseteq Funcs
  /\ outbox \in Seq({"auth", "subscribe"})
  /\ phase = "setup" => data_sent = 0 /\ state_ = "INIT"
  /\ srv = "streaming" \/ (\E i \in DOMAIN outbox : outbox[i] = "subscribe") =>
       state_ \in {"AUTHENTICATED", "SUBSCRIBED"}
  /\ state_ # "SUBSCRIBED" =>
       /\ \A f \in Funcs : delivered[f] = <<>>
       /\ \A i \in Data(Stream) : \E j \in DOMAIN Stream : j < i /\ Stream[j].kind = "subscribed"
       /\ conn = "open" /\ srv = "streaming" =>
            \E j \in DOMAIN Stream : Stream[j].kind = "subscribed"
  /\ srv # "streaming" => data_sent = 0
  /\ \A f \in reg_func_ :
       /\ Numbered(Log(f), data_sent)
       /\ conn = "open" /\ data_sent > 0 =>
            \E i \in Data(Log(f)) : Log(f)[i].n = data_sent

(* The part of an ordered log up to some frame is ordered. *)
LEMMA NumberedPrefix ==
  ASSUME NEW seq \in Seq(Message), NEW part \in Seq(Message), NEW sent,
         Len(part) <= Len(seq), \A i \in 1 .. Len(part) : part[i] = seq[i],
         Numbered(seq, sent)
  PROVE  Numbered(part, sent)
<1>1. /\ DOMAIN seq = 1 .. Len(seq) /\ DOMAIN part = 1 .. Len(part)
      /\ Len(seq) \in Nat /\ Len(part) \in Nat
  OBVIOUS
<1>2. \A i \in Data(part) : i \in Data(seq) /\ part[i] = seq[i] /\ i \in 1 .. Len(part)
  BY <1>1 DEF Data
<1>3. \A i \in Data(part), j \in Data(seq) : j < i => j \in Data(part) /\ part[j] = seq[j]
  BY <1>1 DEF Data
<1> QED BY <1>2, <1>3 DEF Numbered

(* So is what follows a frame that is no data. *)
LEMMA NumberedTail ==
  ASSUME NEW seq \in Seq(Message), seq # <<>>, seq[1].kind # "data", NEW sent,
         Numbered(seq, sent)
  PROVE  Numbered(Tail(seq), sent)
<1> DEFINE rest == Tail(seq)
<1>1. /\ DOMAIN seq = 1 .. Len(seq) /\ DOMAIN rest = 1 .. Len(rest)
      /\ Len(seq) \in Nat /\ Len(rest) = Len(seq) - 1
      /\ \A i \in 1 .. Len(rest) : rest[i] = seq[i + 1]
  OBVIOUS
<1> HIDE DEF rest
<1>2. \A i \in Data(rest) : i + 1 \in Data(seq) /\ rest[i] = seq[i + 1] /\ i \in Nat
  BY <1>1 DEF Data
<1>3. \A j \in Data(seq) : j - 1 \in Data(rest) /\ rest[j - 1] = seq[j] /\ j \in Nat
  <2> SUFFICES ASSUME NEW j \in Data(seq)
               PROVE  j - 1 \in Data(rest) /\ rest[j - 1] = seq[j] /\ j \in Nat
    OBVIOUS
  <2>1. j \in 1 .. Len(seq) /\ j # 1
    BY <1>1 DEF Data
  <2>2. j - 1 \in 1 .. Len(rest) /\ (j - 1) + 1 = j
    BY <1>1, <2>1
  <2> QED BY <1>1, <2>1, <2>2 DEF Data
<1> SUFFICES ASSUME NEW i \in Data(rest)
             PROVE  /\ rest[i].n <= sent
                    /\ \A j \in Data(rest) : j < i => rest[j].n < rest[i].n
                    /\ rest[i].n > 1 => \E j \in Data(rest) : j < i /\ rest[j].n = rest[i].n - 1
  BY DEF Numbered, rest
<1>4. i + 1 \in Data(seq) /\ rest[i] = seq[i + 1] /\ i \in Nat
  BY <1>2
<1>5. rest[i].n <= sent
  BY <1>4 DEF Numbered
<1>6. ASSUME NEW j \in Data(rest), j < i
      PROVE  rest[j].n < rest[i].n
  <2>1. j + 1 \in Data(seq) /\ rest[j] = seq[j + 1] /\ j + 1 < i + 1
    BY <1>2, <1>4, <1>6
  <2> QED BY <1>4, <2>1 DEF Numbered
<1>7. ASSUME rest[i].n > 1
      PROVE  \E j \in Data(rest) : j < i /\ rest[j].n = rest[i].n - 1
  <2>1. PICK j \in Data(seq) : j < i + 1 /\ seq[j].n = seq[i + 1].n - 1
    BY <1>4, <1>7 DEF Numbered
  <2>2. j - 1 \in Data(rest) /\ rest[j - 1] = seq[j] /\ j - 1 < i
    BY <1>3, <1>4, <2>1
  <2> QED BY <1>4, <2>1, <2>2
<1> QED BY <1>5, <1>6, <1>7

(* One more frame that is no data, or is the next of the data. *)
LEMMA NumberedAppend ==
  ASSUME NEW seq \in Seq(Message), NEW msg \in Message, NEW sent \in Nat, NEW more \in Nat,
         Numbered(seq, sent),
         \/ msg.kind # "data" /\ more = sent
         \/ /\ msg = [kind |-> "data", n |-> sent + 1] /\ more = sent + 1
            /\ sent > 0 => \E i \in Data(seq) : seq[i].n = sent
  PROVE  Numbered(Append(seq, msg), more)
<1> DEFINE new == Append(seq, msg)
<1>1. /\ DOMAIN seq = 1 .. Len(seq) /\ DOMAIN new = 1 .. Len(new)
      /\ Len(seq) \in Nat /\ Len(new) = Len(seq) + 1
      /\ \A i \in 1 .. Len(seq) : new[i] = seq[i]
      /\ new[Len(seq) + 1] = msg
  OBVIOUS
<1> HIDE DEF new
<1>2. \A i \in Data(seq) : /\ i \in Data(new) /\ new[i] = seq[i] /\ i < Len(seq) + 1
                           /\ i \in Nat /\ seq[i].n \in Nat
  <2> SUFFICES ASSUME NEW i \in Data(seq)
               PROVE  /\ i \in Data(new) /\ new[i] = seq[i] /\ i < Len(seq) + 1
                      /\ i \in Nat /\ seq[i].n \in Nat
    OBVIOUS
  <2>1. i \in 1 .. Len(seq) /\ i \in 1 .. Len(new) /\ seq[i].kind = "data"
    BY <1>1 DEF Data
  <2>2. seq[i] \in Message
    BY <2>1
  <2>3. seq[i].n \in Nat
    BY <2>2 DEF Message
  <2> QED BY <1>1, <2>1, <2>3 DEF Data
<1>3. \A i \in Data(new) : i \in Data(seq) \/ (i = Len(seq) + 1 /\ new[i] = msg /\ msg.kind = "data")
  BY <1>1 DEF Data
<1> SUFFICES ASSUME NEW i \in Data(new)
             PROVE  /\ new[i].n <= more
                    /\ \A j \in Data(new) : j < i => new[j].n < new[i].n
                    /\ new[i].n > 1 => \E j \in Data(new) : j < i /\ new[j].n = new[i].n - 1
  BY DEF Numbered, new
<1>4. CASE i \in Data(seq)
  <2>1. new[i].n <= more
    BY <1>2, <1>4 DEF Numbered
  <2>2. \A j \in Data(new) : j < i => j \in Data(seq)
    BY <1>2, <1>3, <1>4
  <2>3. \A j \in Data(new) : j < i => new[j].n < new[i].n
    BY <1>2, <1>4, <2>2 DEF Numbered
  <2>4. new[i].n > 1 => \E j \in Data(new) : j < i /\ new[j].n = new[i].n - 1
    BY <1>2, <1>4 DEF Numbered
  <2> QED BY <2>1, <2>3, <2>4
<1>5. CASE i = Len(seq) + 1 /\ new[i] = msg /\ msg.kind = "data"
  <2>1. new[i].n = sent + 1 /\ more = sent + 1
    BY <1>5
  <2>2. \A j \in Data(new) : j < i => j \in Data(seq)
    BY <1>3, <1>5
  <2>3. \A j \in Data(new) : j < i => new[j].n < new[i].n
    BY <1>2, <2>1, <2>2 DEF Numbered
  <2>4. new[i].n > 1 => \E j \in Data(new) : j < i /\ new[j].n = new[i].n - 1
    <3> SUFFICES ASSUME new[i].n > 1
                 PROVE  \E j \in Data(new) : j < i /\ new[j].n = new[i].n - 1
      OBVIOUS
    <3>1. sent > 0
      BY <2>1
    <3>2. PICK j \in Data(seq) : seq[j].n = sent
      BY <1>5, <3>1
    <3> QED BY <1>2, <1>5, <2>1, <3>2
  <2> QED BY <2>1, <2>3, <2>4
<1> QED BY <1>3, <1>4, <1>5

-----------------------------------------------------------------------------
(* The types of the stream and of the logs. *)
LEMMA LogType ==
  ASSUME readbuf \in Seq(Message), inbox \in Seq(Message),
         delivered \in [Funcs -> Seq(Message)], NEW f \in Funcs
  PROVE  Stream \in Seq(Message) /\ Log(f) \in Seq(Message)
<1>1. Stream \in Seq(Message)
  BY ConcatProperties DEF Stream
<1> QED BY <1>1, ConcatProperties DEF Log

(* As long as nothing was delivered the log is the stream. *)
LEMMA LogIsStream ==
  ASSUME readbuf \in Seq(Message), inbox \in Seq(Message), NEW f \in Funcs,
         delivered[f] = <<>>
  PROVE  Log(f) = Stream
<1>1. Stream \in Seq(Message)
  BY ConcatProperties DEF Stream
<1> QED BY <1>1, ConcatEmptySeq DEF Log

(* Only what goes in and out of the stream and of the functions matters. *)
LEMMA OrderUnchanged ==
  ASSUME OrderInv,
         UNCHANGED <<readbuf, inbox, delivered, state_, srv, data_sent, reg_func_>>,
         outbox' = outbox \/ outbox' = <<>>,
         phase' = "setup" => phase = "setup",
         conn' = conn \/ conn' # "open"
  PROVE  OrderInv'
<1>1. /\ Stream' = Stream
      /\ \A f \in Funcs : Log(f)' = Log(f)
  BY DEF Stream, Log
<1>2. /\ outbox' \in Seq({"auth", "subscribe"})
      /\ \A i \in DOMAIN outbox' : i \in DOMAIN outbox /\ outbox'[i] = outbox[i]
  <2>1. CASE outbox' = outbox
    BY <2>1 DEF OrderInv
  <2>2. CASE outbox' = <<>>
    <3>1. <<>> \in Seq({"auth", "subscribe"}) /\ DOMAIN <<>> = {}
      OBVIOUS
    <3> QED BY <2>2, <3>1
  <2> QED BY <2>1, <2>2
<1> QED BY <1>1, <1>2 DEF OrderInv

(* Steps before Run() and steps of Run() itself. *)
LEMMA SetupOrder ==
  ASSUME IInv, OrderInv,
         \/ \E auth \in {"valid", "invalid"} : SetAuthentication(auth)
         \/ \E f \in Funcs : RegisterFunc(f) \/ UnregisterFunc(f)
         \/ Run
  PROVE  OrderInv'
<1>1. /\ phase = "setup" /\ conn' # "open" /\ reg_func_' \subseteq Funcs
      /\ UNCHANGED <<readbuf, inbox, delivered, state_, srv, data_sent, outbox>>
  BY DEF SetAuthentication, RegisterFunc, UnregisterFunc, Run, Return, client, setup,
         supplier, history, IInv, OrderInv
<1>2. /\ srv = "none" /\ state_ = "INIT" /\ data_sent = 0 /\ conn = "none"
      /\ Kinds(readbuf) = {} /\ Kinds(inbox) = {}
  BY <1>1 DEF IInv, OrderInv, Coming
<1>3. readbuf = <<>> /\ inbox = <<>>
  <2>1. /\ Len(readbuf) \in Nat /\ Len(inbox) \in Nat
        /\ 1 \notin 1 .. Len(readbuf) /\ 1 \notin 1 .. Len(inbox)
    <3>1. readbuf \in Seq(Message) /\ inbox \in Seq(Message)
      BY DEF IInv
    <3>2. 1 \in 1 .. Len(readbuf) => readbuf[1].kind \in Kinds(readbuf)
      BY DEF Kinds
    <3>3. 1 \in 1 .. Len(inbox) => inbox[1].kind \in Kinds(inbox)
      BY DEF Kinds
    <3> QED BY <1>2, <3>1, <3>2, <3>3
  <2> QED BY <2>1 DEF IInv
<1>4. Stream' = <<>> /\ Stream = <<>>
  BY <1>1, <1>3 DEF Stream
<1>5. \A f \in Funcs : Log(f)' = <<>>
  BY <1>1, <1>2, <1>4 DEF Log, OrderInv
<1>6. Data(<<>>) = {}
  BY DEF Data
<1>7. \A f \in Funcs : Numbered(Log(f)', 0)
  BY <1>5, <1>6 DEF Numbered
<1> QED BY <1>1, <1>2, <1>4, <1>5, <1>6, <1>7 DEF OrderInv

(* Dispatching a frame: a subscribed client gives it to every function, any *)
(* other drops it, and it is no data.                                       *)
LEMMA OnMessageOrder ==
  ASSUME IInv, OrderInv, OnMessage
  PROVE  OrderInv'
<1>1. PICK msg \in Message :
        /\ phase = "running" /\ readbuf # <<>> /\ msg = Head(readbuf)
        /\ readbuf' = Tail(readbuf)
        /\ UNCHANGED <<phase, conn, inbox, srv, reg_func_, data_sent>>
        /\ \/ /\ state_ # "SUBSCRIBED" /\ UNCHANGED delivered
              /\ \/ state_ = "INIT" /\ state_' \in {"INIT", "CONNECTED"}
                 \/ state_ = "CONNECTED" /\ state_' \in {"CONNECTED", "AUTHENTICATED"}
                 \/ /\ state_ = "AUTHENTICATED"
                    /\ state_' = IF msg.kind = "subscribed" THEN "SUBSCRIBED" ELSE "AUTHENTICATED"
           \/ /\ state_ = "SUBSCRIBED" /\ state_' = state_
              /\ delivered' = [f \in Funcs |-> IF f \in reg_func_
                                               THEN Append(delivered[f], msg)
                                               ELSE delivered[f]]
        /\ \/ outbox' = outbox
           \/ outbox' = Append(outbox, "auth")
           \/ outbox' = Append(outbox, "subscribe") /\ state_' = "AUTHENTICATED"
  <2>1. CASE OnMessageInit
    BY <2>1 DEF OnMessageInit, Dispatched, Send, Refuse, setup, supplier
  <2>2. CASE OnMessageConnected
    BY <2>2 DEF OnMessageConnected, IsAuthenticated, Dispatched, Send, Refuse, setup, supplier
  <2>3. CASE OnMessageAuthenticated
    BY <2>3 DEF OnMessageAuthenticated, Dispatched, Refuse, setup, supplier
  <2>4. CASE OnMessageSubscribed
    BY <2>4 DEF OnMessageSubscribed, Receivers, Dispatched, client, setup, supplier
  <2> QED BY <2>1, <2>2, <2>3, <2>4 DEF OnMessage
<1>2. /\ readbuf \in Seq(Message) /\ inbox \in Seq(Message) /\ readbuf' \in Seq(Message)
      /\ Stream \in Seq(Message)
      /\ delivered \in [Funcs -> Seq(Message)]
      /\ \A f \in Funcs : delivered[f] \in Seq(Message)
  BY <1>1, LogType, ConcatProperties DEF IInv, OrderInv, Stream
<1>3. /\ Stream # <<>> /\ Stream[1] = msg /\ Stream' = Tail(Stream)
  <2>1. /\ Len(readbuf) \in Nat \ {0} /\ Len(inbox) \in Nat
        /\ Len(readbuf') = Len(readbuf) - 1 /\ msg = readbuf[1]
        /\ \A i \in 1 .. Len(readbuf') : readbuf'[i] = readbuf[i + 1]
    BY <1>1, <1>2
  <2>2. /\ Len(Stream) = Len(readbuf) + Len(inbox)
        /\ \A i \in 1 .. Len(Stream) :
             Stream[i] = IF i <= Len(readbuf) THEN readbuf[i] ELSE inbox[i - Len(readbuf)]
    BY <1>2, ConcatProperties DEF Stream
  <2>3. /\ Stream' \in Seq(Message) /\ Len(Stream') = Len(readbuf') + Len(inbox)
        /\ \A i \in 1 .. Len(Stream') :
             Stream'[i] = IF i <= Len(readbuf') THEN readbuf'[i] ELSE inbox[i - Len(readbuf')]
    <3>1. Stream' = readbuf' \o inbox
      BY <1>1 DEF Stream
    <3> HIDE DEF Stream
    <3> QED BY <1>2, <3>1, ConcatProperties
  <2>4. Stream # <<>> /\ Stream[1] = msg
    BY <1>2, <2>1, <2>2
  <2>5. /\ Tail(Stream) \in Seq(Message) /\ Len(Tail(Stream)) = Len(Stream) - 1
        /\ \A i \in 1 .. Len(Tail(Stream)) : Tail(Stream)[i] = Stream[i + 1]
    BY <1>2, <2>4
  <2>6. Len(Stream') = Len(Tail(Stream))
    BY <2>1, <2>2, <2>3, <2>5
  <2>7. \A i \in 1 .. Len(Stream') : Stream'[i] = Tail(Stream)[i]
    <3> SUFFICES ASSUME NEW i \in 1 .. Len(Stream')
                 PROVE  Stream'[i] = Tail(Stream)[i]
      OBVIOUS
    <3>1. i \in 1 .. Len(Tail(Stream)) /\ i + 1 \in 1 .. Len(Stream)
      BY <2>1, <2>2, <2>3, <2>6
    <3>2. Tail(Stream)[i] = Stream[i + 1]
      BY <2>5, <3>1
    <3>3. CASE i <= Len(readbuf')
      BY <2>1, <2>2, <2>3, <3>1, <3>2, <3>3
    <3>4. CASE ~(i <= Len(readbuf'))
      <4>1. i - Len(readbuf') = (i + 1) - Len(readbuf) /\ ~(i + 1 <= Len(readbuf))
        BY <2>1, <3>4
      <4> QED BY <2>2, <2>3, <3>1, <3>2, <3>4, <4>1
    <3> QED BY <3>3, <3>4
  <2>8. Stream' = Tail(Stream)
    BY <2>3, <2>5, <2>6, <2>7, SeqEqual
  <2> QED BY <2>4, <2>8
<1>4. /\ outbox' \in Seq({"auth", "subscribe"})
      /\ \A i \in DOMAIN outbox' :
           outbox'[i] = "subscribe" =>
             state_' = "AUTHENTICATED" \/ (i \in DOMAIN outbox /\ outbox[i] = "subscribe")
  <2>1. outbox \in Seq({"auth", "subscribe"})
    BY DEF OrderInv
  <2>2. CASE outbox' = outbox
    BY <2>1, <2>2
  <2>3. ASSUME NEW frame \in {"auth", "subscribe"}, outbox' = Append(outbox, frame)
        PROVE  /\ outbox' \in Seq({"auth", "subscribe"})
               /\ \A i \in DOMAIN outbox' :
                    outbox'[i] = frame \/ (i \in DOMAIN outbox /\ outbox'[i] = outbox[i])
    BY <2>1, <2>3
  <2> QED BY <1>1, <2>2, <2>3
<1>5. state_' \in {"AUTHENTICATED", "SUBSCRIBED"} \/ state_' \in {"INIT", "CONNECTED"}
  BY <1>1
<1>6. state_ \in {"AUTHENTICATED", "SUBSCRIBED"} => state_' \in {"AUTHENTICATED", "SUBSCRIBED"}
  BY <1>1
<1>7. /\ srv' = "streaming" \/ (\E i \in DOMAIN outbox' : outbox'[i] = "subscribe") =>
           state_' \in {"AUTHENTICATED", "SUBSCRIBED"}
      /\ srv' # "streaming" => data_sent' = 0
      /\ phase' = "setup" => data_sent' = 0 /\ state_' = "INIT"
      /\ reg_func_' \subseteq Funcs
  BY <1>1, <1>4, <1>6 DEF OrderInv
<1>8. CASE state_ # "SUBSCRIBED"
  <2>1. /\ UNCHANGED delivered /\ \A f \in Funcs : delivered[f] = <<>>
    BY <1>1, <1>8 DEF OrderInv
  <2>2. \A f \in Funcs : Log(f) = Stream /\ Log(f)' = Stream'
    <3> SUFFICES ASSUME NEW f \in Funcs
                 PROVE  Log(f) = Stream /\ Log(f)' = Stream'
      OBVIOUS
    <3>1. Log(f) = <<>> \o Stream
      BY <2>1 DEF Log
    <3>2. Log(f)' = <<>> \o Tail(Stream)
      BY <1>3, <2>1 DEF Log
    <3>3. Tail(Stream) \in Seq(Message)
      BY <1>2, <1>3, HeadTailProperties
    <3> QED BY <1>2, <1>3, <3>1, <3>2, <3>3, ConcatEmptySeq
  <2>3. /\ DOMAIN Stream = 1 .. Len(Stream) /\ Len(Stream) \in Nat
        /\ DOMAIN Tail(Stream) = 1 .. Len(Stream) - 1
        /\ \A i \in 1 .. Len(Stream) - 1 : Tail(Stream)[i] = Stream[i + 1]
    BY <1>2, <1>3
  <2>4. msg.kind # "data"
    <3> SUFFICES ASSUME msg.kind = "data" PROVE FALSE
      OBVIOUS
    <3>1. 1 \in Data(Stream)
      BY <1>2, <1>3, <2>3 DEF Data
    <3>2. PICK j \in DOMAIN Stream : j < 1
      BY <1>8, <3>1 DEF OrderInv
    <3> QED BY <2>3, <3>2
  <2>5. ASSUME state_' # "SUBSCRIBED"
        PROVE  /\ \A i \in Data(Tail(Stream)) :
                    \E j \in DOMAIN Tail(Stream) : j < i /\ Tail(Stream)[j].kind = "subscribed"
               /\ conn = "open" /\ srv = "streaming" =>
                    \E j \in DOMAIN Tail(Stream) : Tail(Stream)[j].kind = "subscribed"
    <3>1. msg.kind # "subscribed"
      <4> SUFFICES ASSUME msg.kind = "subscribed" PROVE FALSE
        OBVIOUS
      <4>1. "subscribed" \in Coming
        BY <1>1, <1>2, KindsTail DEF Coming
      <4>2. state_ = "AUTHENTICATED"
        BY <4>1, <1>8 DEF IInv, OrderInv, Streaming
      <4> QED BY <1>1, <2>5, <4>2
    <3>2. ASSUME NEW j \in DOMAIN Stream, Stream[j].kind = "subscribed"
          PROVE  /\ j - 1 \in DOMAIN Tail(Stream) /\ j \in Nat
                 /\ Tail(Stream)[j - 1].kind = "subscribed"
      <4>1. j # 1
        BY <1>3, <3>1, <3>2
      <4>2. j \in Nat /\ j - 1 \in 1 .. Len(Stream) - 1 /\ (j - 1) + 1 = j
        BY <2>3, <4>1
      <4> QED BY <2>3, <3>2, <4>2
    <3>3. ASSUME NEW i \in Data(Tail(Stream))
          PROVE  \E j \in DOMAIN Tail(Stream) : j < i /\ Tail(Stream)[j].kind = "subscribed"
      <4>1. i \in 1 .. Len(Stream) - 1 /\ i + 1 \in Data(Stream)
        BY <2>3, <3>3 DEF Data
      <4>2. PICK j \in DOMAIN Stream : j < i + 1 /\ Stream[j].kind = "subscribed"
        BY <1>8, <4>1 DEF OrderInv
      <4>3. j - 1 < i
        BY <3>2, <4>1, <4>2
      <4> QED BY <3>2, <4>2, <4>3
    <3>4. conn = "open" /\ srv = "streaming" =>
            \E j \in DOMAIN Stream : Stream[j].kind = "subscribed"
      BY <1>8 DEF OrderInv
    <3> QED BY <3>2, <3>3, <3>4
  <2>6. \A f \in reg_func_ :
          /\ Numbered(Log(f)', data_sent)
          /\ conn = "open" /\ data_sent > 0 =>
               \E i \in Data(Log(f)') : Log(f)'[i].n = data_sent
    <3> SUFFICES ASSUME NEW f \in reg_func_
                 PROVE  /\ Numbered(Tail(Stream), data_sent)
                        /\ conn = "open" /\ data_sent > 0 =>
                             \E i \in Data(Tail(Stream)) : Tail(Stream)[i].n = data_sent
      BY <1>3, <2>2 DEF OrderInv
    <3>1. /\ Numbered(Stream, data_sent)
          /\ conn = "open" /\ data_sent > 0 =>
               \E i \in Data(Stream) : Stream[i].n = data_sent
      <4>1. f \in Funcs /\ Log(f) = Stream
        BY <2>2 DEF OrderInv
      <4> QED BY <4>1 DEF OrderInv
    <3>2. Numbered(Tail(Stream), data_sent)
      BY <1>2, <1>3, <2>4, <3>1, NumberedTail
    <3>3. ASSUME NEW i \in Data(Stream)
          PROVE  i - 1 \in Data(Tail(Stream)) /\ Tail(Stream)[i - 1] = Stream[i]
      <4>1. i \in 1 .. Len(Stream) /\ i # 1 /\ Stream[i].kind = "data"
        BY <1>3, <2>3, <2>4 DEF Data
      <4>2. i - 1 \in 1 .. Len(Stream) - 1 /\ (i - 1) + 1 = i
        BY <2>3, <4>1
      <4> QED BY <2>3, <4>1, <4>2 DEF Data
    <3> QED BY <3>1, <3>2, <3>3
  <2>7. \A f \in reg_func_' :
          /\ Numbered(Log(f)', data_sent')
          /\ conn' = "open" /\ data_sent' > 0 =>
               \E i \in Data(Log(f)') : Log(f)'[i].n = data_sent'
    BY <1>1, <2>6
  <2>8. state_' # "SUBSCRIBED" =>
           /\ \A f \in Funcs : delivered'[f] = <<>>
           /\ \A i \in Data(Stream') : \E j \in DOMAIN Stream' : j < i /\ Stream'[j].kind = "subscribed"
           /\ conn' = "open" /\ srv' = "streaming" =>
                \E j \in DOMAIN Stream' : Stream'[j].kind = "subscribed"
    BY <1>1, <1>3, <2>1, <2>5
  <2>9. delivered' \in [Funcs -> Seq(Message)]
    BY <1>2, <2>1
  <2> QED BY <1>4, <1>7, <2>7, <2>8, <2>9 DEF OrderInv
<1>9. CASE state_ = "SUBSCRIBED"
  <2>1. /\ delivered' = [f \in Funcs |-> IF f \in reg_func_ THEN Append(delivered[f], msg)
                                                          ELSE delivered[f]]
        /\ delivered' \in [Funcs -> Seq(Message)]
        /\ state_' = "SUBSCRIBED"
    <3>1. /\ delivered' = [f \in Funcs |-> IF f \in reg_func_ THEN Append(delivered[f], msg)
                                                            ELSE delivered[f]]
          /\ state_' = "SUBSCRIBED"
      BY <1>1, <1>9
    <3>2. \A f \in Funcs : Append(delivered[f], msg) \in Seq(Message)
      BY <1>2, AppendProperties
    <3> QED BY <1>2, <3>1, <3>2
  <2>2. ASSUME NEW f \in reg_func_
        PROVE  Log(f)' = Log(f)
    <3>1. f \in Funcs
      BY DEF OrderInv
    <3>2. Log(f)' = Append(delivered[f], msg) \o Tail(Stream)
      BY <1>3, <2>1, <3>1 DEF Log
    <3>3. Append(delivered[f], msg) = delivered[f] \o <<msg>>
      BY <1>2, <3>1, AppendIsConcat
    <3>4. Stream = <<msg>> \o Tail(Stream)
      <4>1. Stream = <<Head(Stream)>> \o Tail(Stream) /\ Head(Stream) = Stream[1]
        BY <1>2, <1>3
      <4> QED BY <1>3, <4>1
    <3>5. <<msg>> \in Seq(Message) /\ Tail(Stream) \in Seq(Message) /\ delivered[f] \in Seq(Message)
      BY <1>2, <1>3, <3>1, HeadTailProperties
    <3>6. (delivered[f] \o <<msg>>) \o Tail(Stream) = delivered[f] \o (<<msg>> \o Tail(Stream))
      BY <3>5, ConcatAssociative
    <3> QED BY <3>2, <3>3, <3>4, <3>6 DEF Log
  <2>3. \A f \in reg_func_' :
          /\ Numbered(Log(f)', data_sent')
          /\ conn' = "open" /\ data_sent' > 0 =>
               \E i \in Data(Log(f)') : Log(f)'[i].n = data_sent'
    <3> SUFFICES ASSUME NEW f \in reg_func_
                 PROVE  /\ Numbered(Log(f)', data_sent)
                        /\ conn = "open" /\ data_sent > 0 =>
                             \E i \in Data(Log(f)') : Log(f)'[i].n = data_sent
      BY <1>1
    <3> QED BY <2>2 DEF OrderInv
  <2> QED BY <1>4, <1>7, <2>1, <2>3 DEF OrderInv
<1> QED BY <1>8, <1>9

(* Cutting the second of two sequences cuts the two joined. *)
LEMMA ConcatPrefix ==
  ASSUME NEW d \in Seq(Message), NEW seq \in Seq(Message), NEW part \in Seq(Message),
         Len(part) <= Len(seq), \A k \in 1 .. Len(part) : part[k] = seq[k]
  PROVE  /\ d \o part \in Seq(Message) /\ d \o seq \in Seq(Message)
         /\ Len(d \o part) <= Len(d \o seq)
         /\ \A k \in 1 .. Len(d \o part) : (d \o part)[k] = (d \o seq)[k]
<1>1. /\ d \o seq \in Seq(Message) /\ Len(d \o seq) = Len(d) + Len(seq)
      /\ \A k \in 1 .. Len(d) + Len(seq) :
           (d \o seq)[k] = IF k <= Len(d) THEN d[k] ELSE seq[k - Len(d)]
  BY ConcatProperties
<1>2. /\ d \o part \in Seq(Message) /\ Len(d \o part) = Len(d) + Len(part)
      /\ \A k \in 1 .. Len(d) + Len(part) :
           (d \o part)[k] = IF k <= Len(d) THEN d[k] ELSE part[k - Len(d)]
  BY ConcatProperties
<1>3. Len(d) \in Nat /\ Len(seq) \in Nat /\ Len(part) \in Nat
  OBVIOUS
<1>4. ASSUME NEW k \in 1 .. Len(d) + Len(part)
      PROVE  (d \o part)[k] = (d \o seq)[k]
  <2>1. CASE k <= Len(d)
    BY <1>1, <1>2, <1>3, <2>1
  <2>2. CASE ~(k <= Len(d))
    <3>1. k - Len(d) \in 1 .. Len(part) /\ k \in 1 .. Len(d) + Len(seq)
      BY <1>3, <2>2
    <3> QED BY <1>1, <1>2, <2>2, <3>1
  <2> QED BY <2>1, <2>2
<1> QED BY <1>1, <1>2, <1>3, <1>4

(* Frames move within the stream, or its end is lost with the connection. *)
LEMMA TransportOrder ==
  ASSUME IInv, OrderInv, Read \/ ConnectionLost
  PROVE  OrderInv'
<1>1. /\ readbuf \in Seq(Message) /\ inbox \in Seq(Message)
      /\ Len(readbuf) \in Nat /\ Len(inbox) \in Nat
      /\ delivered \in [Funcs -> Seq(Message)]
  BY DEF IInv, OrderInv
<1>2. CASE Read
  <2>1. PICK n \in 1 .. Len(inbox) :
          /\ readbuf = <<>> /\ readbuf' = SubSeq(inbox, 1, n)
          /\ inbox' = SubSeq(inbox, n + 1, Len(inbox))
          /\ UNCHANGED <<delivered, state_, srv, data_sent, reg_func_, outbox, phase, conn>>
    BY <1>2 DEF Read, client, setup, supplier, history
  <2>2. readbuf' \o inbox' = inbox
    <3> DEFINE r == SubSeq(inbox, 1, n)
               i == SubSeq(inbox, n + 1, Len(inbox))
    <3>1. /\ r \in Seq(Message) /\ i \in Seq(Message)
          /\ Len(r) = n /\ Len(i) = Len(inbox) - n
          /\ \A k \in 1 .. n : r[k] = inbox[k]
          /\ \A k \in 1 .. Len(inbox) - n : i[k] = inbox[n + k]
      BY <1>1
    <3> HIDE DEF r, i
    <3>2. /\ r \o i \in Seq(Message) /\ Len(r \o i) = Len(inbox)
          /\ \A k \in 1 .. Len(inbox) : (r \o i)[k] = IF k <= n THEN r[k] ELSE i[k - n]
      BY <1>1, <3>1, ConcatProperties
    <3>3. \A k \in 1 .. Len(inbox) : (r \o i)[k] = inbox[k]
      BY <1>1, <3>1, <3>2
    <3>4. r \o i = inbox
      BY <1>1, <3>2, <3>3, SeqEqual
    <3> QED BY <2>1, <3>4 DEF r, i
  <2>3. Stream = inbox
    BY <1>1, <2>1, ConcatEmptySeq DEF Stream
  <2>4. Stream' = Stream
    BY <2>2, <2>3 DEF Stream
  <2>5. \A f \in Funcs : Log(f)' = Log(f)
    BY <2>1, <2>4 DEF Log
  <2> QED BY <2>1, <2>4, <2>5 DEF OrderInv
<1>3. CASE ConnectionLost
  <2>1. PICK n \in 0 .. Len(inbox) :
          /\ inbox' = SubSeq(inbox, 1, n) /\ conn' = "closed" /\ outbox' = <<>>
          /\ UNCHANGED <<readbuf, delivered, state_, srv, data_sent, reg_func_, phase>>
    BY <1>3 DEF ConnectionLost, client, setup, supplier, history
  <2>2. /\ inbox' \in Seq(Message) /\ Len(inbox') <= Len(inbox)
        /\ \A k \in 1 .. Len(inbox') : inbox'[k] = inbox[k]
    BY <1>1, <2>1
  <2>3. Stream \in Seq(Message) /\ Stream' = readbuf \o inbox'
    BY <1>1, <2>1, ConcatProperties DEF Stream
  <2>5. /\ Stream' \in Seq(Message) /\ Len(Stream') <= Len(Stream)
        /\ \A k \in 1 .. Len(Stream') : Stream'[k] = Stream[k]
    <3>1. /\ readbuf \o inbox' \in Seq(Message)
          /\ Len(readbuf \o inbox') <= Len(readbuf \o inbox)
          /\ \A k \in 1 .. Len(readbuf \o inbox') :
               (readbuf \o inbox')[k] = (readbuf \o inbox)[k]
      BY <1>1, <2>2, ConcatPrefix
    <3> QED BY <2>3, <3>1 DEF Stream
  <2>6. ASSUME NEW f \in reg_func_
        PROVE  Numbered(Log(f)', data_sent)
    <3>1. delivered[f] \in Seq(Message) /\ Log(f)' = delivered[f] \o Stream'
      BY <1>1, <2>1 DEF Log, OrderInv
    <3>2. /\ delivered[f] \o Stream' \in Seq(Message)
          /\ delivered[f] \o Stream \in Seq(Message)
          /\ Len(delivered[f] \o Stream') <= Len(delivered[f] \o Stream)
          /\ \A k \in 1 .. Len(delivered[f] \o Stream') :
               (delivered[f] \o Stream')[k] = (delivered[f] \o Stream)[k]
      <4>1. PICK d \in Seq(Message), part \in Seq(Message) : d = delivered[f] /\ part = Stream'
        BY <2>5, <3>1
      <4>2. /\ d \o part \in Seq(Message) /\ d \o Stream \in Seq(Message)
            /\ Len(d \o part) <= Len(d \o Stream)
            /\ \A k \in 1 .. Len(d \o part) : (d \o part)[k] = (d \o Stream)[k]
        <5>1. Len(part) <= Len(Stream) /\ \A k \in 1 .. Len(part) : part[k] = Stream[k]
          BY <2>5, <4>1
        <5>2. Stream \in Seq(Message)
          BY <2>3
        <5> QED BY <5>1, <5>2, ConcatPrefix
      <4> QED BY <4>1, <4>2
    <3>3. Numbered(delivered[f] \o Stream, data_sent)
      BY DEF OrderInv, Log
    <3> QED BY <3>1, <3>2, <3>3, NumberedPrefix
  <2>7. ASSUME NEW i \in Data(Stream'), state_ # "SUBSCRIBED"
        PROVE  \E j \in DOMAIN Stream' : j < i /\ Stream'[j].kind = "subscribed"
    <3>1. /\ DOMAIN Stream' = 1 .. Len(Stream') /\ DOMAIN Stream = 1 .. Len(Stream)
          /\ Len(Stream) \in Nat /\ Len(Stream') \in Nat
      BY <2>3, <2>5
    <3>2. i \in 1 .. Len(Stream') /\ i \in Data(Stream)
      BY <2>5, <3>1 DEF Data
    <3>3. PICK j \in DOMAIN Stream : j < i /\ Stream[j].kind = "subscribed"
      BY <2>7, <3>2 DEF OrderInv
    <3>4. j \in 1 .. Len(Stream')
      BY <3>1, <3>2, <3>3
    <3> QED BY <2>5, <3>1, <3>3, <3>4
  <2>8. <<>> \in Seq({"auth", "subscribe"}) /\ DOMAIN <<>> = {}
    OBVIOUS
  <2>9. \A f \in reg_func_' :
          /\ Numbered(Log(f)', data_sent')
          /\ conn' = "open" /\ data_sent' > 0 =>
               \E i \in Data(Log(f)') : Log(f)'[i].n = data_sent'
    BY <2>1, <2>6
  <2> QED BY <2>1, <2>7, <2>8, <2>9 DEF OrderInv
<1> QED BY <1>2, <1>3

(* The supplier: one more frame at the end of the stream; data only after   *)
(* the confirmation, numbered on.                                           *)
LEMMA SupplierOrder ==
  ASSUME IInv, OrderInv, Supplier
  PROVE  OrderInv'
<1>1. /\ readbuf \in Seq(Message) /\ inbox \in Seq(Message)
      /\ Len(readbuf) \in Nat /\ Len(inbox) \in Nat
      /\ delivered \in [Funcs -> Seq(Message)] /\ outbox \in Seq({"auth", "subscribe"})
  BY DEF IInv, OrderInv
<1>2. UNCHANGED <<readbuf, delivered, state_, reg_func_, phase>>
  BY DEF Supplier, SupplierAccepts, SupplierAuthenticates, SupplierSubscribes,
         SupplierSendsData, SupplierSendsStatus, client, setup, history
<1>3. PICK msg \in Message :
        /\ inbox' = Append(inbox, msg)
        /\ \/ msg.kind # "data" /\ data_sent' = data_sent
           \/ /\ msg = [kind |-> "data", n |-> data_sent + 1]
              /\ data_sent' = data_sent + 1
              /\ conn = "open" /\ srv = "streaming" /\ srv' = srv
        /\ srv' = "streaming" => srv = "streaming" \/ msg.kind = "subscribed"
        /\ srv' # srv /\ srv = "streaming" => FALSE
        /\ conn' = conn \/ (conn' = "open" /\ srv' # "streaming" /\ data_sent' = data_sent)
  <2>1. CASE SupplierAccepts
    <3>1. srv = "none"
      BY <2>1 DEF SupplierAccepts, IInv
    <3> QED BY <2>1, <3>1, MsgType DEF SupplierAccepts, Reply
  <2>2. CASE SupplierAuthenticates
    BY <2>2, MsgType DEF SupplierAuthenticates, Reply
  <2>3. CASE SupplierSubscribes
    BY <2>3, MsgType DEF SupplierSubscribes, Reply
  <2>4. CASE SupplierSendsData
    <3>1. data_sent + 1 \in 1 .. MaxData
      BY <2>4, ClientAssumption DEF SupplierSendsData, IInv
    <3> QED BY <2>4, <3>1, DataType DEF SupplierSendsData
  <2>5. CASE SupplierSendsStatus
    BY <2>5, MsgType DEF SupplierSendsStatus, Reply, supplier
  <2> QED BY <2>1, <2>2, <2>3, <2>4, <2>5 DEF Supplier
<1>4. /\ outbox' \in Seq({"auth", "subscribe"})
      /\ \A i \in DOMAIN outbox' : \E j \in DOMAIN outbox : outbox'[i] = outbox[j]
  <2>1. CASE outbox' = outbox
    BY <1>1, <2>1
  <2>2. CASE outbox # <<>> /\ outbox' = Tail(outbox)
    <3>1. /\ outbox' \in Seq({"auth", "subscribe"}) /\ Len(outbox') = Len(outbox) - 1
          /\ Len(outbox) \in Nat
          /\ \A i \in 1 .. Len(outbox') : outbox'[i] = outbox[i + 1]
          /\ DOMAIN outbox = 1 .. Len(outbox) /\ DOMAIN outbox' = 1 .. Len(outbox')
      BY <1>1, <2>2
    <3>2. \A i \in 1 .. Len(outbox') : i + 1 \in 1 .. Len(outbox)
      BY <3>1
    <3> QED BY <1>1, <3>1, <3>2
  <2> QED BY <2>1, <2>2 DEF Supplier, SupplierAccepts, SupplierAuthenticates,
         SupplierSubscribes, SupplierSendsData, SupplierSendsStatus, Hears
<1>5. srv' = "streaming" =>
        srv = "streaming" \/ (\E i \in DOMAIN outbox : outbox[i] = "subscribe")
  <2>1. CASE SupplierSubscribes
    <3>1. outbox # <<>> /\ Head(outbox) = "subscribe"
      BY <2>1 DEF SupplierSubscribes, Hears
    <3>2. 1 \in DOMAIN outbox /\ outbox[1] = "subscribe"
      BY <1>1, <3>1
    <3> QED BY <3>2
  <2> QED BY <2>1 DEF Supplier, SupplierAccepts, SupplierAuthenticates,
         SupplierSendsData, SupplierSendsStatus, supplier
<1>6. /\ srv' = "streaming" \/ (\E i \in DOMAIN outbox' : outbox'[i] = "subscribe") =>
           state_' \in {"AUTHENTICATED", "SUBSCRIBED"}
      /\ srv' # "streaming" => data_sent' = 0
      /\ data_sent' \in Nat /\ data_sent \in Nat
  BY <1>2, <1>3, <1>4, <1>5 DEF OrderInv, IInv
<1>7. phase # "setup"
  <2>1. conn # "none"
    BY DEF Supplier, SupplierAccepts, SupplierAuthenticates, SupplierSubscribes,
         SupplierSendsData, SupplierSendsStatus
  <2> QED BY <2>1 DEF IInv
<1>8. /\ Stream \in Seq(Message) /\ Stream' = Append(Stream, msg)
      /\ \A f \in Funcs : Log(f) \in Seq(Message) /\ Log(f)' = Append(Log(f), msg)
  <2>1. Stream \in Seq(Message) /\ \A f \in Funcs : Log(f) \in Seq(Message)
    <3>1. Stream \in Seq(Message)
      BY <1>1, ConcatProperties DEF Stream
    <3>2. ASSUME NEW f \in Funcs PROVE Log(f) \in Seq(Message)
      BY <1>1, LogType
    <3> QED BY <3>1, <3>2
  <2>2. ASSUME NEW s \in Seq(Message), NEW t \in Seq(Message)
        PROVE  s \o Append(t, msg) = Append(s \o t, msg)
    <3>1. <<msg>> \in Seq(Message) /\ s \o t \in Seq(Message)
      BY ConcatProperties
    <3>2. (s \o t) \o <<msg>> = s \o (t \o <<msg>>)
      BY <3>1, ConcatAssociative
    <3> QED BY <3>1, <3>2, AppendIsConcat
  <2>3. Stream' = Append(Stream, msg)
    BY <1>1, <1>2, <1>3, <2>2 DEF Stream
  <2>4. ASSUME NEW f \in Funcs
        PROVE  Log(f)' = Append(Log(f), msg)
    <3>1. Log(f)' = delivered[f] \o Append(Stream, msg) /\ delivered[f] \in Seq(Message)
      BY <1>1, <1>2, <2>3 DEF Log
    <3> QED BY <2>1, <2>2, <3>1 DEF Log
  <2> QED BY <2>1, <2>3, <2>4
<1>9. ASSUME NEW seq \in Seq(Message)
      PROVE  /\ DOMAIN seq = 1 .. Len(seq) /\ Len(seq) \in Nat
             /\ DOMAIN Append(seq, msg) = 1 .. Len(seq) + 1
             /\ \A i \in 1 .. Len(seq) : Append(seq, msg)[i] = seq[i]
             /\ Append(seq, msg)[Len(seq) + 1] = msg
  OBVIOUS
<1>10. ASSUME NEW f \in reg_func_
       PROVE  /\ Numbered(Append(Log(f), msg), data_sent')
              /\ conn' = "open" /\ data_sent' > 0 =>
                   \E i \in Data(Append(Log(f), msg)) : Append(Log(f), msg)[i].n = data_sent'
  <2>1. /\ f \in Funcs /\ Log(f) \in Seq(Message) /\ Numbered(Log(f), data_sent)
        /\ conn = "open" /\ data_sent > 0 => \E i \in Data(Log(f)) : Log(f)[i].n = data_sent
    BY <1>8 DEF OrderInv
  <2>2. Numbered(Append(Log(f), msg), data_sent')
    BY <1>3, <1>6, <2>1, NumberedAppend
  <2>3. ASSUME conn' = "open", data_sent' > 0
        PROVE  \E i \in Data(Append(Log(f), msg)) : Append(Log(f), msg)[i].n = data_sent'
    <3>1. CASE msg.kind # "data" /\ data_sent' = data_sent
      <4>1. conn = "open"
        BY <1>3, <1>6, <2>3
      <4>2. PICK i \in Data(Log(f)) : Log(f)[i].n = data_sent
        BY <2>1, <2>3, <3>1, <4>1
      <4>3. i \in Data(Append(Log(f), msg)) /\ Append(Log(f), msg)[i] = Log(f)[i]
        BY <1>9, <2>1 DEF Data
      <4> QED BY <3>1, <4>2, <4>3
    <3>2. CASE msg = [kind |-> "data", n |-> data_sent + 1] /\ data_sent' = data_sent + 1
      <4>1. Len(Log(f)) + 1 \in Data(Append(Log(f), msg))
        BY <1>9, <2>1, <3>2 DEF Data
      <4> QED BY <1>9, <2>1, <3>2, <4>1
    <3> QED BY <1>3, <3>1, <3>2
  <2> QED BY <2>2, <2>3
<1>11. \A f \in reg_func_' :
          /\ Numbered(Log(f)', data_sent')
          /\ conn' = "open" /\ data_sent' > 0 =>
               \E i \in Data(Log(f)') : Log(f)'[i].n = data_sent'
  BY <1>2, <1>8, <1>10 DEF OrderInv
<1>12. ASSUME state_ # "SUBSCRIBED"
       PROVE  /\ \A i \in Data(Append(Stream, msg)) :
                   \E j \in DOMAIN Append(Stream, msg) :
                      j < i /\ Append(Stream, msg)[j].kind = "subscribed"
              /\ conn' = "open" /\ srv' = "streaming" =>
                   \E j \in DOMAIN Append(Stream, msg) : Append(Stream, msg)[j].kind = "subscribed"
  <2> DEFINE new == Append(Stream, msg)
  <2>1. /\ DOMAIN Stream = 1 .. Len(Stream) /\ Len(Stream) \in Nat
        /\ DOMAIN new = 1 .. Len(Stream) + 1
        /\ \A i \in 1 .. Len(Stream) : new[i] = Stream[i]
        /\ new[Len(Stream) + 1] = msg
    BY <1>8, <1>9
  <2> HIDE DEF new
  <2>2. \A j \in DOMAIN Stream : j \in DOMAIN new /\ new[j] = Stream[j] /\ j < Len(Stream) + 1
    BY <2>1
  <2>3. /\ \A i \in Data(Stream) : \E j \in DOMAIN Stream : j < i /\ Stream[j].kind = "subscribed"
        /\ conn = "open" /\ srv = "streaming" =>
             \E j \in DOMAIN Stream : Stream[j].kind = "subscribed"
    BY <1>12 DEF OrderInv
  <2>4. ASSUME NEW i \in Data(new)
        PROVE  \E j \in DOMAIN new : j < i /\ new[j].kind = "subscribed"
    <3>1. CASE i \in Data(Stream)
      BY <2>2, <2>3, <3>1
    <3>2. CASE i = Len(Stream) + 1 /\ msg.kind = "data"
      <4>1. conn = "open" /\ srv = "streaming"
        BY <1>3, <3>2
      <4> QED BY <2>2, <2>3, <3>2, <4>1
    <3> QED BY <2>1, <3>1, <3>2 DEF Data
  <2>5. ASSUME conn' = "open", srv' = "streaming"
        PROVE  \E j \in DOMAIN new : new[j].kind = "subscribed"
    <3>1. CASE srv = "streaming"
      <4>1. conn = "open"
        BY <1>3, <2>5
      <4> QED BY <2>2, <2>3, <3>1, <4>1
    <3>2. CASE msg.kind = "subscribed"
      BY <2>1, <3>2
    <3> QED BY <1>3, <2>5, <3>1, <3>2
  <2> QED BY <2>4, <2>5 DEF new
<1>13. state_' # "SUBSCRIBED" =>
         /\ \A f \in Funcs : delivered'[f] = <<>>
         /\ \A i \in Data(Stream') : \E j \in DOMAIN Stream' : j < i /\ Stream'[j].kind = "subscribed"
         /\ conn' = "open" /\ srv' = "streaming" =>
              \E j \in DOMAIN Stream' : Stream'[j].kind = "subscribed"
  BY <1>2, <1>8, <1>12 DEF OrderInv
<1> QED BY <1>1, <1>2, <1>4, <1>6, <1>7, <1>11, <1>13 DEF OrderInv

(* A client that was just constructed has been given nothing. *)
LEMMA InitOrder == Init => OrderInv
<1> SUFFICES ASSUME Init PROVE OrderInv
  OBVIOUS
<1>1. /\ readbuf = <<>> /\ inbox = <<>> /\ outbox = <<>> /\ reg_func_ = {}
      /\ srv = "none" /\ state_ = "INIT" /\ conn = "none" /\ data_sent = 0
      /\ delivered = [f \in Funcs |-> <<>>]
  BY DEF Init
<1>2. Stream = <<>> /\ Data(<<>>) = {} /\ DOMAIN <<>> = {}
  BY <1>1 DEF Stream, Data
<1> QED BY <1>1, <1>2 DEF OrderInv

(* Every step keeps the order. *)
LEMMA NextOrder == IInv /\ OrderInv /\ [Next]_vars => OrderInv'
<1> SUFFICES ASSUME IInv, OrderInv, [Next]_vars PROVE OrderInv'
  OBVIOUS
<1>1. CASE \/ \E auth \in {"valid", "invalid"} : SetAuthentication(auth)
           \/ \E f \in Funcs : RegisterFunc(f) \/ UnregisterFunc(f)
           \/ Run
  BY <1>1, SetupOrder
<1>2. CASE OnMessage
  BY <1>2, OnMessageOrder
<1>3. CASE Read \/ ConnectionLost
  BY <1>3, TransportOrder
<1>4. CASE Supplier
  BY <1>4, SupplierOrder
<1>5. CASE RunReturns \/ FuncCrashes \/ UNCHANGED vars
  <2>1. /\ UNCHANGED <<readbuf, inbox, delivered, state_, srv, data_sent, reg_func_,
                       outbox, conn>>
        /\ phase' = "setup" => phase = "setup"
    BY <1>5 DEF RunReturns, FuncCrashes, Return, vars, client, setup, supplier, history
  <2> QED BY <2>1, OrderUnchanged
<1> QED BY <1>1, <1>2, <1>3, <1>4, <1>5 DEF Next

(* Every registered function is given the data of the supplier in order,    *)
(* without gap or repetition: DataClient::OnMessage takes every message of  *)
(* a subscribed session for data, and none before.                          *)
THEOREM SpecDataInOrder == Spec => []DataInOrder
<1>1. IInv /\ OrderInv => DataInOrder
  <2> SUFFICES ASSUME IInv, OrderInv, NEW f \in reg_func_
               PROVE  Numbered(delivered[f], data_sent)
    BY DEF DataInOrder
  <2>1. /\ f \in Funcs /\ delivered[f] \in Seq(Message)
        /\ Stream \in Seq(Message) /\ Log(f) \in Seq(Message)
        /\ Numbered(Log(f), data_sent)
    BY LogType DEF IInv, OrderInv
  <2>2. /\ Len(delivered[f]) <= Len(Log(f))
        /\ \A i \in 1 .. Len(delivered[f]) : delivered[f][i] = Log(f)[i]
    <3>1. /\ Len(Log(f)) = Len(delivered[f]) + Len(Stream)
          /\ \A i \in 1 .. Len(delivered[f]) + Len(Stream) :
               Log(f)[i] = IF i <= Len(delivered[f]) THEN delivered[f][i]
                           ELSE Stream[i - Len(delivered[f])]
      BY <2>1, ConcatProperties DEF Log
    <3>2. Len(delivered[f]) \in Nat /\ Len(Stream) \in Nat
      BY <2>1
    <3> QED BY <3>1, <3>2
  <2> QED BY <2>1, <2>2, NumberedPrefix
<1>2. Init => OrderInv
  BY InitOrder
<1>3. IInv /\ OrderInv /\ [Next]_vars => OrderInv'
  BY NextOrder
<1> QED BY <1>1, <1>2, <1>3, SpecIInv, PTL DEF Spec
=============================================================================
