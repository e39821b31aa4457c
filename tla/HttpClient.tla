----------------------------- MODULE HttpClient -----------------------------
(***************************************************************************)
(* httplib::ClientImpl and httplib::SSLClient of cpp-httplib/httplib.h: one *)
(* client object, its connection, and the threads that send requests with   *)
(* it and stop it.  alpaca::Client makes every REST call through an         *)
(* SSLClient.                                                               *)
(*                                                                          *)
(* Two locks guard the client.  request_mutex_ is recursive and is held for *)
(* a whole call, including the calls a redirect or a digest challenge sends *)
(* from inside it.  socket_mutex_ is not recursive; it is held to set up    *)
(* the connection and to close it, and free while bytes are exchanged, so   *)
(* that stop() can cut the connection off.                                  *)
(*                                                                          *)
(* settings    the client's options, the same for its whole life            *)
(* pc          what each thread is doing                                    *)
(* frames      the nested calls of send of the thread that holds            *)
(*             request_mutex_, the innermost last; via says who called send *)
(* request_mutex_, socket_mutex_   the thread that holds the lock           *)
(* socket      socket_: open is sock # INVALID_SOCKET, ssl is ssl # nullptr,*)
(*             shut is shutdown(2) called                                   *)
(* socket_requests_in_flight_, socket_requests_are_from_thread_,            *)
(* socket_should_be_closed_when_request_is_done_    as in the code          *)
(* error       the Error of the call, shared by its nested calls: "set" is  *)
(*             any other than Success and Unknown                           *)
(* assert_failed   the assertion that failed, "none" if none did            *)
(* result      what the last call returned                                  *)
(* stop_seen   history, of the call in progress: "flagged", stop() set the  *)
(*             flag; "lost", a nested send reset it                         *)
(* thrown      history: an exception has left send                          *)
(***************************************************************************)
EXTENDS HttpContent, HostName

CONSTANTS Threads, NoThread,
          Settings,            \* the configurations of the client
          ProxyReplies,        \* how a proxy may answer CONNECT
          Statuses,            \* the statuses of responses
          ResponseFramings,    \* how bodies may be delimited
          RedirectMaxCount,    \* CPPHTTPLIB_REDIRECT_MAX_COUNT: 20 in the code
          MaxAuthorizations,   \* 5 in the code
          MaxCalls,            \* bound: calls of all threads
          MaxStops             \* bound: calls of stop()

(* The options that matter here: whether the client is an SSLClient, with   *)
(* a context for it (valid), whether it verifies the server's certificate,  *)
(* keep-alive, redirects, the credentials for digest authentication, and a  *)
(* proxy with credentials of its own.  certificate is the server's.         *)
Setting == [valid : BOOLEAN, ssl : BOOLEAN, verify : BOOLEAN, keep_alive : BOOLEAN,
            follow : BOOLEAN, digest : BOOLEAN, proxy : BOOLEAN, proxy_digest : BOOLEAN,
            certificate : Certificates]

ASSUME HttpAssumption ==
  /\ NoThread \notin Threads
  /\ Settings \subseteq Setting
  /\ ProxyReplies \subseteq {"failed", "established", "challenge", "closing"}
  /\ Statuses \subseteq {"ok", "redirect", "unauthorized", "proxy_auth"}
  /\ ResponseFramings \subseteq Framings
  /\ RedirectMaxCount \in Nat
  /\ MaxAuthorizations \in Nat
  /\ MaxCalls \in Nat
  /\ MaxStops \in Nat

VARIABLES settings, pc, frames, request_mutex_, socket_mutex_, socket,
          socket_requests_in_flight_, socket_requests_are_from_thread_,
          socket_should_be_closed_when_request_is_done_,
          error, assert_failed, result, calls, stops, stop_seen, thrown

connection == <<socket, socket_requests_in_flight_, socket_requests_are_from_thread_,
                socket_should_be_closed_when_request_is_done_>>
counters == <<calls, stops, stop_seen, thrown>>
locks == <<request_mutex_, socket_mutex_>>
vars == <<settings, pc, frames, locks, connection, error, assert_failed,
          result, counters>>

Closed == [open |-> FALSE, ssl |-> FALSE, shut |-> FALSE]
Connected == [open |-> TRUE, ssl |-> FALSE, shut |-> FALSE]
Secured == [open |-> TRUE, ssl |-> TRUE, shut |-> FALSE]

(* A call of send: who made it, the limits the request carries, and the     *)
(* status and the body of res.                                              *)
Frame(via, redirects, auths) ==
  [via |-> via, redirect_count_ |-> redirects, authorization_count_ |-> auths,
   status |-> "none", body |-> "whole"]

Top == frames[Len(frames)]
Below == SubSeq(frames, 1, Len(frames) - 1)

Init ==
  /\ settings \in Settings
  /\ pc = [t \in Threads |-> "idle"]
  /\ frames = <<>>
  /\ request_mutex_ = NoThread
  /\ socket_mutex_ = NoThread
  /\ socket = Closed
  /\ socket_requests_in_flight_ = 0
  /\ socket_requests_are_from_thread_ = NoThread
  /\ socket_should_be_closed_when_request_is_done_ = FALSE
  /\ error = "Success"
  /\ assert_failed = "none"
  /\ result = [ok |-> FALSE, error |-> "none", body |-> "none"]
  /\ calls = 0
  /\ stops = 0
  /\ stop_seen = "no"
  /\ thrown = FALSE

-----------------------------------------------------------------------------
(* The guard of a step of thread t that is at label: an assertion that      *)
(* failed has ended the process.                                            *)
At(t, label) == pc[t] = label /\ assert_failed = "none"

Goto(t, label) == pc' = [pc EXCEPT ![t] = label]

(* The assertion of shutdown_ssl and close_socket: nobody else is using the *)
(* connection.                                                              *)
MayClose(t, in_flight, from) == in_flight = 0 \/ from = t

(* shutdown_ssl, shutdown_socket and close_socket, one after the other. *)
CloseSocket(t, in_flight, from) ==
  /\ socket' = Closed
  /\ assert_failed' = IF MayClose(t, in_flight, from) THEN "none" ELSE "close_in_use"

(* send returns to its caller: to handle_request or detail::redirect in the *)
(* frame below, or to the thread that made the call, releasing              *)
(* request_mutex_.                                                          *)
Return(t, ok, err) ==
  /\ IF Len(frames) > 1
     THEN /\ error' = err
          /\ frames' = [Below EXCEPT ![Len(frames) - 1] =
                          CASE ~ok -> @
                            [] ok /\ Top.via = "digest" ->      \* res = new_res
                                 [@ EXCEPT !.status = Top.status, !.body = Top.body]
                            [] ok /\ Top.via # "digest" ->      \* and req = new_req
                                 [Top EXCEPT !.via = frames[Len(frames) - 1].via]]
          /\ Goto(t, IF ~ok THEN "fail"
                     ELSE IF Top.via = "redirect" THEN "authorize" ELSE "finish")
          /\ UNCHANGED <<request_mutex_, result>>
     ELSE /\ frames' = <<>>
          /\ Goto(t, "idle")
          /\ request_mutex_' = NoThread
          /\ error' = "Success"           \* of the next call
          /\ result' = [ok |-> ok, error |-> err, body |-> IF ok THEN Top.body ELSE "none"]

(* The last part of the first block of send: the request is in flight.      *)
(* process_socket of an SSLClient asserts that there is an SSL connection.  *)
MarkInFlight(t, sock) ==
  /\ socket' = sock
  /\ socket_requests_in_flight_' = socket_requests_in_flight_ + 1
  /\ socket_requests_are_from_thread_' = t
  /\ assert_failed' =
       IF socket_requests_in_flight_ > 1 /\ socket_requests_are_from_thread_ # t
       THEN "foreign_request"
       ELSE IF settings.ssl /\ ~sock.ssl THEN "no_ssl" ELSE "none"
  /\ socket_mutex_' = NoThread
  /\ Goto(t, "write")

(* Mutant of GiveUp: an early return that leaves socket_mutex_ locked. *)
GiveUpLocked(t, ok, err) ==
  /\ Return(t, ok, err)
  /\ UNCHANGED <<socket_mutex_, socket_requests_in_flight_,
                 socket_requests_are_from_thread_>>

(* create_and_connect_socket, connect_with_proxy or initialize_ssl failed:  *)
(* send returns at once, with no request in flight and no connection.       *)
GiveUp(t, ok, err) ==
  /\ socket_mutex_' = NoThread
  /\ Return(t, ok, err)
  /\ UNCHANGED <<socket_requests_in_flight_, socket_requests_are_from_thread_>>

(* An exception goes through all nested calls of send to the thread that    *)
(* made the call.  The locks are released on the way; the requests stay     *)
(* counted as in flight, and the connection is left as it is.               *)
Throw(t) ==
  /\ frames' = <<>>
  /\ Goto(t, "idle")
  /\ request_mutex_' = NoThread
  /\ socket_mutex_' = IF socket_mutex_ = t THEN NoThread ELSE socket_mutex_
  /\ error' = "Success"
  /\ result' = [ok |-> FALSE, error |-> "thrown", body |-> "none"]
  /\ thrown' = TRUE
  /\ UNCHANGED <<settings, connection, assert_failed, calls, stops, stop_seen>>

-----------------------------------------------------------------------------
(* A thread calls Get, Post, ... and waits for request_mutex_. *)
Call(t) ==
  /\ At(t, "idle")
  /\ calls < MaxCalls
  /\ calls' = calls + 1
  /\ Goto(t, "enter")
  /\ UNCHANGED <<settings, frames, locks, connection, error, assert_failed, result,
                 stops, stop_seen, thrown>>

Enter(t) ==
  /\ At(t, "enter")
  /\ request_mutex_ = NoThread
  /\ request_mutex_' = t
  /\ frames' = <<Frame("user", RedirectMaxCount, 0)>>
  /\ stop_seen' = "no"
  /\ Goto(t, "open")
  /\ UNCHANGED <<settings, socket_mutex_, connection, error, assert_failed, result,
                 calls, stops, thrown>>

(* A nested send: request_mutex_ is recursive. *)
Nest(t, frame) ==
  /\ frames' = Append(frames, frame)
  /\ Goto(t, "open")
  /\ UNCHANGED <<settings, locks, connection, error, assert_failed, result, counters>>

(* The first block of send, up to the connection that is kept or dropped.   *)
(* select_write with no timeout says whether the socket takes bytes, which  *)
(* one the peer has closed may do.                                          *)
OpenSocket(t) ==
  /\ At(t, "open")
  /\ socket_mutex_ = NoThread
  /\ socket_should_be_closed_when_request_is_done_' = FALSE
  /\ stop_seen' = IF stop_seen = "flagged" THEN "lost" ELSE stop_seen
  /\ \/ socket.open /\ MarkInFlight(t, socket)
     \/ /\ IF socket.open
           THEN CloseSocket(t, socket_requests_in_flight_,
                            socket_requests_are_from_thread_)
           ELSE UNCHANGED <<socket, assert_failed>>
        /\ socket_mutex_' = t
        /\ Goto(t, "connect")
        /\ UNCHANGED <<socket_requests_in_flight_, socket_requests_are_from_thread_>>
  /\ UNCHANGED <<settings, frames, request_mutex_, error, result, calls, stops, thrown>>

ConnectFails(t) ==
  /\ At(t, "connect")
  /\ GiveUp(t, FALSE, IF settings.valid THEN "set" ELSE error)
  /\ UNCHANGED <<settings, socket, socket_should_be_closed_when_request_is_done_,
                 assert_failed, counters>>

(* SSLClient::create_and_connect_socket connects only when ctx_ is set. *)
Connect(t) ==
  /\ At(t, "connect")
  /\ settings.valid
  /\ IF settings.ssl
     THEN /\ socket' = Connected
          /\ Goto(t, IF settings.proxy THEN "proxy" ELSE "ssl")
          /\ UNCHANGED <<socket_mutex_, socket_requests_in_flight_,
                         socket_requests_are_from_thread_, assert_failed>>
     ELSE MarkInFlight(t, Connected)
  /\ UNCHANGED <<settings, frames, request_mutex_, error, result, counters,
                 socket_should_be_closed_when_request_is_done_>>

(* A CONNECT request that fails: the connection is closed. *)
ProxyFails(t) ==
  /\ CloseSocket(t, socket_requests_in_flight_, socket_requests_are_from_thread_)
  /\ GiveUp(t, FALSE, "set")

(* connect_with_proxy.  process_request closes the connection of a reply    *)
(* that says "Connection: close", or is of HTTP/1.0 with another reason     *)
(* than "Connection established", with lock_socket_and_shutdown_and_close;  *)
(* but send has locked socket_mutex_, and that call never returns.  A       *)
(* challenge (407) is answered if the proxy's digest credentials are set,   *)
(* else handed to the user, the connection left as it is.                   *)
ConnectWithProxy(t) ==
  /\ At(t, "proxy")
  /\ \E reply \in ProxyReplies :
       \/ /\ reply = "failed"
          /\ ProxyFails(t)
       \/ /\ reply = "closing"
          /\ Goto(t, "relock")
          /\ UNCHANGED <<frames, locks, connection, error, assert_failed, result>>
       \/ /\ reply = "established" \/ (reply = "challenge" /\ settings.proxy_digest)
          /\ \/ reply = "established" /\ Goto(t, "ssl")
             \/ reply = "challenge" /\ Goto(t, "ssl")        \* not a Digest challenge
             \/ reply = "challenge" /\ Goto(t, "proxy_digest")
          /\ UNCHANGED <<frames, locks, connection, error, assert_failed, result>>
       \/ /\ reply = "challenge" /\ ~settings.proxy_digest
          /\ GiveUp(t, TRUE, error)
          /\ UNCHANGED <<socket, assert_failed>>
  /\ UNCHANGED <<settings, socket_should_be_closed_when_request_is_done_, counters>>

(* The second CONNECT request of connect_with_proxy; the status of its      *)
(* response is not looked at.                                               *)
AnswerProxy(t) ==
  /\ At(t, "proxy_digest")
  /\ \E reply \in ProxyReplies :
       \/ /\ reply = "failed"
          /\ ProxyFails(t)
       \/ /\ reply # "failed"
          /\ Goto(t, IF reply = "closing" THEN "relock" ELSE "ssl")
          /\ UNCHANGED <<frames, locks, connection, error, assert_failed, result>>
  /\ UNCHANGED <<settings, socket_should_be_closed_when_request_is_done_, counters>>

(* make_digest_authentication_header, which both digest challenges call:    *)
(* a challenge without qop, realm or nonce makes map::at throw.             *)
ProxyThrows(t) == At(t, "proxy_digest") /\ Throw(t)

(* initialize_ssl.  Where SSL_new returns no object, ssl_new returns without*)
(* an error.                                                                *)
SslNew(t) ==
  /\ At(t, "ssl")
  /\ Goto(t, "handshake")
  /\ UNCHANGED <<settings, frames, locks, connection, error, assert_failed, result,
                 counters>>

InitializeSslFails(t, err) ==
  /\ GiveUp(t, FALSE, err)
  /\ CloseSocket(t, socket_requests_in_flight_, socket_requests_are_from_thread_)
  /\ UNCHANGED <<settings, socket_should_be_closed_when_request_is_done_, counters>>

SslNewFails(t) == At(t, "ssl") /\ InitializeSslFails(t, error)

(* The certificate is verified by OpenSSL, and must be one of the host. *)
Verified ==
  settings.verify => settings.certificate.trusted /\ VerifyHost(settings.certificate)

(* The handshake, and the server's certificate. *)
Handshake(t) ==
  /\ At(t, "handshake")
  /\ Verified
  /\ MarkInFlight(t, Secured)
  /\ UNCHANGED <<settings, frames, request_mutex_, error, result, counters,
                 socket_should_be_closed_when_request_is_done_>>

HandshakeFails(t) == At(t, "handshake") /\ InitializeSslFails(t, "set")

-----------------------------------------------------------------------------
(* handle_request returns false.  Not every false says why in error.        *)
Fail(t, err) ==
  /\ error' = err
  /\ Goto(t, "fail")
  /\ UNCHANGED <<settings, frames, locks, connection, assert_failed, result, counters>>

(* write_request: nothing can be written once stop() has shut the socket;   *)
(* a body that cannot be written sets no error.                             *)
WriteFails(t) == At(t, "write") /\ \E err \in {"set", error} : Fail(t, err)

WriteRequest(t) ==
  /\ At(t, "write")
  /\ ~socket.shut
  /\ Goto(t, "read")
  /\ UNCHANGED <<settings, frames, locks, connection, error, assert_failed, result,
                 counters>>

(* read_response_line, read_headers and read_content, with what the stream  *)
(* brings; bytes that came before the socket was shut are still read.       *)
ReadFails(t) == At(t, "read") /\ Fail(t, "set")

ReadResponse(t) ==
  /\ At(t, "read")
  /\ \E status \in Statuses, body \in UNION {Readable[f] : f \in ResponseFramings} :
       frames' = [frames EXCEPT ![Len(frames)] =
                    [@ EXCEPT !.status = status, !.body = body]]
  /\ \/ Goto(t, "hang_up")      \* "Connection: close", or HTTP/1.0
     \/ Goto(t, "respond")
  /\ UNCHANGED <<settings, locks, connection, error, assert_failed, result, counters>>

(* The end of process_request: lock_socket_and_shutdown_and_close. *)
HangUp(t) ==
  /\ At(t, "hang_up")
  /\ socket_mutex_ = NoThread
  /\ CloseSocket(t, socket_requests_in_flight_, socket_requests_are_from_thread_)
  /\ Goto(t, "respond")
  /\ UNCHANGED <<settings, frames, locks, socket_requests_in_flight_,
                 socket_requests_are_from_thread_,
                 socket_should_be_closed_when_request_is_done_, error, result, counters>>

(* The rest of handle_request: redirects, then challenges. *)
Redirected == settings.follow /\ Top.status = "redirect"

NotRedirected(t) ==
  /\ At(t, "respond")
  /\ ~Redirected
  /\ Goto(t, "authorize")
  /\ UNCHANGED <<settings, frames, locks, connection, error, assert_failed, result,
                 counters>>

(* redirect returns false: too many of them, or a location it cannot use. *)
RedirectFails(t) ==
  /\ At(t, "respond")
  /\ Redirected
  /\ Fail(t, IF Top.redirect_count_ = 0 THEN "set" ELSE error)

RedirectHere(t) ==
  /\ At(t, "respond")
  /\ Redirected
  /\ Top.redirect_count_ > 0
  /\ Nest(t, Frame("redirect", Top.redirect_count_ - 1, Top.authorization_count_))

(* Another scheme, host or port: another client object sends the request,   *)
(* with the same settings.                                                  *)
RedirectElsewhere(t) ==
  /\ At(t, "respond")
  /\ Redirected
  /\ Top.redirect_count_ > 0
  /\ \/ /\ \E status \in Statuses, left \in 0 .. Top.redirect_count_ - 1 :
             frames' = [frames EXCEPT ![Len(frames)] =
                          [@ EXCEPT !.status = status, !.body = "whole",
                                    !.redirect_count_ = left]]
        /\ Goto(t, "authorize")
        /\ UNCHANGED <<settings, locks, connection, error, assert_failed, result,
                       counters>>
     \/ \E err \in {"set", "Unknown", error} : Fail(t, err)

(* std::stoi of the location's port is out of range, or the other client    *)
(* throws.                                                                  *)
RedirectThrows(t) ==
  /\ At(t, "respond")
  /\ Redirected
  /\ Top.redirect_count_ > 0
  /\ Throw(t)

HasCredentials ==
  \/ Top.status = "unauthorized" /\ settings.digest
  \/ Top.status = "proxy_auth" /\ settings.proxy_digest

(* Mutant of MayAuthorize: the limit is forgotten. *)
MayAuthorizeAlways == HasCredentials

MayAuthorize == HasCredentials /\ Top.authorization_count_ < MaxAuthorizations

Authorize(t) ==
  /\ At(t, "authorize")
  /\ MayAuthorize
  /\ Nest(t, Frame("digest", Top.redirect_count_, Top.authorization_count_ + 1))

(* make_digest_authentication_header throws (ProxyThrows). *)
AuthorizeThrows(t) ==
  /\ At(t, "authorize")
  /\ MayAuthorize
  /\ Throw(t)

(* No challenge, no credentials, or not a Digest challenge. *)
NotAuthorized(t) ==
  /\ At(t, "authorize")
  /\ Goto(t, "finish")
  /\ UNCHANGED <<settings, frames, locks, connection, error, assert_failed, result,
                 counters>>

-----------------------------------------------------------------------------
(* Mutants of MustClose. *)
MustCloseWithoutFlag(ok) == ~settings.keep_alive \/ ~ok
MustCloseWhenAsked(ok) == socket_should_be_closed_when_request_is_done_ \/ ~ok

MustClose(ok) ==
  socket_should_be_closed_when_request_is_done_ \/ ~settings.keep_alive \/ ~ok

(* Mutant of FinalError. *)
FinalErrorAsIs(ok) == error

FinalError(ok) == IF ~ok /\ error = "Success" THEN "Unknown" ELSE error

(* The second block of send, and its return. *)
Finish(t, ok) ==
  /\ At(t, IF ok THEN "finish" ELSE "fail")
  /\ socket_mutex_ = NoThread
  /\ LET left == socket_requests_in_flight_ - 1
         from == IF left <= 0 THEN NoThread ELSE socket_requests_are_from_thread_
     IN  /\ socket_requests_in_flight_' = left
         /\ socket_requests_are_from_thread_' = from
         /\ IF left < 0
            THEN assert_failed' = "in_flight_negative" /\ UNCHANGED socket
            ELSE IF MustClose(ok) THEN CloseSocket(t, left, from)
                                  ELSE UNCHANGED <<socket, assert_failed>>
  /\ Return(t, ok, FinalError(ok))
  /\ UNCHANGED <<settings, socket_mutex_, counters,
                 socket_should_be_closed_when_request_is_done_>>

(* Mutant of InFlight, the condition of stop(). *)
InFlightMany == socket_requests_in_flight_ > 1

InFlight == socket_requests_in_flight_ > 0

(* stop(), from a thread that is not in a call. *)
Stop(t) ==
  /\ At(t, "idle")
  /\ stops < MaxStops
  /\ stops' = stops + 1
  /\ socket_mutex_ = NoThread
  /\ IF InFlight
     THEN /\ socket' = [socket EXCEPT !.shut = socket.open]
          /\ socket_should_be_closed_when_request_is_done_' = TRUE
          /\ stop_seen' = "flagged"
          /\ UNCHANGED assert_failed
     ELSE /\ CloseSocket(t, socket_requests_in_flight_, socket_requests_are_from_thread_)
          /\ UNCHANGED <<socket_should_be_closed_when_request_is_done_, stop_seen>>
  /\ UNCHANGED <<settings, pc, frames, locks, socket_requests_in_flight_,
                 socket_requests_are_from_thread_, error, result, calls, thrown>>

-----------------------------------------------------------------------------
(* The steps of a call that has begun. *)
Step(t) ==
  \/ Enter(t) \/ OpenSocket(t) \/ ConnectFails(t) \/ Connect(t)
  \/ ConnectWithProxy(t) \/ AnswerProxy(t) \/ ProxyThrows(t)
  \/ SslNew(t) \/ SslNewFails(t) \/ Handshake(t) \/ HandshakeFails(t)
  \/ WriteFails(t) \/ WriteRequest(t) \/ ReadFails(t) \/ ReadResponse(t) \/ HangUp(t)
  \/ NotRedirected(t) \/ RedirectFails(t) \/ RedirectHere(t) \/ RedirectElsewhere(t)
  \/ RedirectThrows(t) \/ Authorize(t) \/ AuthorizeThrows(t) \/ NotAuthorized(t)
  \/ \E ok \in BOOLEAN : Finish(t, ok)

Next == \E t \in Threads : Call(t) \/ Stop(t) \/ Step(t)

(* Every wait for the network has a timeout, and a lock that is free is     *)
(* taken in the end.                                                        *)
Fairness == \A t \in Threads : WF_vars(Step(t))

Spec == Init /\ [][Next]_vars /\ Fairness

-----------------------------------------------------------------------------
FrameType ==
  [via : {"user", "redirect", "digest"},
   redirect_count_ : 0 .. RedirectMaxCount,
   authorization_count_ : 0 .. MaxAuthorizations,
   status : Statuses \cup {"none"},
   body : {"whole", "eof", "chunk", "cut"}]

Labels == {"idle", "enter", "open", "connect", "proxy", "proxy_digest", "ssl",
           "handshake", "relock", "write", "read", "hang_up", "respond",
           "authorize", "finish", "fail"}

(* The nested calls of send are bounded: by the redirects and the           *)
(* authorizations a request may go through.                                 *)
TypeOK ==
  /\ settings \in Settings
  /\ pc \in [Threads -> Labels]
  /\ frames \in Seq(FrameType)
  /\ Len(frames) <= RedirectMaxCount + MaxAuthorizations + 1
  /\ request_mutex_ \in Threads \cup {NoThread}
  /\ socket_mutex_ \in Threads \cup {NoThread}
  /\ socket \in [open : BOOLEAN, ssl : BOOLEAN, shut : BOOLEAN]
  /\ socket_requests_in_flight_ \in Nat
  /\ socket_requests_are_from_thread_ \in Threads \cup {NoThread}
  /\ socket_should_be_closed_when_request_is_done_ \in BOOLEAN
  /\ error \in {"Success", "set", "Unknown"}
  /\ result.ok \in BOOLEAN
  /\ calls \in 0 .. MaxCalls
  /\ stops \in 0 .. MaxStops
  /\ stop_seen \in {"no", "flagged", "lost"}
  /\ thrown \in BOOLEAN

(* httplib.h:1013-1024, 5235-5247, 5335-5342: a connection and its SSL      *)
(* object are closed and freed only by the thread that has requests in      *)
(* flight on them, or by any thread when there are none; and the count of   *)
(* requests in flight never falls below zero.  The assertions that say so   *)
(* never fail, whatever redirects, challenges, failures and stops come, as  *)
(* long as no exception has left send: one (httplib.h:3710, 5477, 6798)     *)
(* leaves its requests counted as in flight.  Even then the count does not  *)
(* fall below zero.                                                         *)
ClosedOnlyByItsUser ==
  /\ assert_failed # "in_flight_negative"
  /\ ~thrown => assert_failed \notin {"close_in_use", "foreign_request"}

(* A request that ends with success has its whole body.  The code makes two *)
(* exceptions: a body that ends with the connection, and one that is broken *)
(* off right after a chunk.                                                 *)
OkMeansWhole == result.ok => result.body # "cut"

(* httplib.h:6251-6263: a connection that stop() was called for during a    *)
(* request is closed when the request is done, unless the request sent      *)
(* another one in between, or an exception left send.                       *)
StopIsHonoured ==
  request_mutex_ = NoThread /\ stop_seen = "flagged" /\ ~thrown => ~socket.open

(* Without keep-alive no connection outlives its request, on whatever path  *)
(* the request ends, except where a proxy's challenge is one that the       *)
(* client has no credentials for, or an exception left send.                *)
NothingLeftOpen ==
  request_mutex_ = NoThread /\ ~settings.keep_alive /\ ~thrown
      /\ (settings.proxy => settings.proxy_digest)
    => ~socket.open

(* Thread t returns from its call with a failure that has no error. *)
FailsSilently(t) ==
  /\ request_mutex_ = t /\ request_mutex_' = NoThread
  /\ ~result'.ok /\ result'.error = "Success"

(* httplib.h:5317-5330, 5373-5375: a request that fails tells why, however  *)
(* many calls are nested in it and whichever of them failed.  The code      *)
(* makes two exceptions, both before there is a connection to send on:      *)
(* there is no SSL context, or SSL_new gives no object (6369-6372).         *)
FailedCallHasError ==
  [][\A t \in Threads : FailsSilently(t) =>
       \/ pc[t] = "connect" /\ ~settings.valid
       \/ pc[t] = "ssl"]_vars

(* No request is sent over an SSL connection before the server's            *)
(* certificate was verified and names the host, also when the connection is *)
(* set up again, by a nested call or through a proxy.  The name is the      *)
(* server's identity by the rule quoted at httplib.h:6928-6940, or the      *)
(* common name although there are alternative ones (httplib.h:6947).        *)
ServerIsNamed ==
  socket.ssl /\ settings.verify =>
    /\ settings.certificate.trusted
    /\ \/ \E name \in Identities(settings.certificate) : Names(name)
       \/ CommonNameDespiteAltNames(settings.certificate)

(* Every call returns: no lock is left locked, and the nested calls end.    *)
(* There is one exception: process_request, called by connect_with_proxy    *)
(* under socket_mutex_, locks socket_mutex_ again when the proxy's reply    *)
(* closes the connection, and the thread waits for itself for ever.         *)
CallEnds ==
  \A t \in Threads :
     pc[t] # "idle" ~> \/ pc[t] = "idle" \/ assert_failed # "none"
                       \/ \E u \in Threads : pc[u] = "relock" /\ socket_mutex_ = u
=============================================================================
