-------------------------- MODULE HttpClientProofs --------------------------
(***************************************************************************)
(* The locks, the connection and the nested calls of HttpClient, the names  *)
(* of the servers it verifies and the bodies it takes for whole, for any    *)
(* number of threads, any settings, and any limits on redirects and         *)
(* authorizations.                                                          *)
(***************************************************************************)
EXTENDS HttpClient, SequenceTheorems, TLAPS

(* Where a thread is: outside of a call, setting up the connection with     *)
(* socket_mutex_ locked, about to have a request in flight, or with one.    *)
Outside == {"idle", "enter"}
Setup == {"connect", "proxy", "proxy_digest", "ssl", "handshake", "relock"}
Opening == Setup \cup {"open"}
Talking == {"write", "read", "hang_up", "respond", "authorize", "finish", "fail"}

Errors == {"Success", "set", "Unknown"}
Sockets == [open : BOOLEAN, ssl : BOOLEAN, shut : BOOLEAN]

Results == [ok : BOOLEAN, error : Errors \cup {"none", "thrown"},
            body : {"none", "whole", "eof", "chunk", "cut"}]

Types ==
  /\ settings \in Settings
  /\ pc \in [Threads -> Labels]
  /\ frames \in Seq(FrameType)
  /\ request_mutex_ \in Threads \cup {NoThread}
  /\ socket_mutex_ \in Threads \cup {NoThread}
  /\ socket \in Sockets
  /\ socket_requests_in_flight_ \in Nat
  /\ socket_requests_are_from_thread_ \in Threads \cup {NoThread}
  /\ socket_should_be_closed_when_request_is_done_ \in BOOLEAN
  /\ error \in Errors
  /\ result \in Results
  /\ calls \in 0 .. MaxCalls
  /\ stops \in 0 .. MaxStops
  /\ stop_seen \in {"no", "flagged", "lost"}
  /\ thrown \in BOOLEAN

(* How deep a frame may lie: every call above the first one has cost a      *)
(* redirect or an authorization.                                            *)
Shallow(frame, depth) ==
  depth <= 1 + (RedirectMaxCount - frame.redirect_count_) + frame.authorization_count_

Nesting == \A i \in 1 .. Len(frames) : Shallow(frames[i], i)

(* Who holds the locks can be told from where the threads are. *)
Locking ==
  /\ \A t \in Threads : request_mutex_ = t <=> pc[t] \notin Outside
  /\ \A t \in Threads : socket_mutex_ = t <=> pc[t] \in Setup

(* The nested calls are in flight, but for one that is still opening the    *)
(* socket; and as long as no exception has left send nothing else is, and   *)
(* they are those of the thread that holds request_mutex_.                  *)
Counting ==
  /\ request_mutex_ = NoThread => frames = <<>> /\ (~thrown => socket_requests_in_flight_ = 0)
  /\ \A t \in Threads : request_mutex_ = t =>
       LET nested == Len(frames) - (IF pc[t] \in Opening THEN 1 ELSE 0)
       IN  /\ Len(frames) >= 1
           /\ socket_requests_in_flight_ >= nested
           /\ ~thrown =>
                /\ socket_requests_in_flight_ = nested
                /\ nested > 0 => socket_requests_are_from_thread_ = t

(* A connection is opened only where there is none, and the flag that       *)
(* stop() set is still there where the call ends.                           *)
Closing ==
  \A t \in Threads :
    /\ pc[t] = "connect" => ~socket.open
    /\ pc[t] = "proxy" => settings.proxy
    /\ stop_seen = "flagged" /\ request_mutex_ = t =>
         socket_should_be_closed_when_request_is_done_ /\ pc[t] \notin Setup

IInv ==
  /\ Types /\ Nesting /\ Locking /\ Counting /\ Closing
  /\ ClosedOnlyByItsUser
  /\ StopIsHonoured /\ NothingLeftOpen

USE HttpAssumption
USE DEF At, Goto, connection, locks, counters

-----------------------------------------------------------------------------
(* A socket that is closed, or that shutdown is called for. *)
LEMMA SocketType ==
  /\ Closed \in Sockets
  /\ \A s \in Sockets : [s EXCEPT !.shut = s.open] \in Sockets
  BY DEF Sockets, Closed

(* The bodies of a response that ReadResponse may leave. *)
LEMMA BodyType ==
  ASSUME NEW body \in UNION {Readable[f] : f \in ResponseFramings}
  PROVE  body \in {"whole", "eof", "chunk", "cut"}
<1>1. PICK f \in ResponseFramings : body \in Readable[f]
  OBVIOUS
<1>2. f \in Framings
  OBVIOUS
<1>3. PICK stream : body = Received(f, stream)
  BY <1>1, <1>2 DEF Readable
<1> QED BY <1>3 DEF Received

(* The innermost call of send. *)
LEMMA TopFacts ==
  ASSUME Types, Nesting, Len(frames) >= 1
  PROVE  /\ Len(frames) \in Nat \ {0}
         /\ Top \in FrameType
         /\ Shallow(Top, Len(frames))
  BY DEF Types, Nesting, Top

(* A sequence with another last element. *)
LEMMA ReplaceLast ==
  ASSUME NEW S, NEW seq \in Seq(S), NEW v \in S, Len(seq) >= 1,
         NEW new, new = [seq EXCEPT ![Len(seq)] = v]
  PROVE  /\ new \in Seq(S) /\ Len(new) = Len(seq)
         /\ \A i \in 1 .. Len(seq) : new[i] = IF i = Len(seq) THEN v ELSE seq[i]
<1>1. Len(seq) \in Nat /\ DOMAIN seq = 1 .. Len(seq)
  OBVIOUS
<1>2. \A i \in 1 .. Len(seq) : new[i] = IF i = Len(seq) THEN v ELSE seq[i]
  BY <1>1
<1> QED BY <1>1, <1>2

(* It is replaced by one that is no deeper. *)
LEMMA ReplaceTop ==
  ASSUME Types, Nesting, Len(frames) >= 1, NEW frame \in FrameType,
         Shallow(frame, Len(frames)),
         frames' = [frames EXCEPT ![Len(frames)] = frame]
  PROVE  frames' \in Seq(FrameType) /\ Len(frames') = Len(frames) /\ Nesting'
<1>1. /\ frames' \in Seq(FrameType) /\ Len(frames') = Len(frames)
      /\ \A i \in 1 .. Len(frames) : frames'[i] = IF i = Len(frames) THEN frame ELSE frames[i]
  BY ReplaceLast DEF Types
<1> QED BY <1>1 DEF Nesting

(* A thread waits for request_mutex_. *)
LEMMA CallPreserves ==
  ASSUME IInv, NEW t \in Threads, Call(t)
  PROVE  IInv'
<1>1. Types'
  BY DEF IInv, Types, Sockets, Errors, Labels, Setup, Talking, Call
<1>2. Nesting'
  BY DEF IInv, Types, Nesting, Call
<1>3. Locking'
  BY DEF IInv, Types, Locking, Outside, Opening, Setup, Talking, Call
<1>4. Counting'
  BY DEF IInv, Types, Locking, Counting, Outside, Opening, Setup, Talking,
    Call
<1>5. Closing'
  BY DEF IInv, Types, Locking, Counting, Closing, Outside, Opening, Setup,
    Talking, Call
<1>6. ClosedOnlyByItsUser' /\ StopIsHonoured' /\ NothingLeftOpen'
  BY DEF IInv, Types, Locking, Counting, Closing, Outside, Opening, Setup,
    Talking, ClosedOnlyByItsUser, StopIsHonoured, NothingLeftOpen, Call
<1> QED BY <1>1, <1>2, <1>3, <1>4, <1>5, <1>6 DEF IInv

(* It has got it. *)
LEMMA EnterPreserves ==
  ASSUME IInv, NEW t \in Threads, Enter(t)
  PROVE  IInv'
<1>1. Types'
  BY DEF IInv, Types, Sockets, Errors, Labels, Setup, Talking, Enter,
    Frame, FrameType, Shallow
<1>2. Nesting'
  BY DEF IInv, Types, Nesting, Enter, Frame, FrameType, Shallow
<1>3. Locking'
  BY DEF IInv, Types, Locking, Outside, Opening, Setup, Talking, Enter,
    Frame, FrameType, Shallow
<1>4. Counting'
  BY DEF IInv, Types, Locking, Counting, Outside, Opening, Setup, Talking,
    Enter, Frame, FrameType, Shallow
<1>5. Closing'
  BY DEF IInv, Types, Locking, Counting, Closing, Outside, Opening, Setup,
    Talking, Enter, Frame, FrameType, Shallow
<1>6. ClosedOnlyByItsUser' /\ StopIsHonoured' /\ NothingLeftOpen'
  BY DEF IInv, Types, Locking, Counting, Closing, Outside, Opening, Setup,
    Talking, ClosedOnlyByItsUser, StopIsHonoured, NothingLeftOpen, Enter, Frame, FrameType, Shallow
<1> QED BY <1>1, <1>2, <1>3, <1>4, <1>5, <1>6 DEF IInv

(* A call with a request in flight goes on. *)
LEMMA MovePreserves ==
  ASSUME IInv, NEW t \in Threads, pc[t] \in Talking, assert_failed = "none",
         NEW label \in Talking, Goto(t, label), error' \in Errors,
         UNCHANGED <<settings, frames, locks, connection, assert_failed, result, counters>>
  PROVE  IInv'
<1>1. Types'
  BY DEF IInv, Types, Sockets, Errors, Labels, Setup, Talking
<1>2. Nesting'
  BY DEF IInv, Types, Nesting
<1>3. Locking'
  BY DEF IInv, Types, Locking, Outside, Opening, Setup, Talking
<1>4. Counting'
  BY DEF IInv, Types, Locking, Counting, Outside, Opening, Setup, Talking
<1>5. Closing'
  BY DEF IInv, Types, Locking, Counting, Closing, Outside, Opening, Setup,
    Talking
<1>6. ClosedOnlyByItsUser' /\ StopIsHonoured' /\ NothingLeftOpen'
  BY DEF IInv, Types, Locking, Counting, Closing, Outside, Opening, Setup,
    Talking, ClosedOnlyByItsUser, StopIsHonoured, NothingLeftOpen
<1> QED BY <1>1, <1>2, <1>3, <1>4, <1>5, <1>6 DEF IInv

(* A response, or another one in its place. *)
LEMMA AnswerPreserves ==
  ASSUME IInv, NEW t \in Threads, pc[t] \in Talking, assert_failed = "none",
         NEW label \in Talking, Goto(t, label),
         NEW frame \in FrameType, Shallow(frame, Len(frames)),
         frames' = [frames EXCEPT ![Len(frames)] = frame],
         UNCHANGED <<settings, locks, connection, error, assert_failed, result, counters>>
  PROVE  IInv'
<1>0. frames' \in Seq(FrameType) /\ Len(frames') = Len(frames) /\ Nesting'
  BY ReplaceTop DEF IInv, Locking, Counting, Outside, Talking
<1>1. Types'
  BY <1>0 DEF IInv, Types, Sockets, Errors, Labels, Setup, Talking
<1>2. Nesting'
  BY <1>0 DEF IInv, Types, Nesting
<1>3. Locking'
  BY DEF IInv, Types, Locking, Outside, Opening, Setup, Talking
<1>4. Counting'
  <2>1. request_mutex_ = t /\ request_mutex_' = t /\ t # NoThread
    BY DEF IInv, Locking, Outside, Talking
  <2>2. pc[t] \notin Opening /\ pc'[t] \notin Opening
    BY DEF IInv, Types, Opening, Setup, Talking
  <2>3. UNCHANGED <<thrown, socket_requests_in_flight_, socket_requests_are_from_thread_>>
    OBVIOUS
  <2> QED BY <1>0, <2>1, <2>2, <2>3 DEF IInv, Counting
<1>5. Closing'
  BY DEF IInv, Types, Locking, Counting, Closing, Outside, Opening, Setup,
    Talking
<1>6. ClosedOnlyByItsUser' /\ StopIsHonoured' /\ NothingLeftOpen'
  BY DEF IInv, Types, Locking, Counting, Closing, Outside, Opening, Setup,
    Talking, ClosedOnlyByItsUser, StopIsHonoured, NothingLeftOpen
<1> QED BY <1>1, <1>2, <1>3, <1>4, <1>5, <1>6 DEF IInv

(* The connection is closed at the end of a response. *)
LEMMA HangUpPreserves ==
  ASSUME IInv, NEW t \in Threads, HangUp(t)
  PROVE  IInv'
<1>1. Types'
  BY DEF IInv, Types, Sockets, Errors, Labels, Setup, Talking, HangUp,
    CloseSocket, MayClose, Closed
<1>2. Nesting'
  BY DEF IInv, Types, Nesting, HangUp, CloseSocket, MayClose, Closed
<1>3. Locking'
  BY DEF IInv, Types, Locking, Outside, Opening, Setup, Talking, HangUp,
    CloseSocket, MayClose, Closed
<1>4. Counting'
  BY DEF IInv, Types, Locking, Counting, Outside, Opening, Setup, Talking,
    HangUp, CloseSocket, MayClose, Closed
<1>5. Closing'
  BY DEF IInv, Types, Locking, Counting, Closing, Outside, Opening, Setup,
    Talking, HangUp, CloseSocket, MayClose, Closed
<1>6. ClosedOnlyByItsUser' /\ StopIsHonoured' /\ NothingLeftOpen'
  BY DEF IInv, Types, Locking, Counting, Closing, Outside, Opening, Setup,
    Talking, ClosedOnlyByItsUser, StopIsHonoured, NothingLeftOpen, HangUp, CloseSocket, MayClose, Closed
<1> QED BY <1>1, <1>2, <1>3, <1>4, <1>5, <1>6 DEF IInv

(* A redirect or a challenge sends a request from inside the call. *)
LEMMA NestPreserves ==
  ASSUME IInv, NEW t \in Threads, pc[t] \in Talking, assert_failed = "none",
         NEW frame \in FrameType, Shallow(frame, Len(frames) + 1), Nest(t, frame)
  PROVE  IInv'
<1>0. frames' \in Seq(FrameType) /\ Len(frames') = Len(frames) + 1 /\ Nesting'
  <2>1. frames \in Seq(FrameType) /\ frames' = Append(frames, frame)
    BY DEF IInv, Types, Nest
  <2>2. /\ Len(frames) \in Nat /\ Len(frames') = Len(frames) + 1
        /\ frames' \in Seq(FrameType)
        /\ \A i \in 1 .. Len(frames) : frames'[i] = frames[i]
        /\ frames'[Len(frames) + 1] = frame
    BY <2>1
  <2>3. \A i \in 1 .. Len(frames) + 1 : i \in 1 .. Len(frames) \/ i = Len(frames) + 1
    BY <2>2
  <2> QED BY <2>2, <2>3 DEF IInv, Nesting
<1>1. Types'
  BY <1>0 DEF IInv, Types, Sockets, Errors, Labels, Setup, Talking, Nest
<1>2. Nesting'
  BY <1>0 DEF IInv, Types, Nesting, Nest
<1>3. Locking'
  BY DEF IInv, Types, Locking, Outside, Opening, Setup, Talking, Nest
<1>4. Counting'
  BY <1>0 DEF IInv, Types, Locking, Counting, Outside, Opening, Setup,
    Talking, Nest
<1>5. Closing'
  BY DEF IInv, Types, Locking, Counting, Closing, Outside, Opening, Setup,
    Talking, Nest
<1>6. ClosedOnlyByItsUser' /\ StopIsHonoured' /\ NothingLeftOpen'
  BY DEF IInv, Types, Locking, Counting, Closing, Outside, Opening, Setup,
    Talking, ClosedOnlyByItsUser, StopIsHonoured, NothingLeftOpen, Nest
<1> QED BY <1>1, <1>2, <1>3, <1>4, <1>5, <1>6 DEF IInv

(* The connection is there: the request is in flight. *)
LEMMA MarkPreserves ==
  ASSUME IInv, NEW t \in Threads, pc[t] \in Opening, assert_failed = "none",
         NEW sock \in Sockets, MarkInFlight(t, sock), stop_seen' \in {"no", "lost"},
         socket_mutex_ \in {NoThread, t},
         socket_should_be_closed_when_request_is_done_' \in BOOLEAN,
         UNCHANGED <<settings, frames, request_mutex_, error, result, calls, stops, thrown>>
  PROVE  IInv'
<1>1. Types'
  BY DEF IInv, Types, Sockets, Errors, Labels, Setup, Talking,
    MarkInFlight
<1>2. Nesting'
  BY DEF IInv, Types, Nesting, MarkInFlight
<1>3. Locking'
  BY DEF IInv, Types, Locking, Outside, Opening, Setup, Talking,
    MarkInFlight
<1>4. Counting'
  BY DEF IInv, Types, Locking, Counting, Outside, Opening, Setup, Talking,
    MarkInFlight
<1>5. Closing'
  BY DEF IInv, Types, Locking, Counting, Closing, Outside, Opening, Setup,
    Talking, MarkInFlight
<1>6. ClosedOnlyByItsUser' /\ StopIsHonoured' /\ NothingLeftOpen'
  BY DEF IInv, Types, Locking, Counting, Closing, Outside, Opening, Setup,
    Talking, ClosedOnlyByItsUser, StopIsHonoured, NothingLeftOpen, MarkInFlight
<1> QED BY <1>1, <1>2, <1>3, <1>4, <1>5, <1>6 DEF IInv

(* There is none that can be kept: a new one is needed. *)
LEMMA DropPreserves ==
  ASSUME IInv, NEW t \in Threads, At(t, "open"), socket_mutex_ = NoThread, socket_mutex_' = t, Goto(t, "connect"),
         IF socket.open
         THEN CloseSocket(t, socket_requests_in_flight_, socket_requests_are_from_thread_)
         ELSE UNCHANGED <<socket, assert_failed>>,
         socket_should_be_closed_when_request_is_done_' = FALSE,
         stop_seen' = IF stop_seen = "flagged" THEN "lost" ELSE stop_seen,
         UNCHANGED <<settings, frames, request_mutex_, error, result, calls, stops, thrown,
                     socket_requests_in_flight_, socket_requests_are_from_thread_>>
  PROVE  IInv'
<1>0. socket' \in Sockets
  BY SocketType DEF IInv, Types, CloseSocket
<1>1. Types'
  BY <1>0 DEF IInv, Types, Errors, Labels, Setup, Talking, CloseSocket,
    MayClose
<1>2. Nesting'
  BY DEF IInv, Types, Nesting, CloseSocket, MayClose, Closed
<1>3. Locking'
  BY DEF IInv, Types, Locking, Outside, Opening, Setup, Talking,
    CloseSocket, MayClose, Closed
<1>4. Counting'
  BY DEF IInv, Types, Locking, Counting, Outside, Opening, Setup, Talking,
    CloseSocket, MayClose, Closed
<1>5. Closing'
  BY DEF IInv, Types, Locking, Counting, Closing, Outside, Opening, Setup,
    Talking, CloseSocket, MayClose, Closed
<1>6. ClosedOnlyByItsUser' /\ StopIsHonoured' /\ NothingLeftOpen'
  BY DEF IInv, Types, Locking, Counting, Closing, Outside, Opening, Setup,
    Talking, ClosedOnlyByItsUser, StopIsHonoured, NothingLeftOpen, CloseSocket, MayClose, Closed
<1> QED BY <1>1, <1>2, <1>3, <1>4, <1>5, <1>6 DEF IInv

(* The first block of send. *)
LEMMA OpenPreserves ==
  ASSUME IInv, NEW t \in Threads, OpenSocket(t)
  PROVE  IInv'
<1>1. CASE socket.open /\ MarkInFlight(t, socket)
  <2>1. socket \in Sockets /\ pc[t] \in Opening /\ assert_failed = "none"
    BY DEF IInv, Types, OpenSocket, Opening
  <2>2. stop_seen' \in {"no", "lost"}
    BY DEF IInv, Types, OpenSocket
  <2> QED BY <1>1, <2>1, <2>2, MarkPreserves DEF OpenSocket
<1>2. CASE ~(socket.open /\ MarkInFlight(t, socket))
  BY <1>2, DropPreserves DEF OpenSocket
<1> QED BY <1>1, <1>2

(* The proxy has answered. *)
LEMMA SetupPreserves ==
  ASSUME IInv, NEW t \in Threads, pc[t] \in Setup, assert_failed = "none",
         NEW label \in {"proxy_digest", "ssl", "handshake", "relock"}, Goto(t, label),
         UNCHANGED <<settings, frames, locks, connection, error, assert_failed, result, counters>>
  PROVE  IInv'
<1>1. Types'
  BY DEF IInv, Types, Sockets, Errors, Labels, Setup, Talking
<1>2. Nesting'
  BY DEF IInv, Types, Nesting
<1>3. Locking'
  BY DEF IInv, Types, Locking, Outside, Opening, Setup, Talking
<1>4. Counting'
  BY DEF IInv, Types, Locking, Counting, Outside, Opening, Setup, Talking
<1>5. Closing'
  BY DEF IInv, Types, Locking, Counting, Closing, Outside, Opening, Setup,
    Talking
<1>6. ClosedOnlyByItsUser' /\ StopIsHonoured' /\ NothingLeftOpen'
  BY DEF IInv, Types, Locking, Counting, Closing, Outside, Opening, Setup,
    Talking, ClosedOnlyByItsUser, StopIsHonoured, NothingLeftOpen
<1> QED BY <1>1, <1>2, <1>3, <1>4, <1>5, <1>6 DEF IInv

(* A connection without SSL is there: next comes the proxy or SSL. *)
LEMMA ConnectedPreserves ==
  ASSUME IInv, NEW t \in Threads, pc[t] = "connect", assert_failed = "none",
         NEW label \in {"proxy", "ssl"}, label = "proxy" => settings.proxy,
         Goto(t, label), socket' = Connected,
         UNCHANGED <<settings, frames, locks, error, assert_failed, result, counters,
                     socket_requests_in_flight_, socket_requests_are_from_thread_,
                     socket_should_be_closed_when_request_is_done_>>
  PROVE  IInv'
<1>1. Types'
  BY DEF IInv, Types, Sockets, Connected, Labels
<1>2. Nesting'
  BY DEF IInv, Nesting
<1>3. Locking' /\ Counting' /\ Closing'
  BY DEF IInv, Types, Locking, Counting, Closing, Outside, Setup, Opening
<1>4. /\ ClosedOnlyByItsUser' /\ StopIsHonoured' /\ NothingLeftOpen'
  BY DEF IInv, Types, Locking, Counting, Closing, Outside, Setup, ClosedOnlyByItsUser,
         StopIsHonoured, NothingLeftOpen
<1> QED BY <1>1, <1>2, <1>3, <1>4 DEF IInv

(* A thread that is not in a call stops the client. *)
LEMMA StopPreserves ==
  ASSUME IInv, NEW t \in Threads, Stop(t)
  PROVE  IInv'
<1>0. socket' \in Sockets
  BY SocketType DEF IInv, Types, Stop, CloseSocket
<1>1. Types'
  <2>1. stops' \in 0 .. MaxStops
    BY DEF IInv, Types, Stop
  <2>2. /\ socket_should_be_closed_when_request_is_done_' \in BOOLEAN
        /\ stop_seen' \in {"no", "flagged", "lost"}
    BY DEF IInv, Types, Stop
  <2>3. UNCHANGED <<settings, pc, frames, locks, socket_requests_in_flight_,
                    socket_requests_are_from_thread_, error, result, calls, thrown>>
    BY DEF Stop
  <2> QED BY <1>0, <2>1, <2>2, <2>3 DEF IInv, Types
<1>2. Nesting'
  BY DEF IInv, Types, Nesting, Stop, InFlight, CloseSocket, MayClose,
    Closed
<1>3. Locking'
  BY DEF IInv, Types, Locking, Outside, Opening, Setup, Talking, Stop,
    InFlight, CloseSocket, MayClose, Closed
<1>4. Counting'
  BY DEF IInv, Types, Locking, Counting, Outside, Opening, Setup, Talking,
    Stop, InFlight, CloseSocket, MayClose, Closed
<1>5. Closing'
  BY DEF IInv, Types, Locking, Counting, Closing, Outside, Opening, Setup,
    Talking, Stop, InFlight, CloseSocket, MayClose, Closed
<1>6. ClosedOnlyByItsUser' /\ StopIsHonoured' /\ NothingLeftOpen'
  BY DEF IInv, Types, Locking, Counting, Closing, Outside, Opening, Setup,
    Talking, ClosedOnlyByItsUser, StopIsHonoured, NothingLeftOpen, Stop, InFlight, CloseSocket, MayClose, Closed
<1> QED BY <1>1, <1>2, <1>3, <1>4, <1>5, <1>6 DEF IInv

-----------------------------------------------------------------------------
LEMMA OneOrMore == ASSUME NEW n \in Nat, n >= 1 PROVE n = 1 \/ n > 1
  OBVIOUS

(* What is left of the nested calls when one of them returns. *)
LEMMA ReturnFacts ==
  ASSUME IInv, NEW t \in Threads, request_mutex_ = t,
         NEW ok \in BOOLEAN, NEW err \in Errors, Return(t, ok, err)
  PROVE  /\ Len(frames') = Len(frames) - 1
         /\ frames' \in Seq(FrameType) /\ Nesting'
         /\ Len(frames) > 1 =>
              /\ error' = err /\ UNCHANGED <<request_mutex_, result>>
              /\ \E label \in Talking : Goto(t, label)
         /\ Len(frames) = 1 =>
              /\ Goto(t, "idle") /\ request_mutex_' = NoThread /\ error' = "Success"
              /\ result' = [ok |-> ok, error |-> err, body |-> IF ok THEN Top.body ELSE "none"]
<1> DEFINE n == Len(frames)
           below == frames[n - 1]
<1>0. n \in Nat \ {0}
  BY TopFacts DEF IInv, Types, Counting
<1>1. /\ frames \in Seq(FrameType) /\ n \in Nat \ {0}
      /\ Top \in FrameType /\ Shallow(Top, n) /\ Nesting
  BY TopFacts DEF IInv, Types, Counting
<1>2. CASE n = 1
  <2>1. frames' = <<>> /\ <<>> \in Seq(FrameType) /\ Len(<<>>) = 0
    BY <1>2 DEF Return
  <2>2. Nesting'
    BY <2>1 DEF Nesting
  <2> QED BY <1>2, <2>1, <2>2 DEF Return
<1>3. CASE n > 1
  <2>1. /\ Below \in Seq(FrameType) /\ Len(Below) = n - 1
        /\ \A i \in 1 .. n - 1 : Below[i] = frames[i]
    BY <1>1, <1>3 DEF Below
  <2>2. below \in FrameType /\ Below[n - 1] = below /\ Shallow(below, n - 1)
    BY <1>1, <1>3, <2>1 DEF Nesting
  <2>3. PICK frame : /\ frames' = [Below EXCEPT ![n - 1] = frame]
                     /\ \/ frame = below
                        \/ frame = [below EXCEPT !.status = Top.status, !.body = Top.body]
                        \/ frame = [Top EXCEPT !.via = below.via]
    <3>1. CASE ~ok
      BY <1>3, <2>2, <3>1 DEF Return
    <3>2. CASE ok /\ Top.via = "digest"
      BY <1>3, <2>2, <3>2 DEF Return
    <3>3. CASE ok /\ Top.via # "digest"
      BY <1>3, <2>2, <3>3 DEF Return
    <3> QED BY <3>1, <3>2, <3>3
  <2>4. frame \in FrameType /\ Shallow(frame, n - 1)
    <3>1. CASE frame = below
      BY <2>2, <3>1
    <3>2. CASE frame = [below EXCEPT !.status = Top.status, !.body = Top.body]
      BY <1>1, <2>2, <3>2 DEF FrameType, Shallow
    <3>3. CASE frame = [Top EXCEPT !.via = below.via]
      <4>1. frame \in FrameType
        BY <1>1, <2>2, <3>3 DEF FrameType
      <4>2. /\ frame.redirect_count_ = Top.redirect_count_
            /\ frame.authorization_count_ = Top.authorization_count_
            /\ Top.redirect_count_ \in Nat /\ Top.authorization_count_ \in Nat
        BY <1>1, <3>3 DEF FrameType
      <4>3. Shallow(frame, n - 1)
        BY <1>1, <4>2 DEF Shallow
      <4> QED BY <4>1, <4>3
    <3> QED BY <2>3, <3>1, <3>2, <3>3
  <2>5. /\ frames' \in Seq(FrameType) /\ Len(frames') = n - 1
        /\ \A i \in 1 .. n - 1 : frames'[i] = IF i = n - 1 THEN frame ELSE Below[i]
    BY <1>1, <1>3, <2>1, <2>3, <2>4, ReplaceLast
  <2>6. Nesting'
    <3>1. \A i \in 1 .. n - 1 : Shallow(frames[i], i)
      BY <1>1 DEF Nesting
    <3>2. \A i \in 1 .. n - 1 : Shallow(frames'[i], i)
      BY <2>1, <2>4, <2>5, <3>1
    <3> QED BY <2>5, <3>2 DEF Nesting
  <2>7. \E label \in Talking : Goto(t, label)
    BY <1>3 DEF Return, Talking
  <2>8. error' = err /\ UNCHANGED <<request_mutex_, result>>
    BY <1>3 DEF Return
  <2>9. n # 1 /\ Len(frames') = n - 1 /\ frames' \in Seq(FrameType)
    BY <1>0, <1>3, <2>5
  <2> HIDE DEF n, Goto
  <2> QED BY <2>6, <2>7, <2>8, <2>9 DEF n
<1>4. n = 1 \/ n > 1
  BY <1>0
<1> QED BY <1>2, <1>3, <1>4

(* A call of send returns, with the count of requests in flight put right   *)
(* and, if it was the first one, with no connection left that should not be.*)
LEMMA ReturnPreserves ==
  ASSUME IInv, NEW t \in Threads, pc[t] \in Setup \cup {"finish", "fail"},
         assert_failed = "none",
         NEW ok \in BOOLEAN, NEW err \in Errors, Return(t, ok, err),
         socket_mutex_ \in {NoThread, t}, socket_mutex_' = NoThread,
         socket_requests_in_flight_' \in Nat,
         socket_requests_in_flight_' >= Len(frames) - 1,
         socket_requests_are_from_thread_' \in Threads \cup {NoThread},
         ~thrown => /\ socket_requests_in_flight_' = Len(frames) - 1
                    /\ Len(frames) > 1 => socket_requests_are_from_thread_' = t,
         socket' \in Sockets, ClosedOnlyByItsUser',
         Len(frames) = 1 /\ stop_seen = "flagged" => ~socket'.open,
         Len(frames) = 1 /\ ~settings.keep_alive
           /\ (settings.proxy => settings.proxy_digest) => ~socket'.open,
         UNCHANGED <<settings, counters, socket_should_be_closed_when_request_is_done_>>
  PROVE  IInv'
<1>1. /\ request_mutex_ = t /\ Len(frames) >= 1 /\ Len(frames) \in Nat
      /\ \A u \in Threads : u # t => pc[u] \in Outside
  BY DEF IInv, Types, Locking, Counting, Outside, Setup
<1>2. /\ Len(frames') = Len(frames) - 1
      /\ frames' \in Seq(FrameType) /\ Nesting'
      /\ Len(frames) > 1 =>
           /\ error' = err /\ UNCHANGED <<request_mutex_, result>>
           /\ \E label \in Talking : Goto(t, label)
      /\ Len(frames) = 1 =>
           /\ Goto(t, "idle") /\ request_mutex_' = NoThread /\ error' = "Success"
           /\ result' = [ok |-> ok, error |-> err, body |-> IF ok THEN Top.body ELSE "none"]
  BY <1>1, ReturnFacts
<1>3. pc \in [Threads -> Labels] /\ NoThread \notin Threads
  BY DEF IInv, Types
<1>4. CASE Len(frames) = 1
  <2>1. /\ pc' = [pc EXCEPT ![t] = "idle"] /\ request_mutex_' = NoThread
        /\ error' = "Success" /\ frames' = <<>>
        /\ result' = [ok |-> ok, error |-> err, body |-> IF ok THEN Top.body ELSE "none"]
    BY <1>2, <1>4
  <2>2. result' \in Results
    <3>1. Top.body \in {"whole", "eof", "chunk", "cut"}
      BY <1>1, TopFacts DEF IInv, FrameType
    <3> QED BY <2>1, <3>1 DEF Results
  <2>3. Types'
    BY <1>1, <1>2, <1>3, <1>4, <2>1, <2>2 DEF IInv, Types, Labels, Errors
  <2>4. Locking' /\ Counting' /\ Closing'
    BY <1>1, <1>3, <1>4, <2>1
       DEF IInv, Types, Locking, Counting, Closing, Outside, Setup, Opening, Talking
  <2>5. StopIsHonoured' /\ NothingLeftOpen'
    BY <1>4, <2>1 DEF StopIsHonoured, NothingLeftOpen
  <2> QED BY <1>2, <2>3, <2>4, <2>5 DEF IInv
<1>5. CASE Len(frames) > 1
  <2>1. PICK label \in Talking : pc' = [pc EXCEPT ![t] = label]
    BY <1>2, <1>5
  <2>2. error' = err /\ UNCHANGED <<request_mutex_, result>>
    BY <1>2, <1>5
  <2>3. Types'
    BY <1>1, <1>2, <1>3, <1>5, <2>1, <2>2 DEF IInv, Types, Labels, Talking, Errors
  <2>4. Locking' /\ Counting' /\ Closing'
    BY <1>1, <1>2, <1>3, <1>5, <2>1, <2>2
       DEF IInv, Types, Locking, Counting, Closing, Outside, Setup, Opening, Talking
  <2>5. StopIsHonoured' /\ NothingLeftOpen'
    BY <1>1, <1>3, <2>2 DEF IInv, StopIsHonoured, NothingLeftOpen
  <2> QED BY <1>2, <2>3, <2>4, <2>5 DEF IInv
<1>6. Len(frames) = 1 \/ Len(frames) > 1
  BY <1>1, OneOrMore
<1> QED BY <1>4, <1>5, <1>6

(* A call that has no request in flight returns. *)
LEMMA GiveUpPreserves ==
  ASSUME IInv, NEW t \in Threads, pc[t] \in Setup, assert_failed = "none",
         NEW ok \in BOOLEAN, NEW err \in Errors, GiveUp(t, ok, err),
         socket' \in Sockets, ClosedOnlyByItsUser',
         ~settings.keep_alive /\ (settings.proxy => settings.proxy_digest) => ~socket'.open,
         UNCHANGED <<settings, counters, socket_should_be_closed_when_request_is_done_>>
  PROVE  IInv'
<1>1. /\ request_mutex_ = t /\ socket_mutex_ = t /\ stop_seen # "flagged"
      /\ socket_requests_in_flight_ >= Len(frames) - 1 /\ Len(frames) \in Nat
      /\ ~thrown => /\ socket_requests_in_flight_ = Len(frames) - 1
                    /\ Len(frames) > 1 => socket_requests_are_from_thread_ = t
      /\ socket_requests_in_flight_ \in Nat
      /\ socket_requests_are_from_thread_ \in Threads \cup {NoThread}
  BY DEF IInv, Types, Locking, Counting, Closing, Outside, Setup, Opening
<1> QED BY <1>1, ReturnPreserves DEF GiveUp

(* A thread that holds socket_mutex_ may close the connection. *)
LEMMA ClosedInSetup ==
  ASSUME IInv, NEW t \in Threads, pc[t] \in Setup, UNCHANGED thrown,
         CloseSocket(t, socket_requests_in_flight_, socket_requests_are_from_thread_)
  PROVE  socket' \in Sockets /\ ~socket'.open /\ ClosedOnlyByItsUser'
<1>1. ~thrown => MayClose(t, socket_requests_in_flight_, socket_requests_are_from_thread_)
  BY DEF IInv, Types, Locking, Counting, Outside, Opening, Setup, MayClose
<1>2. ClosedOnlyByItsUser'
  BY <1>1 DEF CloseSocket, ClosedOnlyByItsUser
<1>3. socket' = Closed
  BY DEF CloseSocket
<1> QED BY <1>2, <1>3, SocketType DEF Closed

(* The second block of send. *)
LEMMA FinishPreserves ==
  ASSUME IInv, NEW t \in Threads, NEW ok \in BOOLEAN, Finish(t, ok)
  PROVE  IInv'
<1> DEFINE left == socket_requests_in_flight_ - 1
           from == IF left <= 0 THEN NoThread ELSE socket_requests_are_from_thread_
<1>1. pc[t] \in {"finish", "fail"} /\ assert_failed = "none" /\ socket_mutex_ = NoThread
  BY DEF Finish
<1>2. /\ request_mutex_ = t /\ Len(frames) >= 1 /\ Len(frames) \in Nat
      /\ socket_requests_in_flight_ \in Nat /\ socket_requests_in_flight_ >= Len(frames)
      /\ socket_requests_are_from_thread_ \in Threads \cup {NoThread}
      /\ ~thrown => /\ socket_requests_in_flight_ = Len(frames)
                    /\ socket_requests_are_from_thread_ = t
  BY <1>1 DEF IInv, Types, Locking, Counting, Outside, Setup, Opening
<1>3. /\ socket_requests_in_flight_' = left
      /\ socket_requests_are_from_thread_' = from
      /\ IF MustClose(ok) THEN CloseSocket(t, left, from) ELSE UNCHANGED <<socket, assert_failed>>
      /\ Return(t, ok, FinalError(ok))
      /\ UNCHANGED <<settings, socket_mutex_, counters,
                     socket_should_be_closed_when_request_is_done_>>
  BY <1>2 DEF Finish
<1>4. /\ left \in Nat /\ left >= Len(frames) - 1
      /\ from \in Threads \cup {NoThread}
      /\ ~thrown => /\ left = Len(frames) - 1 /\ MayClose(t, left, from)
                    /\ Len(frames) > 1 => from = t
  BY <1>2 DEF MayClose
<1> HIDE DEF left, from
<1>5. /\ socket' \in Sockets /\ ClosedOnlyByItsUser'
      /\ MustClose(ok) => ~socket'.open
  <2>1. CASE MustClose(ok)
    <3>1. CloseSocket(t, left, from)
      BY <1>3, <2>1
    <3>2. socket' = Closed /\ ClosedOnlyByItsUser'
      BY <1>3, <1>4, <3>1 DEF CloseSocket, ClosedOnlyByItsUser
    <3> QED BY <3>2, SocketType DEF Closed
  <2>2. CASE ~MustClose(ok)
    BY <1>3, <2>2 DEF IInv, Types, ClosedOnlyByItsUser
  <2> QED BY <2>1, <2>2
<1>6. /\ stop_seen = "flagged" => MustClose(ok)
      /\ ~settings.keep_alive => MustClose(ok)
  BY <1>2 DEF IInv, Closing, MustClose
<1>7. FinalError(ok) \in Errors
  BY DEF IInv, Types, FinalError, Errors
<1> QED BY <1>1, <1>3, <1>4, <1>5, <1>6, <1>7, ReturnPreserves

(* An exception goes through all nested calls of send. *)
LEMMA ThrowPreserves ==
  ASSUME IInv, NEW t \in Threads, pc[t] \in Setup \cup Talking, assert_failed = "none",
         Throw(t)
  PROVE  IInv'
<1>1. request_mutex_ = t /\ \A u \in Threads : u # t => pc[u] \in Outside
  BY DEF IInv, Types, Locking, Outside, Setup, Talking
<1>2. /\ pc' = [pc EXCEPT ![t] = "idle"] /\ pc \in [Threads -> Labels]
      /\ frames' = <<>> /\ <<>> \in Seq(FrameType) /\ Len(<<>>) = 0
      /\ request_mutex_' = NoThread /\ NoThread \notin Threads /\ thrown' = TRUE
      /\ UNCHANGED <<settings, connection, assert_failed, calls, stops, stop_seen>>
  BY DEF Throw, IInv, Types
<1>3. socket_mutex_' = NoThread
  BY <1>1 DEF Throw, IInv, Types, Locking, Outside, Setup
<1>4. Types'
  <2>1. result' \in Results /\ error' \in Errors
    BY DEF Throw, Results, Errors
  <2> QED BY <1>2, <1>3, <2>1 DEF IInv, Types, Labels
<1>5. Nesting'
  BY <1>2 DEF Nesting
<1>6. Locking' /\ Counting' /\ Closing'
  BY <1>1, <1>2, <1>3 DEF Locking, Counting, Closing, Outside, Setup
<1>7. ClosedOnlyByItsUser' /\ StopIsHonoured' /\ NothingLeftOpen'
  BY <1>2 DEF ClosedOnlyByItsUser, StopIsHonoured, NothingLeftOpen
<1> QED BY <1>4, <1>5, <1>6, <1>7 DEF IInv

-----------------------------------------------------------------------------
(* The steps that set up the connection. *)
LEMMA ConnectionPreserves ==
  ASSUME IInv, NEW t \in Threads,
         \/ ConnectFails(t) \/ Connect(t) \/ ConnectWithProxy(t) \/ AnswerProxy(t)
         \/ ProxyThrows(t) \/ SslNew(t) \/ SslNewFails(t) \/ Handshake(t)
         \/ HandshakeFails(t)
  PROVE  IInv'
<1>0. /\ {Connected, Secured} \subseteq Sockets /\ socket \in Sockets
      /\ socket_should_be_closed_when_request_is_done_ \in BOOLEAN
      /\ error \in Errors /\ "set" \in Errors
      /\ settings.proxy \in BOOLEAN
  BY DEF IInv, Types, Connected, Secured, Sockets, Errors, Setting
<1>1. ASSUME ConnectFails(t) PROVE IInv'
  <2>1. /\ pc[t] \in Setup /\ assert_failed = "none" /\ ~socket.open
        /\ UNCHANGED socket /\ ClosedOnlyByItsUser'
    BY <1>1 DEF ConnectFails, IInv, Closing, Setup, ClosedOnlyByItsUser
  <2>2. GiveUp(t, FALSE, IF settings.valid THEN "set" ELSE error)
    BY <1>1 DEF ConnectFails
  <2>3. UNCHANGED <<settings, counters, socket_should_be_closed_when_request_is_done_>>
    BY <1>1 DEF ConnectFails
  <2>4. (IF settings.valid THEN "set" ELSE error) \in Errors
    BY <1>0
  <2> HIDE DEF counters
  <2> QED BY <1>0, <2>1, <2>2, <2>3, <2>4, GiveUpPreserves
<1>2. ASSUME Connect(t) PROVE IInv'
  <2>1. /\ pc[t] = "connect" /\ assert_failed = "none" /\ socket_mutex_ = t
        /\ stop_seen \in {"no", "lost"} /\ request_mutex_ = t
    BY <1>2 DEF Connect, IInv, Types, Locking, Closing, Outside, Setup
  <2>2. CASE settings.ssl
    BY <1>0, <1>2, <2>1, <2>2, ConnectedPreserves DEF Connect
  <2>3. CASE ~settings.ssl
    BY <1>0, <1>2, <2>1, <2>3, MarkPreserves DEF Connect, Opening, Setup
  <2> QED BY <2>2, <2>3
<1>3. ASSUME ConnectWithProxy(t) PROVE IInv'
  <2>1. /\ pc[t] \in Setup /\ assert_failed = "none" /\ settings.proxy
        /\ UNCHANGED <<settings, counters, socket_should_be_closed_when_request_is_done_>>
    BY <1>3 DEF ConnectWithProxy, IInv, Closing, Setup
  <2>2. CASE ProxyFails(t)
    BY <1>0, <2>1, <2>2, ClosedInSetup, GiveUpPreserves DEF ProxyFails
  <2>3. CASE /\ GiveUp(t, TRUE, error) /\ ~settings.proxy_digest
             /\ UNCHANGED <<socket, assert_failed>>
    <3>1. ClosedOnlyByItsUser'
      BY <2>1, <2>3 DEF IInv, ClosedOnlyByItsUser
    <3> QED BY <1>0, <2>1, <2>3, <3>1, GiveUpPreserves
  <2>4. CASE /\ Goto(t, "relock") \/ Goto(t, "ssl") \/ Goto(t, "proxy_digest")
             /\ UNCHANGED <<frames, locks, connection, error, assert_failed, result>>
    BY <2>1, <2>4, SetupPreserves
  <2> QED BY <1>3, <2>2, <2>3, <2>4 DEF ConnectWithProxy
<1>4. ASSUME AnswerProxy(t) PROVE IInv'
  <2>1. /\ pc[t] \in Setup /\ assert_failed = "none"
        /\ UNCHANGED <<settings, counters, socket_should_be_closed_when_request_is_done_>>
    BY <1>4 DEF AnswerProxy, Setup
  <2>2. CASE ProxyFails(t)
    BY <1>0, <2>1, <2>2, ClosedInSetup, GiveUpPreserves DEF ProxyFails
  <2>3. CASE /\ Goto(t, "relock") \/ Goto(t, "ssl")
             /\ UNCHANGED <<frames, locks, connection, error, assert_failed, result>>
    BY <2>1, <2>3, SetupPreserves
  <2> QED BY <1>4, <2>2, <2>3 DEF AnswerProxy
<1>5. ASSUME ProxyThrows(t) PROVE IInv'
  BY <1>5, ThrowPreserves DEF ProxyThrows, Setup
<1>6. ASSUME SslNew(t) PROVE IInv'
  BY <1>6, SetupPreserves DEF SslNew, Setup
<1>7. ASSUME Handshake(t) PROVE IInv'
  <2>1. /\ pc[t] = "handshake" /\ assert_failed = "none" /\ socket_mutex_ = t
        /\ stop_seen \in {"no", "lost"} /\ request_mutex_ = t
    BY <1>7 DEF Handshake, IInv, Types, Locking, Closing, Outside, Setup
  <2> QED BY <1>0, <1>7, <2>1, MarkPreserves DEF Handshake, Opening, Setup
<1>8. ASSUME NEW err \in Errors, pc[t] \in Setup, assert_failed = "none",
             InitializeSslFails(t, err)
      PROVE  IInv'
  BY <1>8, ClosedInSetup, GiveUpPreserves DEF InitializeSslFails
<1>9. ASSUME SslNewFails(t) \/ HandshakeFails(t) PROVE IInv'
  BY <1>0, <1>8, <1>9 DEF SslNewFails, HandshakeFails, Setup
<1> QED BY <1>1, <1>2, <1>3, <1>4, <1>5, <1>6, <1>7, <1>9

(* The steps with a request in flight. *)
LEMMA TalkPreserves ==
  ASSUME IInv, NEW t \in Threads,
         \/ WriteFails(t) \/ WriteRequest(t) \/ ReadFails(t) \/ ReadResponse(t)
         \/ NotRedirected(t) \/ RedirectFails(t) \/ RedirectHere(t) \/ RedirectElsewhere(t)
         \/ RedirectThrows(t) \/ Authorize(t) \/ AuthorizeThrows(t) \/ NotAuthorized(t)
  PROVE  IInv'
<1>0. /\ assert_failed = "none"
      /\ pc[t] \in {"write", "read", "respond", "authorize"} /\ pc[t] \in Talking
      /\ error \in Errors /\ {"set", "Unknown", error} \subseteq Errors
  BY DEF WriteFails, WriteRequest, ReadFails, ReadResponse, NotRedirected, RedirectFails,
         RedirectHere, RedirectElsewhere, RedirectThrows, Authorize, AuthorizeThrows,
         NotAuthorized, Talking, IInv, Types, Errors
<1>1. /\ Len(frames) \in Nat \ {0} /\ Top \in FrameType /\ Top = frames[Len(frames)]
      /\ Shallow(Top, Len(frames))
      /\ Top.redirect_count_ \in 0 .. RedirectMaxCount
      /\ Top.authorization_count_ \in 0 .. MaxAuthorizations
  BY <1>0, TopFacts DEF IInv, Locking, Counting, Outside, FrameType, Top
<1>2. ASSUME NEW err \in Errors, Fail(t, err) PROVE IInv'
  BY <1>0, <1>2, MovePreserves DEF Fail, Talking
<1>3. ASSUME WriteRequest(t) \/ NotRedirected(t) \/ NotAuthorized(t) PROVE IInv'
  <2>1. PICK label \in {"read", "authorize", "finish"} : Goto(t, label)
    BY <1>3 DEF WriteRequest, NotRedirected, NotAuthorized
  <2>2. UNCHANGED <<settings, frames, locks, connection, error, assert_failed, result,
                    counters>>
    BY <1>3 DEF WriteRequest, NotRedirected, NotAuthorized
  <2>3. label \in Talking
    BY DEF Talking
  <2>4. error' \in Errors
    BY <1>0, <2>2
  <2> HIDE DEF locks, connection, counters, Goto
  <2> QED BY <1>0, <2>1, <2>2, <2>3, <2>4, MovePreserves DEF locks, connection, counters
<1>4. ASSUME ReadResponse(t) PROVE IInv'
  <2>1. PICK status \in Statuses, body \in UNION {Readable[f] : f \in ResponseFramings} :
           frames' = [frames EXCEPT ![Len(frames)] = [@ EXCEPT !.status = status, !.body = body]]
    BY <1>4 DEF ReadResponse
  <2> DEFINE frame == [Top EXCEPT !.status = status, !.body = body]
  <2>2. frame \in FrameType /\ Shallow(frame, Len(frames))
    <3>1. body \in {"whole", "eof", "chunk", "cut"}
      BY BodyType
    <3> QED BY <1>1, <3>1 DEF FrameType, Shallow
  <2>3. frames' = [frames EXCEPT ![Len(frames)] = frame]
    BY <1>1, <2>1
  <2>4. PICK label \in {"hang_up", "respond"} : Goto(t, label)
    BY <1>4 DEF ReadResponse
  <2>5. label \in Talking
    BY DEF Talking
  <2> HIDE DEF frame
  <2> QED BY <1>0, <1>4, <2>2, <2>3, <2>4, <2>5, AnswerPreserves DEF ReadResponse
<1>5. ASSUME RedirectHere(t) PROVE IInv'
  <2> DEFINE frame == Frame("redirect", Top.redirect_count_ - 1, Top.authorization_count_)
  <2>1. Nest(t, frame) /\ Top.redirect_count_ > 0
    BY <1>5 DEF RedirectHere
  <2>2. frame \in FrameType /\ Shallow(frame, Len(frames) + 1)
    BY <1>1, <2>1 DEF FrameType, Frame, Shallow
  <2> HIDE DEF frame
  <2> QED BY <1>0, <2>1, <2>2, NestPreserves
<1>6. ASSUME Authorize(t) PROVE IInv'
  <2> DEFINE frame == Frame("digest", Top.redirect_count_, Top.authorization_count_ + 1)
  <2>1. Nest(t, frame) /\ Top.authorization_count_ < MaxAuthorizations
    BY <1>6 DEF Authorize, MayAuthorize
  <2>2. frame \in FrameType /\ Shallow(frame, Len(frames) + 1)
    BY <1>1, <2>1 DEF FrameType, Frame, Shallow
  <2> HIDE DEF frame
  <2> QED BY <1>0, <2>1, <2>2, NestPreserves
<1>7. ASSUME RedirectElsewhere(t) PROVE IInv'
  <2>1. CASE \E err \in {"set", "Unknown", error} : Fail(t, err)
    BY <1>0, <1>2, <2>1
  <2>2. CASE ~\E err \in {"set", "Unknown", error} : Fail(t, err)
    <3>1. PICK status \in Statuses, lft \in 0 .. Top.redirect_count_ - 1 :
             frames' = [frames EXCEPT ![Len(frames)] =
                          [@ EXCEPT !.status = status, !.body = "whole",
                                    !.redirect_count_ = lft]]
      BY <1>7, <2>2 DEF RedirectElsewhere
    <3> DEFINE frame == [Top EXCEPT !.status = status, !.body = "whole",
                                    !.redirect_count_ = lft]
    <3>2. frame \in FrameType /\ Shallow(frame, Len(frames))
      <4>1. frame \in FrameType
        <5>1. lft \in 0 .. RedirectMaxCount
          BY <1>1
        <5> QED BY <1>1, <5>1 DEF FrameType
      <4>2. /\ frame.redirect_count_ = lft /\ lft < Top.redirect_count_ /\ lft \in Nat
            /\ frame.authorization_count_ = Top.authorization_count_
        BY <1>1 DEF FrameType
      <4>3. /\ Top.redirect_count_ \in Nat /\ Top.authorization_count_ \in Nat
            /\ Len(frames) \in Nat /\ RedirectMaxCount \in Nat /\ Shallow(Top, Len(frames))
        BY <1>1 DEF FrameType
      <4> HIDE DEF frame
      <4>4. Shallow(frame, Len(frames))
        BY <4>2, <4>3 DEF Shallow
      <4> QED BY <4>1, <4>4
    <3>3. frames' = [frames EXCEPT ![Len(frames)] = frame]
      BY <1>1, <3>1
    <3>4. "authorize" \in Talking
      BY DEF Talking
    <3> HIDE DEF frame
    <3> QED BY <1>0, <1>7, <2>2, <3>2, <3>3, <3>4, AnswerPreserves DEF RedirectElsewhere
  <2> QED BY <2>1, <2>2
<1>8. ASSUME RedirectThrows(t) \/ AuthorizeThrows(t) PROVE IInv'
  BY <1>0, <1>8, ThrowPreserves DEF RedirectThrows, AuthorizeThrows
<1> QED
  BY <1>0, <1>2, <1>3, <1>4, <1>5, <1>6, <1>7, <1>8
     DEF WriteFails, ReadFails, RedirectFails

-----------------------------------------------------------------------------
(* A client that has just been made. *)
LEMMA InitIInv == Init => IInv
<1> SUFFICES ASSUME Init PROVE IInv
  OBVIOUS
<1>1. frames = <<>> /\ <<>> \in Seq(FrameType) /\ Len(<<>>) = 0
  BY DEF Init
<1>2. Types
  <2>1. pc \in [Threads -> Labels]
    BY DEF Init, Labels
  <2>2. result \in Results
    BY DEF Init, Results
  <2>3. socket \in Sockets /\ error \in Errors /\ stop_seen \in {"no", "flagged", "lost"}
    BY SocketType DEF Init, Errors
  <2>4. calls \in 0 .. MaxCalls /\ stops \in 0 .. MaxStops
    BY DEF Init
  <2> QED BY <1>1, <2>1, <2>2, <2>3, <2>4 DEF Init, Types
<1>3. Nesting
  BY <1>1 DEF Nesting
<1>4. Locking /\ Counting /\ Closing
  BY <1>1 DEF Init, Locking, Counting, Closing, Outside, Setup
<1>5. ClosedOnlyByItsUser /\ StopIsHonoured /\ NothingLeftOpen
  BY DEF Init, Closed, ClosedOnlyByItsUser, StopIsHonoured, NothingLeftOpen
<1> QED BY <1>2, <1>3, <1>4, <1>5 DEF IInv

LEMMA NextIInv == IInv /\ [Next]_vars => IInv'
<1> SUFFICES ASSUME IInv, [Next]_vars PROVE IInv'
  OBVIOUS
<1>1. CASE UNCHANGED vars
  BY <1>1 DEF vars, IInv, Types, Nesting, Locking, Counting, Closing, ClosedOnlyByItsUser,
              StopIsHonoured, NothingLeftOpen
<1>2. ASSUME NEW t \in Threads, Call(t) \/ Stop(t) \/ Step(t) PROVE IInv'
  BY <1>2, CallPreserves, StopPreserves, EnterPreserves, OpenPreserves,
     ConnectionPreserves, TalkPreserves, HangUpPreserves, FinishPreserves DEF Step
<1> QED BY <1>1, <1>2 DEF Next

(* The nested calls are bounded: the innermost one is no deeper than the    *)
(* limits allow.                                                            *)
LEMMA IInvTypeOK == IInv => TypeOK
<1> SUFFICES ASSUME IInv PROVE TypeOK
  OBVIOUS
<1>1. Len(frames) \in Nat
  BY DEF IInv, Types
<1>2. Len(frames) <= RedirectMaxCount + MaxAuthorizations + 1
  <2>1. CASE Len(frames) >= 1
    BY <1>1, <2>1, TopFacts DEF IInv, FrameType, Shallow
  <2> QED BY <1>1, <2>1
<1> QED BY <1>1, <1>2 DEF IInv, Types, TypeOK, Sockets, Errors, Results

LEMMA SpecIInv == Spec => []IInv
  BY InitIInv, NextIInv, PTL DEF Spec

(* The types, and the bound of the nested calls of send. *)
THEOREM TypesHold == Spec => []TypeOK
  BY SpecIInv, IInvTypeOK, PTL

(* httplib.h:1013-1024: the assertions on who closes a connection hold. *)
THEOREM ConnectionIsItsUsers == Spec => []ClosedOnlyByItsUser
<1>1. IInv => ClosedOnlyByItsUser
  BY DEF IInv
<1> QED BY <1>1, SpecIInv, PTL

(* httplib.h:6251-6263: stop() closes the connection of a call under way,   *)
(* unless a nested call resets its flag.                                    *)
THEOREM StopsAreHonoured == Spec => []StopIsHonoured
<1>1. IInv => StopIsHonoured
  BY DEF IInv
<1> QED BY <1>1, SpecIInv, PTL

(* Without keep-alive no connection outlives its request. *)
THEOREM NoConnectionLeft == Spec => []NothingLeftOpen
<1>1. IInv => NothingLeftOpen
  BY DEF IInv
<1> QED BY <1>1, SpecIInv, PTL

(* A call that returns without success has an error, or never got past the  *)
(* set-up of its connection. *)
LEMMA ReturnTells ==
  ASSUME NEW t \in Threads, NEW ok \in BOOLEAN, NEW err \in Errors, Return(t, ok, err),
         ok \/ err # "Success"
  PROVE  request_mutex_' = request_mutex_ \/ result'.ok \/ result'.error # "Success"
  BY DEF Return

LEMMA StepTells ==
  ASSUME IInv, NEW u \in Threads, Call(u) \/ Stop(u) \/ Step(u),
         NEW t \in Threads, FailsSilently(t)
  PROVE  \/ pc[t] = "connect" /\ ~settings.valid
         \/ pc[t] = "ssl"
<1> DEFINE Tells == \E ok \in BOOLEAN, err \in Errors :
                      Return(u, ok, err) /\ (ok \/ err # "Success")
<1>0. /\ request_mutex_ = t /\ request_mutex_' = NoThread /\ NoThread \notin Threads
      /\ ~result'.ok /\ result'.error = "Success"
      /\ error \in Errors /\ "set" \in Errors
  BY DEF FailsSilently, IInv, Types, Errors
<1>1. pc[u] \notin Outside => u = t
  BY <1>0 DEF IInv, Locking
<1>2. ~Tells
  BY <1>0, ReturnTells
<1>3. CASE Call(u) \/ Stop(u) \/ Enter(u) \/ OpenSocket(u) \/ Connect(u) \/ SslNew(u)
           \/ Handshake(u)
  BY <1>0, <1>3 DEF Call, Stop, Enter, OpenSocket, Connect, SslNew, Handshake
<1>4. CASE \/ WriteFails(u) \/ WriteRequest(u) \/ ReadFails(u) \/ ReadResponse(u)
           \/ HangUp(u) \/ NotRedirected(u) \/ RedirectFails(u) \/ RedirectHere(u)
           \/ RedirectElsewhere(u) \/ Authorize(u) \/ NotAuthorized(u)
  BY <1>0, <1>4 DEF WriteFails, WriteRequest, ReadFails, ReadResponse, HangUp, NotRedirected,
     RedirectFails, RedirectHere, RedirectElsewhere, Authorize, NotAuthorized, Nest, Fail
<1>5. CASE ProxyThrows(u) \/ RedirectThrows(u) \/ AuthorizeThrows(u)
  BY <1>0, <1>5 DEF ProxyThrows, RedirectThrows, AuthorizeThrows, Throw
<1>6. CASE ConnectWithProxy(u) \/ AnswerProxy(u)
  <2>1. UNCHANGED request_mutex_ \/ Return(u, FALSE, "set") \/ Return(u, TRUE, error)
    BY <1>6 DEF ConnectWithProxy, AnswerProxy, ProxyFails, GiveUp
  <2>2. UNCHANGED request_mutex_ \/ Tells
    BY <1>0, <2>1
  <2> QED BY <1>0, <1>2, <2>2
<1>7. CASE ConnectFails(u)
  <2>1. CASE settings.valid
    <3>1. Return(u, FALSE, "set")
      BY <1>7, <2>1 DEF ConnectFails, GiveUp
    <3> QED BY <1>0, <1>2, <3>1
  <2>2. CASE ~settings.valid
    BY <1>1, <1>7, <2>2 DEF ConnectFails, Outside
  <2> QED BY <2>1, <2>2
<1>8. CASE SslNewFails(u)
  BY <1>1, <1>8 DEF SslNewFails, Outside
<1>9. CASE HandshakeFails(u)
  <2>1. Return(u, FALSE, "set")
    BY <1>9 DEF HandshakeFails, InitializeSslFails, GiveUp
  <2> QED BY <1>0, <1>2, <2>1
<1>10. CASE \E ok \in BOOLEAN : Finish(u, ok)
  <2>1. PICK ok \in BOOLEAN : Return(u, ok, FinalError(ok))
    BY <1>10 DEF Finish
  <2>2. FinalError(ok) \in Errors /\ (ok \/ FinalError(ok) # "Success")
    BY <1>0 DEF FinalError, Errors
  <2> QED BY <1>2, <2>1, <2>2
<1> QED BY <1>3, <1>4, <1>5, <1>6, <1>7, <1>8, <1>9, <1>10 DEF Step

(* A request that fails tells why, whichever of its nested calls failed,    *)
(* unless it got no SSL object for its connection. *)
THEOREM FailuresHaveErrors == Spec => FailedCallHasError
<1> DEFINE Tells == \A t \in Threads : FailsSilently(t) =>
                      \/ pc[t] = "connect" /\ ~settings.valid
                      \/ pc[t] = "ssl"
<1>1. IInv /\ [Next]_vars => [Tells]_vars
  BY StepTells DEF Next
<1> QED BY <1>1, SpecIInv, PTL DEF Spec, FailedCallHasError

-----------------------------------------------------------------------------
(* A component that check_host_name accepts stands for the host's, by the   *)
(* rule of RFC 2818.                                                        *)
LEMMA MatchStands ==
  ASSUME NEW p \in Seq(STRING), NEW h \in Seq(STRING), ComponentMatches(p, h)
  PROVE  Stands(p, h)
<1>1. CASE p = h
  BY <1>1 DEF Stands
<1>2. CASE p = <<"*">>
  <2>1. Len(p) = 1 /\ p[1] = "*" /\ Len(h) \in Nat
    BY <1>2
  <2>2. SubSeq(p, 1, 0) = <<>> /\ SubSeq(h, 1, 0) = <<>> /\ SubSeq(p, 2, 1) = <<>>
        /\ SubSeq(h, Len(h) + 1, Len(h)) = <<>>
    BY <2>1
  <2>3. 1 - 1 = 0 /\ 1 + 1 = 2 /\ Len(h) - (1 - 1) + 1 = Len(h) + 1
    BY <2>1
  <2> QED BY <2>1, <2>2, <2>3 DEF Stands
<1>3. CASE Len(p) > 0 /\ p[Len(p)] = "*" /\ h = SubSeq(p, 1, Len(p) - 1)
  <2> DEFINE star == Len(p)
  <2>1. star \in Nat \ {0}
    BY <1>3
  <2>2. Len(h) = star - 1
    <3> DEFINE q == SubSeq(p, 1, star - 1)
    <3>1. Len(q) = star - 1
      <4>1. \A i \in 1 .. star - 1 : p[i] \in STRING
        BY <2>1
      <4>2. Len(q) = IF 1 <= star - 1 THEN (star - 1) - 1 + 1 ELSE 0
        BY <2>1, <4>1, SubSeqProperties
      <4> HIDE DEF q, star
      <4> QED BY <2>1, <4>2
    <3>2. h = q
      BY <1>3
    <3> HIDE DEF q, star
    <3> QED BY <3>1, <3>2
  <2>3. SubSeq(h, 1, Len(h)) = h
    OBVIOUS
  <2>4. SubSeq(p, star + 1, Len(p)) = <<>> /\ SubSeq(h, Len(h) + 1, Len(h)) = <<>>
    OBVIOUS
  <2>5. /\ Len(h) - (Len(p) - star) + 1 = Len(h) + 1
        /\ Len(p) - 1 <= Len(h) /\ star \in 1 .. Len(p)
    BY <2>1, <2>2
  <2>6. SubSeq(p, 1, star - 1) = SubSeq(h, 1, star - 1)
    BY <1>3, <2>2, <2>3
  <2>7. SubSeq(p, star + 1, Len(p)) =
          SubSeq(h, Len(h) - (Len(p) - star) + 1, Len(h))
    BY <2>4, <2>5
  <2>8. p[star] = "*"
    BY <1>3
  <2> HIDE DEF star
  <2> QED BY <2>5, <2>6, <2>7, <2>8 DEF Stands
<1> QED BY <1>1, <1>2, <1>3 DEF ComponentMatches

(* A certificate that verify_host accepts has an identity that stands for   *)
(* the host, or a common name that does next to alternative names.          *)
LEMMA HostIsNamed ==
  ASSUME NEW certificate \in Certificates, VerifyHost(certificate)
  PROVE  \/ \E name \in Identities(certificate) : Names(name)
         \/ CommonNameDespiteAltNames(certificate)
<1>1. ASSUME NEW name \in certificate.alt_names \cup {certificate.common_name},
             CheckHostName(name)
      PROVE  Names(name)
  <2>1. name \in Seq(Seq(STRING)) /\ Host \in Seq(Seq(STRING))
    BY HostAssumption
  <2>2. \A i \in 1 .. Len(name) : name[i] \in Seq(STRING) /\ Host[i] \in Seq(STRING)
    BY <1>1, <2>1 DEF CheckHostName
  <2> QED BY <1>1, <2>2, MatchStands DEF CheckHostName, Names
<1>2. CASE WithSubjectAltName(certificate)
  BY <1>1, <1>2 DEF WithSubjectAltName, Identities
<1>3. CASE WithCommonName(certificate)
  <2>1. certificate.common_name # NoName /\ Names(certificate.common_name)
    BY <1>1, <1>3 DEF WithCommonName
  <2> QED BY <2>1 DEF Identities, CommonNameDespiteAltNames
<1> QED BY <1>2, <1>3 DEF VerifyHost

(* An SSL connection is one whose certificate was verified.                 *)
SslVerified == socket.ssl => Verified

(* Only initialize_ssl makes a connection an SSL connection.                *)
LEMMA SslStepVerifies == Types /\ SslVerified /\ [Next]_vars => SslVerified'
<1> SUFFICES ASSUME Types, SslVerified, [Next]_vars PROVE SslVerified'
  OBVIOUS
<1> DEFINE Keeps == \/ UNCHANGED socket
                    \/ socket' \in {Closed, Connected}
                    \/ socket' = [socket EXCEPT !.shut = socket.open]
                    \/ Verified
<1>1. UNCHANGED settings /\ Keeps
  <2>1. CASE UNCHANGED vars
    BY <2>1 DEF vars, connection
  <2>2. ASSUME NEW t \in Threads,
               \/ Call(t) \/ Stop(t) \/ Enter(t) \/ OpenSocket(t) \/ Connect(t)
               \/ SslNew(t) \/ Handshake(t)
        PROVE  UNCHANGED settings /\ Keeps
    BY <2>2 DEF Call, Stop, Enter, OpenSocket, Connect, SslNew, Handshake, CloseSocket,
       MarkInFlight
  <2>3. ASSUME NEW t \in Threads,
               \/ ConnectFails(t) \/ ConnectWithProxy(t) \/ AnswerProxy(t)
               \/ ProxyThrows(t) \/ SslNewFails(t) \/ HandshakeFails(t)
        PROVE  UNCHANGED settings /\ Keeps
    BY <2>3 DEF ConnectFails, ConnectWithProxy, AnswerProxy, ProxyThrows, SslNewFails,
       HandshakeFails, InitializeSslFails, CloseSocket, ProxyFails, Throw
  <2>4. ASSUME NEW t \in Threads,
               \/ WriteFails(t) \/ WriteRequest(t) \/ ReadFails(t) \/ ReadResponse(t)
               \/ HangUp(t) \/ \E ok \in BOOLEAN : Finish(t, ok)
        PROVE  UNCHANGED settings /\ Keeps
    BY <2>4 DEF WriteFails, WriteRequest, ReadFails, ReadResponse, HangUp, Finish, Fail,
       CloseSocket
  <2>5. ASSUME NEW t \in Threads,
               \/ NotRedirected(t) \/ RedirectFails(t) \/ RedirectHere(t)
               \/ RedirectElsewhere(t) \/ RedirectThrows(t) \/ Authorize(t)
               \/ AuthorizeThrows(t) \/ NotAuthorized(t)
        PROVE  UNCHANGED settings /\ Keeps
    BY <2>5 DEF NotRedirected, RedirectFails, RedirectHere, RedirectElsewhere, RedirectThrows,
       Authorize, AuthorizeThrows, NotAuthorized, Nest, Fail, Throw
  <2> HIDE DEF Keeps
  <2> QED BY <2>1, <2>2, <2>3, <2>4, <2>5 DEF Next, Step
<1>2. UNCHANGED settings => UNCHANGED Verified
  BY DEF Verified
<1> QED BY <1>1, <1>2 DEF SslVerified, Types, Sockets, Closed, Connected

(* No request is sent over SSL to a server whose certificate does not name  *)
(* the host, for any certificate and any host: by its identity, or by a     *)
(* common name next to alternative names.                                   *)
THEOREM ServersAreNamed == Spec => []ServerIsNamed
<1>1. Init => SslVerified
  BY DEF Init, SslVerified, Closed
<1>2. Types /\ SslVerified => ServerIsNamed
  BY HostIsNamed, HttpAssumption DEF Types, SslVerified, Verified, ServerIsNamed, Setting
<1>3. IInv => Types
  BY DEF IInv
<1> QED BY <1>1, <1>2, <1>3, SslStepVerifies, SpecIInv, PTL DEF Spec
-----------------------------------------------------------------------------
(* The bodies of chunked coding: one chunk that is not empty at most. *)
LEMMA ChunkedItems ==
  ASSUME NEW stream \in Streams("chunked")
  PROVE  /\ Len(stream.items) \in {2, 5} /\ stream.whole \in 0 .. Len(stream.items)
         /\ Len(stream.items) = 2 => stream.items[1] = "zero" /\ stream.items[2] = "crlf"
         /\ Len(stream.items) = 5 =>
              /\ stream.items[1] = "size" /\ stream.items[2] = "data"
              /\ stream.items[3] \in {"crlf", "junk"}
              /\ stream.items[4] = "zero" /\ stream.items[5] = "crlf"
<1>1. PICK items \in Bodies("chunked") :
        stream.items = items /\ stream.whole \in 0 .. Len(items)
  BY DEF Streams
<1>2. items \in {<<"zero", "crlf">>,
                 <<"size", "data", "crlf", "zero", "crlf">>,
                 <<"size", "data", "junk", "zero", "crlf">>}
  BY DEF Bodies
<1>3. CASE items = <<"zero", "crlf">>
  BY <1>1, <1>3
<1>4. CASE items = <<"size", "data", "crlf", "zero", "crlf">>
  BY <1>1, <1>4
<1>5. CASE items = <<"size", "data", "junk", "zero", "crlf">>
  BY <1>1, <1>5
<1> QED BY <1>2, <1>3, <1>4, <1>5

(* What the loop of read_content_chunked has seen when it returns true.     *)
(* The recursion has a solution, and one only, because a body has at most   *)
(* one chunk that is not empty.                                             *)
LEMMA ChunkedLoop ==
  ASSUME NEW stream \in Streams("chunked"), ReadChunked(stream)
  PROVE  \/ GetLine(stream, 1) = "zero" /\ GetLine(stream, 2) = "crlf"
         \/ /\ GetLine(stream, 1) = "size"
            /\ ReadWithLength(stream, 2)
            /\ GetLine(stream, 3) # "false"
            /\ GetLine(stream, 3) = "crlf" =>
                 GetLine(stream, 4) = "zero" /\ GetLine(stream, 5) = "crlf"
<1> DEFINE n == Len(stream.items)
           Loop(f) == [i \in 1 .. n + 3 |->
                CASE GetLine(stream, i) = "zero" -> GetLine(stream, i + 1) = "crlf"
                  [] GetLine(stream, i) = "size" ->
                       /\ ReadWithLength(stream, i + 1)
                       /\ GetLine(stream, i + 2) # "false"
                       /\ GetLine(stream, i + 2) = "crlf" => f[i + 3]
                  [] OTHER -> FALSE]
           last == [i \in 1 .. n + 3 |->
                      GetLine(stream, i) = "zero" /\ GetLine(stream, i + 1) = "crlf"]
<1>1. /\ stream.whole \in 0 .. n /\ n \in Nat /\ n >= 1
      /\ \A i \in 1 .. n : stream.items[i] = "size" => i = 1 /\ n = 5
      /\ n = 5 => stream.items[4] # "size"
  BY ChunkedItems
<1>2. \A i \in 1 .. n + 3 : GetLine(stream, i) = "size" => i = 1 /\ n = 5
  BY <1>1 DEF GetLine
<1>3. Loop(Loop(last)) = Loop(last)
  <2>1. ASSUME NEW i \in 1 .. n + 3 PROVE Loop(Loop(last))[i] = Loop(last)[i]
    <3>1. CASE GetLine(stream, i) = "size"
      <4>1. i = 1 /\ i + 3 \in 1 .. n + 3 /\ GetLine(stream, i + 3) # "size"
        BY <1>1, <1>2, <3>1
      <4>2. Loop(last)[i + 3] = last[i + 3]
        BY <4>1
      <4> QED BY <4>1, <4>2, <3>1
    <3>2. CASE GetLine(stream, i) # "size"
      BY <3>2
    <3> QED BY <3>1, <3>2
  <2> QED BY <2>1
<1>4. PICK chunk : chunk = Loop(chunk) /\ chunk = (CHOOSE f : f = Loop(f))
  BY <1>3
<1>5. chunk[1]
  <2>1. ReadChunked(stream) = chunk[1]
    BY <1>4 DEF ReadChunked
  <2> QED BY <2>1, Zenon
<1>9. ASSUME NEW i \in 1 .. n + 3, chunk[i]
      PROVE  \/ GetLine(stream, i) = "zero" /\ GetLine(stream, i + 1) = "crlf"
             \/ /\ GetLine(stream, i) = "size"
                /\ ReadWithLength(stream, i + 1)
                /\ GetLine(stream, i + 2) # "false"
                /\ GetLine(stream, i + 2) = "crlf" => chunk[i + 3]
  <2>1. chunk[i] = Loop(chunk)[i]
    BY <1>4
  <2>2. chunk[i] =
          CASE GetLine(stream, i) = "zero" -> GetLine(stream, i + 1) = "crlf"
            [] GetLine(stream, i) = "size" ->
                 /\ ReadWithLength(stream, i + 1)
                 /\ GetLine(stream, i + 2) # "false"
                 /\ GetLine(stream, i + 2) = "crlf" => chunk[i + 3]
            [] OTHER -> FALSE
    BY <2>1
  <2> QED BY <1>9, <2>2
<1> HIDE DEF Loop, last
<1>6. 1 \in 1 .. n + 3
  BY <1>1
<1>7. CASE GetLine(stream, 1) = "zero"
  <2>1. GetLine(stream, 2) = "crlf"
    BY <1>5, <1>6, <1>7, <1>9
  <2> QED BY <1>7, <2>1
<1>8. CASE GetLine(stream, 1) = "size"
  <2>0. n = 5
    BY <1>2, <1>6, <1>8
  <2>1. n = 5 /\ 4 \in 1 .. n + 3
    BY <2>0
  <2>2. /\ ReadWithLength(stream, 2) /\ GetLine(stream, 3) # "false"
        /\ GetLine(stream, 3) = "crlf" => chunk[4]
    BY <1>5, <1>6, <1>8, <1>9
  <2>3. ASSUME chunk[4]
        PROVE  GetLine(stream, 4) = "zero" /\ GetLine(stream, 5) = "crlf"
    <3>1. GetLine(stream, 4) # "size"
      BY <1>2, <2>1
    <3> QED BY <1>9, <2>1, <2>3, <3>1
  <2> QED BY <1>8, <2>2, <2>3
<1> QED BY <1>5, <1>6, <1>7, <1>8, <1>9

(* A body that is taken for complete is not cut off. *)
LEMMA CompleteIsNotCut ==
  ASSUME NEW framing \in Framings, NEW stream \in Streams(framing),
         ReadContent(framing, stream)
  PROVE  Received(framing, stream) # "cut"
<1>1. CASE framing = "chunked"
  <2>1. stream \in Streams("chunked")
    BY <1>1
  <2>2. ReadChunked(stream)
    BY <1>1 DEF ReadContent
  <2>3. CASE Len(stream.items) = 2
    <3>1. GetLine(stream, 1) = "zero" => GetLine(stream, 2) = "crlf"
      BY <2>1, <2>2, ChunkedLoop
    <3>2. GetLine(stream, 1) = "zero"
      BY <2>1, <2>2, <2>3, ChunkedLoop, ChunkedItems DEF GetLine
    <3>3. 2 <= stream.whole
      BY <2>1, <2>3, <3>1, <3>2, ChunkedItems DEF GetLine
    <3>4. stream.whole \in 0 .. 2
      BY <2>1, <2>3, ChunkedItems
    <3>5. IsWhole(stream)
      BY <2>3, <3>3, <3>4 DEF IsWhole
    <3> QED BY <3>5 DEF Received
  <2>4. CASE Len(stream.items) = 5
    <3>1. GetLine(stream, 1) # "zero"
      BY <2>1, <2>4, ChunkedItems DEF GetLine
    <3>2. /\ GetLine(stream, 3) # "false" /\ ReadWithLength(stream, 2)
          /\ GetLine(stream, 3) = "crlf" => GetLine(stream, 5) = "crlf"
      BY <2>1, <2>2, <3>1, ChunkedLoop
    <3>3. CASE GetLine(stream, 3) = "crlf"
      <4>1. 5 <= stream.whole
        BY <2>1, <2>4, <3>2, <3>3, ChunkedItems DEF GetLine
      <4>2. stream.whole \in 0 .. 5
        BY <2>1, <2>4, ChunkedItems
      <4>3. IsWhole(stream)
        BY <2>4, <4>1, <4>2 DEF IsWhole
      <4> QED BY <4>3 DEF Received
    <3>4. CASE GetLine(stream, 3) # "crlf"
      <4>1. stream.items[3 - 1] = "data" /\ GetLine(stream, 3) \in {"part", "junk"}
        BY <2>1, <2>4, <3>2, <3>4, ChunkedItems DEF GetLine
      <4> QED BY <1>1, <2>4, <4>1 DEF Received
    <3> QED BY <3>3, <3>4
  <2> QED BY <2>1, <2>3, <2>4, ChunkedItems
<1>2. CASE framing = "length"
  <2>1. PICK items \in {<<>>, <<"data">>} :
          stream.items = items /\ stream.whole \in 0 .. Len(items)
    BY <1>2 DEF Streams, Bodies
  <2>2. Len(<<>>) = 0 /\ Len(<<"data">>) = 1 /\ <<"data">> # <<>>
    OBVIOUS
  <2>3. IsWhole(stream)
    <3>1. CASE items = <<>>
      BY <2>1, <2>2, <3>1 DEF IsWhole
    <3>2. CASE items = <<"data">>
      <4>1. 1 <= stream.whole
        BY <1>2, <2>1, <2>2, <3>2 DEF ReadContent, ReadWithLength
      <4> QED BY <2>1, <2>2, <3>2, <4>1 DEF IsWhole
    <3> QED BY <2>1, <3>1, <3>2
  <2> QED BY <1>2, <2>3 DEF Received
<1>3. CASE framing = "close"
  <2>1. stream.ending \in Endings
    BY DEF Streams
  <2> QED BY <1>3, <2>1 DEF ReadContent, ReadWithoutLength, Received, Endings
<1>4. CASE framing = "none"
  <2>1. stream.items = <<>> /\ stream.whole \in 0 .. Len(<<>>)
    BY <1>4 DEF Streams, Bodies
  <2> QED BY <1>4, <2>1 DEF Received, IsWhole
<1> QED BY <1>1, <1>2, <1>3, <1>4 DEF Framings, ReadContent

(* No body that ReadResponse leaves is cut off. *)
LEMMA ReadBodyIsNotCut ==
  ASSUME NEW body \in UNION {Readable[f] : f \in ResponseFramings}
  PROVE  body # "cut"
<1>1. PICK f \in ResponseFramings : body \in Readable[f]
  OBVIOUS
<1>2. f \in Framings
  OBVIOUS
<1>3. PICK stream \in Streams(f) : ReadContent(f, stream) /\ body = Received(f, stream)
  BY <1>1, <1>2 DEF Readable
<1> QED BY <1>2, <1>3, CompleteIsNotCut

(* No call of send has a response whose body was cut off.                   *)
WholeInv ==
  /\ \A i \in 1 .. Len(frames) : frames[i].body # "cut"
  /\ OkMeansWhole

(* The innermost call returns: its response is the one below, or the user's.*)
LEMMA ReturnIsWhole ==
  ASSUME Types, WholeInv, Len(frames) >= 1, NEW t \in Threads,
         NEW ok \in BOOLEAN, NEW err, Return(t, ok, err)
  PROVE  WholeInv'
<1> DEFINE n == Len(frames)
<1>1. /\ frames \in Seq(FrameType) /\ n \in Nat \ {0}
      /\ \A i \in 1 .. n : frames[i] \in FrameType /\ frames[i].body # "cut"
      /\ Top = frames[n]
  BY DEF Types, WholeInv, Top
<1>2. CASE n = 1
  <2>1. frames' = <<>> /\ Len(<<>>) = 0
    BY <1>2 DEF Return
  <2>2. result' = [ok |-> ok, error |-> err, body |-> IF ok THEN Top.body ELSE "none"]
    BY <1>2 DEF Return
  <2>3. OkMeansWhole'
    BY <1>1, <2>2 DEF OkMeansWhole
  <2> QED BY <2>1, <2>3 DEF WholeInv
<1>3. CASE n > 1
  <2>1. /\ Below \in Seq(FrameType) /\ Len(Below) = n - 1
        /\ \A i \in 1 .. n - 1 : Below[i] = frames[i]
    BY <1>1, <1>3 DEF Below
  <2>2. n - 1 \in 1 .. n /\ n \in 1 .. n /\ Below[n - 1] = frames[n - 1]
    BY <1>1, <1>3, <2>1
  <2>3. PICK frame \in FrameType :
          /\ frames' = [Below EXCEPT ![n - 1] = frame]
          /\ frame.body \in {frames[n - 1].body, Top.body}
    <3>1. CASE ~ok
      BY <1>1, <1>3, <2>2, <3>1 DEF Return
    <3>2. CASE ok /\ Top.via = "digest"
      <4> DEFINE frame == [frames[n - 1] EXCEPT !.status = Top.status, !.body = Top.body]
      <4>1. frames' = [Below EXCEPT ![n - 1] = frame]
        BY <1>3, <2>2, <3>2 DEF Return
      <4>2. frame \in FrameType /\ frame.body = Top.body
        BY <1>1, <2>2 DEF FrameType
      <4> HIDE DEF frame
      <4> QED BY <4>1, <4>2
    <3>3. CASE ok /\ Top.via # "digest"
      <4> DEFINE frame == [Top EXCEPT !.via = frames[n - 1].via]
      <4>1. frames' = [Below EXCEPT ![n - 1] = frame]
        BY <1>3, <2>2, <3>3 DEF Return
      <4>2. frame \in FrameType /\ frame.body = Top.body
        BY <1>1, <2>2 DEF FrameType
      <4> HIDE DEF frame
      <4> QED BY <4>1, <4>2
    <3> QED BY <3>1, <3>2, <3>3
  <2>4. frame.body # "cut"
    BY <1>1, <2>2, <2>3
  <2>5. /\ Len(frames') = n - 1
        /\ \A i \in 1 .. n - 1 : frames'[i] = IF i = n - 1 THEN frame ELSE Below[i]
    BY <1>1, <1>3, <2>1, <2>3, ReplaceLast
  <2>6. UNCHANGED result
    BY <1>3 DEF Return
  <2>7. \A i \in 1 .. n - 1 : frames'[i].body # "cut"
    BY <1>1, <2>1, <2>4, <2>5
  <2> QED BY <2>5, <2>6, <2>7 DEF WholeInv, OkMeansWhole
<1> QED BY <1>1, <1>2, <1>3, OneOrMore

(* What the steps do to the responses: nothing, a call of send begins with  *)
(* an empty one, the innermost is set to a whole one, a call returns, or an *)
(* exception leaves them all.                                               *)
Responses ==
  \/ UNCHANGED <<frames, result>>
  \/ /\ UNCHANGED result
     /\ \E via, redirects, auths : frames' = <<Frame(via, redirects, auths)>>
  \/ /\ UNCHANGED result
     /\ \E via, redirects, auths : frames' = Append(frames, Frame(via, redirects, auths))
  \/ /\ UNCHANGED result /\ Len(frames) >= 1
     /\ \E frame \in FrameType :
          frame.body # "cut" /\ frames' = [frames EXCEPT ![Len(frames)] = frame]
  \/ /\ Len(frames) >= 1
     /\ \E t \in Threads, ok \in BOOLEAN, err \in Errors : Return(t, ok, err)
  \/ \E t \in Threads : Throw(t)

LEMMA StepsOfResponses == IInv /\ [Next]_vars => Responses
<1> SUFFICES ASSUME IInv, [Next]_vars PROVE Responses
  OBVIOUS
<1>0. \A t \in Threads : pc[t] \notin Outside => Len(frames) >= 1
  BY DEF IInv, Locking, Counting
<1>1. CASE UNCHANGED vars
  BY <1>1 DEF vars, Responses
<1>2. ASSUME NEW t \in Threads,
             \/ Call(t) \/ Stop(t) \/ OpenSocket(t) \/ Connect(t) \/ SslNew(t) \/ Handshake(t)
             \/ WriteFails(t) \/ WriteRequest(t) \/ ReadFails(t) \/ HangUp(t)
             \/ NotRedirected(t) \/ RedirectFails(t) \/ NotAuthorized(t)
      PROVE  Responses
  BY <1>2 DEF Call, Stop, OpenSocket, Connect, SslNew, Handshake, WriteFails, WriteRequest,
     ReadFails, HangUp, NotRedirected, RedirectFails, NotAuthorized, Fail, MarkInFlight,
     Responses
<1>3. ASSUME NEW t \in Threads, Enter(t) \/ RedirectHere(t) \/ Authorize(t)
      PROVE  Responses
  BY <1>3 DEF Enter, RedirectHere, Authorize, Nest, Responses
<1>4. ASSUME NEW t \in Threads,
             \/ ConnectFails(t) \/ ConnectWithProxy(t) \/ AnswerProxy(t)
             \/ SslNewFails(t) \/ HandshakeFails(t)
      PROVE  Responses
  <2>1. Len(frames) >= 1 /\ error \in Errors /\ "set" \in Errors
    BY <1>0, <1>4 DEF ConnectFails, ConnectWithProxy, AnswerProxy, SslNewFails, HandshakeFails,
       Outside, IInv, Types, Errors
  <2>2. \/ UNCHANGED <<frames, result>>
        \/ \E ok \in BOOLEAN, err \in Errors : Return(t, ok, err)
    BY <1>4, <2>1 DEF ConnectFails, ConnectWithProxy, AnswerProxy, SslNewFails, HandshakeFails,
       InitializeSslFails, ProxyFails, GiveUp
  <2> QED BY <2>1, <2>2 DEF Responses
<1>5. ASSUME NEW t \in Threads, NEW ok \in BOOLEAN, Finish(t, ok)
      PROVE  Responses
  <2>1. Len(frames) >= 1 /\ FinalError(ok) \in Errors
    BY <1>0, <1>5 DEF Finish, Outside, IInv, Types, FinalError, Errors
  <2>2. Return(t, ok, FinalError(ok))
    BY <1>5 DEF Finish
  <2> QED BY <2>1, <2>2 DEF Responses
<1>6. ASSUME NEW t \in Threads, ReadResponse(t)
      PROVE  Responses
  <2>1. Len(frames) >= 1 /\ Top = frames[Len(frames)] /\ Top \in FrameType
    BY <1>0, <1>6, TopFacts DEF ReadResponse, Outside, IInv, Top
  <2>2. PICK status \in Statuses, body \in UNION {Readable[f] : f \in ResponseFramings} :
           frames' = [frames EXCEPT ![Len(frames)] = [@ EXCEPT !.status = status, !.body = body]]
    BY <1>6 DEF ReadResponse
  <2> DEFINE frame == [Top EXCEPT !.status = status, !.body = body]
  <2>3. frame \in FrameType /\ frame.body # "cut"
    <3>1. body \in {"whole", "eof", "chunk", "cut"} /\ body # "cut"
      BY BodyType, ReadBodyIsNotCut
    <3> QED BY <2>1, <3>1 DEF FrameType
  <2>4. frames' = [frames EXCEPT ![Len(frames)] = frame]
    BY <2>1, <2>2
  <2>5. UNCHANGED result
    BY <1>6 DEF ReadResponse
  <2> HIDE DEF frame
  <2> QED BY <2>1, <2>3, <2>4, <2>5 DEF Responses
<1>7. ASSUME NEW t \in Threads, RedirectElsewhere(t)
      PROVE  Responses
  <2>1. /\ Len(frames) >= 1 /\ Top = frames[Len(frames)] /\ Top \in FrameType
        /\ UNCHANGED result
    BY <1>0, <1>7, TopFacts DEF RedirectElsewhere, Fail, Outside, IInv, Top
  <2>2. CASE \E err \in {"set", "Unknown", error} : Fail(t, err)
    BY <2>2 DEF Fail, Responses
  <2>3. CASE ~\E err \in {"set", "Unknown", error} : Fail(t, err)
    <3>1. PICK status \in Statuses, left \in 0 .. Top.redirect_count_ - 1 :
             frames' = [frames EXCEPT ![Len(frames)] =
                          [@ EXCEPT !.status = status, !.body = "whole",
                                    !.redirect_count_ = left]]
      BY <1>7, <2>3 DEF RedirectElsewhere
    <3> DEFINE frame == [Top EXCEPT !.status = status, !.body = "whole",
                                    !.redirect_count_ = left]
    <3>2. left \in 0 .. RedirectMaxCount
      BY <2>1 DEF FrameType
    <3>3. frame \in FrameType /\ frame.body # "cut"
      BY <2>1, <3>2 DEF FrameType
    <3>4. frames' = [frames EXCEPT ![Len(frames)] = frame]
      BY <2>1, <3>1
    <3> HIDE DEF frame
    <3> QED BY <2>1, <3>3, <3>4 DEF Responses
  <2> QED BY <2>2, <2>3
<1>8. ASSUME NEW t \in Threads, ProxyThrows(t) \/ RedirectThrows(t) \/ AuthorizeThrows(t)
      PROVE  Responses
  BY <1>8 DEF ProxyThrows, RedirectThrows, AuthorizeThrows, Responses
<1> QED BY <1>1, <1>2, <1>3, <1>4, <1>5, <1>6, <1>7, <1>8 DEF Next, Step

LEMMA NextWholeInv == IInv /\ WholeInv /\ [Next]_vars => WholeInv'
<1> SUFFICES ASSUME IInv, WholeInv, [Next]_vars PROVE WholeInv'
  OBVIOUS
<1>0. Responses /\ Types /\ frames \in Seq(FrameType) /\ Len(frames) \in Nat
  BY StepsOfResponses DEF IInv, Types
<1>1. CASE UNCHANGED <<frames, result>>
  BY <1>1 DEF WholeInv, OkMeansWhole
<1>2. ASSUME UNCHANGED result, NEW via, NEW redirects, NEW auths,
             frames' = <<Frame(via, redirects, auths)>>
      PROVE  WholeInv'
  <2>1. Len(frames') = 1 /\ frames'[1].body = "whole"
    BY <1>2 DEF Frame
  <2> QED BY <1>2, <2>1 DEF WholeInv, OkMeansWhole
<1>3. ASSUME UNCHANGED result, NEW via, NEW redirects, NEW auths,
             frames' = Append(frames, Frame(via, redirects, auths))
      PROVE  WholeInv'
  <2>1. Frame(via, redirects, auths).body = "whole"
    BY DEF Frame
  <2>2. /\ Len(frames') = Len(frames) + 1
        /\ \A i \in 1 .. Len(frames) : frames'[i] = frames[i]
        /\ frames'[Len(frames) + 1] = Frame(via, redirects, auths)
    BY <1>0, <1>3
  <2>3. \A i \in 1 .. Len(frames) + 1 : i \in 1 .. Len(frames) \/ i = Len(frames) + 1
    BY <1>0
  <2> QED BY <1>3, <2>1, <2>2, <2>3 DEF WholeInv, OkMeansWhole
<1>4. ASSUME UNCHANGED result, Len(frames) >= 1, NEW frame \in FrameType, frame.body # "cut",
             frames' = [frames EXCEPT ![Len(frames)] = frame]
      PROVE  WholeInv'
  <2>1. /\ Len(frames') = Len(frames)
        /\ \A i \in 1 .. Len(frames) : frames'[i] = IF i = Len(frames) THEN frame ELSE frames[i]
    BY <1>0, <1>4, ReplaceLast
  <2> QED BY <1>4, <2>1 DEF WholeInv, OkMeansWhole
<1>5. ASSUME Len(frames) >= 1, NEW t \in Threads, NEW ok \in BOOLEAN, NEW err \in Errors,
             Return(t, ok, err)
      PROVE  WholeInv'
  BY <1>0, <1>5, ReturnIsWhole
<1>6. ASSUME NEW t \in Threads, Throw(t)
      PROVE  WholeInv'
  <2>1. frames' = <<>> /\ Len(<<>>) = 0 /\ ~result'.ok
    BY <1>6 DEF Throw
  <2> QED BY <2>1 DEF WholeInv, OkMeansWhole
<1> QED BY <1>0, <1>1, <1>2, <1>3, <1>4, <1>5, <1>6 DEF Responses

(* A request that ends with success has its whole body, but for the two     *)
(* exceptions of the code, whatever breaks the connection off and wherever, *)
(* also through redirects and challenges.                                   *)
THEOREM BodiesAreWhole == Spec => []OkMeansWhole
<1>1. Init => WholeInv
  <2>1. Len(<<>>) = 0
    OBVIOUS
  <2> QED BY <2>1 DEF Init, WholeInv, OkMeansWhole
<1>2. WholeInv => OkMeansWhole
  BY DEF WholeInv
<1> QED BY <1>1, <1>2, NextWholeInv, SpecIInv, PTL DEF Spec
=============================================================================
