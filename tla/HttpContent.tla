----------------------------- MODULE HttpContent -----------------------------
(***************************************************************************)
(* How cpp-httplib decides where the body of a response ends: read_content  *)
(* and the functions it calls.  The bytes of a body are grouped into items: *)
(*                                                                          *)
(*   "size"  a line with the size of a chunk that is not empty              *)
(*   "zero"  the line with the size 0 that ends a chunked body              *)
(*   "data"  the bytes of a chunk, or of a body that is not chunked         *)
(*   "crlf"  the line end after a chunk or after the last size              *)
(*   "junk"  a line that is something else                                  *)
(*                                                                          *)
(* A stream is what the client gets of them:                                *)
(*   items    what the server means to send                                 *)
(*   whole    how many items arrive whole                                   *)
(*   partial  a part of the next one, at least a byte of it, arrives too    *)
(*   ending   how read ends after that: "eof" (0) or "error" (-1: a         *)
(*            timeout, a reset, a receiver that cancels)                    *)
(***************************************************************************)
EXTENDS Integers, Sequences

Endings == {"eof", "error"}

(* The bodies a server may send in each framing, and one that breaks the   *)
(* rules of chunked coding after its first chunk.                           *)
Bodies(framing) ==
  CASE framing = "none"    -> {<<>>}
    [] framing = "length"  -> {<<>>, <<"data">>}
    [] framing = "close"   -> {<<>>, <<"data">>}
    [] framing = "encoded" -> {<<"data">>}
    [] framing = "chunked" -> {<<"zero", "crlf">>,
                               <<"size", "data", "crlf", "zero", "crlf">>,
                               <<"size", "data", "junk", "zero", "crlf">>}

Framings == {"none", "length", "close", "encoded", "chunked"}

Streams(framing) ==
  UNION {{[items |-> items, whole |-> whole, partial |-> partial, ending |-> ending] :
            whole \in 0 .. Len(items), partial \in BOOLEAN, ending \in Endings} :
          items \in Bodies(framing)}

IsWhole(stream) == stream.whole = Len(stream.items)

(* stream_line_reader::getline at an item: a line that the end of the       *)
(* stream cuts short is a line, if it has a byte.                           *)
GetLine(stream, i) ==
  CASE i <= stream.whole -> stream.items[i]
    [] i = stream.whole + 1 /\ i <= Len(stream.items)
       /\ stream.partial /\ stream.ending = "eof" -> "part"
    [] OTHER -> "false"

(* Mutant of ReadWithLength: the end of the stream ends the body. *)
ReadWithLengthOrEof(stream, i) == i <= stream.whole \/ stream.ending = "eof"

(* read_content_with_length, for the bytes of item i. *)
ReadWithLength(stream, i) == i <= stream.whole

(* read_content_chunked: chunk[i] is what the loop returns that is about to *)
(* parse the line of item i.  A part of a size line still parses, to a      *)
(* smaller size or to the same, but nothing follows it.  A line after a     *)
(* chunk that is not "\r\n" leaves the loop with chunk_len # 0: true.       *)
ReadChunked(stream) ==
  LET n == Len(stream.items)
      chunk[i \in 1 .. n + 3] ==
        CASE GetLine(stream, i) = "zero" -> GetLine(stream, i + 1) = "crlf"
          [] GetLine(stream, i) = "size" ->
               /\ ReadWithLength(stream, i + 1)
               /\ GetLine(stream, i + 2) # "false"
               /\ GetLine(stream, i + 2) = "crlf" => chunk[i + 3]
          [] OTHER -> FALSE
  IN  chunk[1]

(* read_content_without_length *)
ReadWithoutLength(stream) == stream.ending # "error"

(* read_content: true when the body is taken for complete.  "encoded" is a  *)
(* Content-Encoding this build cannot undo (no zlib, no brotli): refused by *)
(* prepare_content_receiver.                                                *)
ReadContent(framing, stream) ==
  CASE framing = "none"    -> TRUE
    [] framing = "encoded" -> FALSE
    [] framing = "chunked" -> ReadChunked(stream)
    [] framing = "close"   -> ReadWithoutLength(stream)
    [] framing = "length"  -> stream.items = <<>> \/ ReadWithLength(stream, 1)

(* What the caller has of a body that was taken for complete: "whole", all  *)
(* of it; "eof", what came before the connection ended; "chunk", what came  *)
(* before something that is not the line end of a chunk; or "cut".          *)
Received(framing, stream) ==
  IF framing = "chunked" /\ (\E i \in 2 .. Len(stream.items) :
        stream.items[i - 1] = "data" /\ GetLine(stream, i) \in {"part", "junk"})
  THEN "chunk"
  ELSE IF IsWhole(stream) THEN "whole"
  ELSE IF framing = "close" /\ stream.ending = "eof" THEN "eof" ELSE "cut"

(* What a body that is taken for complete may be, by framing. *)
Readable ==
  [framing \in Framings |->
     {Received(framing, stream) :
        stream \in {s \in Streams(framing) : ReadContent(framing, s)}}]
=============================================================================
