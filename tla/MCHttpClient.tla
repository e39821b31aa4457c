---------------------------- MODULE MCHttpClient ----------------------------
(***************************************************************************)
(* Model checking of HttpClient: the configurations of the client, and the  *)
(* certificates of its server, whose host is "ab.c".                        *)
(***************************************************************************)
EXTENDS HttpClient

MCHost == <<<<"a", "b">>, <<"c">>>>

MCNames ==
  {MCHost, <<<<"*">>, <<"c">>>>, <<<<"a", "*">>, <<"c">>>>, <<<<"a", "b", "*">>, <<"c">>>>,
   <<<<"b">>, <<"c">>>>, <<<<"*">>>>, <<<<"*">>, MCHost[1], MCHost[2]>>}

Shown(alt_names, name) ==
  [trusted |-> TRUE, alt_names |-> alt_names, common_name |-> name]

Good == Shown({MCHost}, NoName)

(* One alternative name, a common name, or an alternative name of another   *)
(* host with a common name.                                                 *)
MCCertificates ==
  {Shown({name}, NoName) : name \in MCNames} \cup {Shown({}, name) : name \in MCNames}
  \cup {Shown({<<<<"b">>, <<"c">>>>}, name) : name \in {MCHost, <<<<"*">>>>}}
  \cup {[Good EXCEPT !.trusted = FALSE]}

Plain == [valid |-> TRUE, keep_alive |-> FALSE, follow |-> FALSE, ssl |-> FALSE,
          digest |-> FALSE, proxy |-> FALSE, proxy_digest |-> FALSE,
          verify |-> TRUE, certificate |-> Good]

(* What alpaca::Client uses. *)
AlpacaSettings == [Plain EXCEPT !.ssl = TRUE]

Demanding == [AlpacaSettings EXCEPT !.keep_alive = TRUE, !.follow = TRUE,
                                    !.digest = TRUE]

Proxied == [AlpacaSettings EXCEPT !.keep_alive = TRUE, !.proxy = TRUE,
                                  !.proxy_digest = TRUE]

MCSettings ==
  {[Plain EXCEPT !.keep_alive = TRUE], AlpacaSettings, Demanding, Proxied,
   [Demanding EXCEPT !.keep_alive = FALSE],
   [Proxied EXCEPT !.proxy_digest = FALSE],
   [AlpacaSettings EXCEPT !.valid = FALSE],
   [Proxied EXCEPT !.verify = FALSE, !.certificate.trusted = FALSE]}
  \cup {[AlpacaSettings EXCEPT !.certificate = c] : c \in MCCertificates}
=============================================================================
