------------------------------ MODULE HostName ------------------------------
(***************************************************************************)
(* SSLClient::verify_host of cpp-httplib/httplib.h: whether a certificate   *)
(* is one of the host the client was made for.                              *)
(*                                                                          *)
(* A name is a sequence of components, "api.alpaca.markets" has three, and  *)
(* a component a sequence of characters, one of which may be "*".           *)
(*                                                                          *)
(* Left out: hosts given by an IP address, whose certificates are compared  *)
(* byte by byte; the client of this repository has names only.  alt_names   *)
(* are the alternative names of type dNSName.                               *)
(***************************************************************************)
EXTENDS Integers, Sequences

CONSTANTS Host,           \* host_components_
          Certificates    \* what the server may show

NoName == <<>>

(* trusted is what OpenSSL found, verify_result_ = X509_V_OK.               *)
ASSUME HostAssumption ==
  /\ Host \in Seq(Seq(STRING))
  /\ \A certificate \in Certificates :
       /\ certificate.trusted \in BOOLEAN
       /\ certificate.alt_names \subseteq Seq(Seq(STRING))
       /\ certificate.common_name \in Seq(Seq(STRING))

(* A component that is "*", or that ends in "*" after the whole of h:       *)
(* compare() takes h for the rest of p, not for what begins with it.        *)
ComponentMatches(p, h) ==
  \/ p = h
  \/ p = <<"*">>
  \/ /\ Len(p) > 0 /\ p[Len(p)] = "*"
     /\ h = SubSeq(p, 1, Len(p) - 1)

(* Mutant of CheckHostName: the numbers of components are not compared.     *)
CheckHostNameShort(pattern) ==
  /\ Len(pattern) <= Len(Host)
  /\ \A i \in 1 .. Len(pattern) : ComponentMatches(pattern[i], Host[i])

(* check_host_name *)
CheckHostName(pattern) ==
  /\ Len(pattern) = Len(Host)
  /\ \A i \in 1 .. Len(pattern) : ComponentMatches(pattern[i], Host[i])

WithSubjectAltName(certificate) ==
  \E name \in certificate.alt_names : CheckHostName(name)

WithCommonName(certificate) ==
  certificate.common_name # NoName /\ CheckHostName(certificate.common_name)

VerifyHost(certificate) == WithSubjectAltName(certificate) \/ WithCommonName(certificate)

-----------------------------------------------------------------------------
(* The rule that httplib.h:6936-6940 quotes from RFC 2818: "*" stands for   *)
(* any single component or component fragment.                              *)
Stands(p, h) ==
  \/ p = h
  \/ \E star \in 1 .. Len(p) :
       /\ p[star] = "*"
       /\ Len(p) - 1 <= Len(h)
       /\ SubSeq(p, 1, star - 1) = SubSeq(h, 1, star - 1)
       /\ SubSeq(p, star + 1, Len(p)) =
            SubSeq(h, Len(h) - (Len(p) - star) + 1, Len(h))

Names(pattern) ==
  Len(pattern) = Len(Host) /\ \A i \in 1 .. Len(pattern) : Stands(pattern[i], Host[i])

(* The rule that httplib.h:6928-6930 quotes: the alternative names are the  *)
(* identity of the server where there are any, else its common name.        *)
Identities(certificate) ==
  IF certificate.alt_names # {} THEN certificate.alt_names
                                ELSE {certificate.common_name} \ {NoName}

(* The exception that httplib.h:6947 makes: the common name is tried though *)
(* there are alternative names.                                             *)
CommonNameDespiteAltNames(certificate) ==
  /\ certificate.alt_names # {}
  /\ certificate.common_name # NoName
  /\ Names(certificate.common_name)
=============================================================================
