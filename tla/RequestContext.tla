--------------------------- MODULE RequestContext ---------------------------
(***************************************************************************)
(* What the filter learns about a request before it decides: the           *)
(* PqcContext of src/filters/pqc/context.h, as PqcFilter::extractPqcContext*)
(* fills it, and the AgentPolicyRequest that is built from it.             *)
(*                                                                         *)
(* Every optional string of PqcContext is set only from a non-empty value, *)
(* so absent and empty coincide: both are EmptyString.                     *)
(***************************************************************************)
EXTENDS LocalPolicyClient

ASSUME SeparatorAssumption == {"[", "]", ":"} \subseteq Token

PqcToken == {"ML_KEM", "ML_DSA", "SLH_DSA"}

\* The downstream connection: none on the callbacks, without TLS, or with it.
Connection == [kind : {"none", "plain"}]
                \cup [kind : {"tls"}, cipher : String, tls_version : String,
                      sni : String]

RequestHeaders == [method : String, path : String, host : String]

Request == [headers : RequestHeaders, connection : Connection]

Context == [pqc_capable       : BOOLEAN,
            negotiated_cipher : String,
            tls_version       : String,
            service_name      : String,
            request_method    : String,
            request_path      : String,
            fallback          : BOOLEAN]

\* A default-constructed PqcContext.
EmptyContext == [pqc_capable       |-> FALSE,
                 negotiated_cipher |-> EmptyString,
                 tls_version       |-> EmptyString,
                 service_name      |-> EmptyString,
                 request_method    |-> EmptyString,
                 request_path      |-> EmptyString,
                 fallback          |-> FALSE]

IsPqcCipherSuite(cipher) == \E word \in PqcToken : Contains(cipher, word)

\* Bug variant: the port stays part of the name.
NormalizeKeepingPort(value) == value

\* "[addr]:port" is addr; otherwise the part before the first colon.
NormalizeHostLikeValue(value) ==
  LET closing_bracket == FirstIndex(value, "]")
      colon           == FirstIndex(value, ":")
  IN IF value # EmptyString /\ value[1] = "[" /\ closing_bracket > 0
     THEN SubSeq(value, 2, closing_bracket - 1)
     ELSE IF colon > 0 THEN SubSeq(value, 1, colon - 1) ELSE value

\* The authority names the service; the SNI only where the authority did not.
ServiceName(request) ==
  LET fromHost == NormalizeHostLikeValue(request.headers.host)
  IN IF fromHost = EmptyString /\ request.connection.kind = "tls"
     THEN NormalizeHostLikeValue(request.connection.sni)
     ELSE fromHost

ExtractPqcContext(request) ==
  LET tls == request.connection.kind = "tls"
  IN [pqc_capable       |-> tls /\ IsPqcCipherSuite(request.connection.cipher),
      negotiated_cipher |-> IF tls THEN request.connection.cipher
                                   ELSE EmptyString,
      tls_version       |-> IF tls THEN request.connection.tls_version
                                   ELSE EmptyString,
      service_name      |-> ServiceName(request),
      request_method    |-> request.headers.method,
      request_path      |-> request.headers.path,
      fallback          |-> FALSE]

BuildAgentPolicyRequest(context, mode) ==
  [service_name   |-> context.service_name,
   request_method |-> context.request_method,
   request_path   |-> context.request_path,
   mode           |-> mode,
   pqc_capable    |-> context.pqc_capable,
   tls_version    |-> context.tls_version,
   cipher_suite   |-> context.negotiated_cipher]

=============================================================================
