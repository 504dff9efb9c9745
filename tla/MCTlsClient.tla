---------------------------- MODULE MCTlsClient ----------------------------
(* TlsClient with headers of two bytes and bodies of at most two. *)
EXTENDS TlsClient

\* ServerHelloDone and HelloRequest are empty; a certificate can be cut twice.
BodySizes ==
  [m \in ServerMessage |-> CASE m \in {"server_hello_done", "hello_request"} -> 0
                             [] m = "certificate" -> 2
                             [] OTHER -> 1]
=============================================================================
