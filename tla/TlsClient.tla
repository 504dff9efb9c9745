----------------------------- MODULE TlsClient -----------------------------
(***************************************************************************)
(* KxSChanl: the TLS 1.2 and 1.3 client behind InitializeSecurityContext,  *)
(* DecryptMessage, EncryptMessage, ApplyControlToken and                   *)
(* DeleteSecurityContext, driven by an application, against a server that  *)
(* follows the protocol.                                                   *)
(*                                                                         *)
(* The server cuts its handshake messages into records where it likes, and *)
(* the application passes in as many complete records as have arrived.     *)
(*                                                                         *)
(* Cryptography is symbolic: a key is its stage, the side that writes with *)
(* it and the transcript it was derived over; a record opens under the key *)
(* and the sequence number it was sealed with.  A handshake byte is a pair *)
(* of its message and its place in it.                                     *)
(***************************************************************************)
EXTENDS Naturals, SequencesExt

CONSTANTS
  HeaderCb,       \* bytes of a handshake message header (4 in the code)
  BodyCb,         \* bytes of the body of each message
  Suites,         \* the version and key exchange a server may choose
  SplitHeaders,   \* a record may end inside a message header
  SplitTickets,   \* a message after the handshake may span records
  MaxData         \* records of application data sent by each side

ServerMessage ==
  {"server_hello", "certificate", "server_key_exchange", "server_hello_done", "finished",
   "encrypted_extensions", "certificate_verify", "new_session_ticket", "hello_request"}

ASSUME SizeAssumption == HeaderCb \in Nat \ {0} /\ BodyCb \in [ServerMessage -> Nat]
ASSUME SuiteAssumption == Suites \subseteq {"tls12_rsa", "tls12_ecdhe", "tls13"}
ASSUME BoundAssumption == SplitHeaders \in BOOLEAN /\ SplitTickets \in BOOLEAN /\ MaxData \in Nat

VARIABLES
  ctx,        \* the security context
  call,       \* where the application's thread is
  avail,      \* records left in the input buffer of the call
  payload,    \* handshake bytes not yet read of the current record
  status,     \* what the last call returned
  srv,        \* the server
  toServer, toClient    \* records on the way

vars == <<ctx, call, avail, payload, status, srv, toServer, toClient>>

\* KXSCHANL_CONTEXT_STATE, in the order the comparisons of states rely on.
StateOrder ==
  << "SENDING_CLIENT_HELLO", "EXPECTING_SERVER_HELLO",
     "TLS1_2_EXPECTING_CERTIFICATE", "TLS1_2_EXPECTING_SERVER_KEY_EXCHANGE",
     "TLS1_2_EXPECTING_SERVER_HELLO_DONE", "TLS1_2_SENDING_CLIENT_KEY_EXCHANGE",
     "TLS1_2_SENDING_CHANGE_CIPHER_SPEC", "TLS1_2_SENDING_FINISHED",
     "TLS1_2_EXPECTING_CHANGE_CIPHER_SPEC", "TLS1_2_EXPECTING_FINISHED",
     "TLS1_3_EXPECTING_ENCRYPTED_EXTENSIONS", "TLS1_3_EXPECTING_CERTIFICATE",
     "TLS1_3_EXPECTING_CERTIFICATE_VERIFY", "TLS1_3_EXPECTING_FINISHED",
     "TLS1_3_SENDING_CHANGE_CIPHER_SPEC", "TLS1_3_SENDING_FINISHED",
     "HANDSHAKE_COMPLETE", "SENDING_CLOSE_NOTIFY", "CONNECTION_CLOSED" >>

Rank(s) == CHOOSE i \in DOMAIN StateOrder : StateOrder[i] = s

\* TlspIsHandshakeInProgress.
HandshakeInProgress(c) == Rank(c.state) < Rank("HANDSHAKE_COMPLETE")

IsInputState12(c) == c.state \in
  {"TLS1_2_EXPECTING_CERTIFICATE", "TLS1_2_EXPECTING_SERVER_KEY_EXCHANGE",
   "TLS1_2_EXPECTING_SERVER_HELLO_DONE", "TLS1_2_EXPECTING_CHANGE_CIPHER_SPEC",
   "TLS1_2_EXPECTING_FINISHED"}

IsInputState13(c) == c.state \in
  {"TLS1_3_EXPECTING_ENCRYPTED_EXTENSIONS", "TLS1_3_EXPECTING_CERTIFICATE",
   "TLS1_3_EXPECTING_CERTIFICATE_VERIFY", "TLS1_3_EXPECTING_FINISHED"}

\* Mutant: the first state of TLS 1.3 was forgotten.
IsInputStateWithoutExtensions(c) ==
  \/ c.state = "EXPECTING_SERVER_HELLO" \/ IsInputState12(c)
  \/ IsInputState13(c) /\ c.state # "TLS1_3_EXPECTING_ENCRYPTED_EXTENSIONS"

IsInputState(c) == c.state = "EXPECTING_SERVER_HELLO" \/ IsInputState12(c) \/ IsInputState13(c)

IsResponseState(c) == c.state \in
  {"TLS1_2_SENDING_CLIENT_KEY_EXCHANGE", "TLS1_2_SENDING_CHANGE_CIPHER_SPEC",
   "TLS1_2_SENDING_FINISHED", "TLS1_3_SENDING_CHANGE_CIPHER_SPEC", "TLS1_3_SENDING_FINISHED"}

-----------------------------------------------------------------------------
(* Keys, records and messages *)

Key(stage, side, over) == [stage |-> stage, side |-> side, over |-> over]
Plain == Key("plain", "none", <<>>)
SessionKey12(side) == Key("session", side, <<>>)
Record(type, key, seq, body) == [type |-> type, key |-> key, seq |-> seq, body |-> body]

Bytes(m) == [i \in 1..(HeaderCb + BodyCb[m]) |-> <<m, i>>]
Header(m) == SubSeq(Bytes(m), 1, HeaderCb)
Body(m) == SubSeq(Bytes(m), HeaderCb + 1, HeaderCb + BodyCb[m])

NoFragment == [type |-> "none", need |-> 0, got |-> <<>>]

\* KXSCHANL_CONTEXT.  secrets[1] is the storage that BaseSecret13 shares with
\* PendingReadSecret13, secrets[2] that of ServerBaseSecret13 and
\* PendingWriteSecret13.
NewContext ==
  [ state |-> "SENDING_CLIENT_HELLO", suite |-> "none", savedHello |-> FALSE, transcript |-> <<>>,
    secrets |-> <<Plain, Plain>>, readKey |-> Plain, writeKey |-> Plain,
    readOn |-> FALSE, writeOn |-> FALSE, readSeq |-> 0, writeSeq |-> 0, frag |-> NoFragment ]

Is13(c) == c.suite = "tls13"

\* Mutant: new keys go on with the old sequence numbers.
KeysFromSecretsKeepSeq13(c, read, write) == [c EXCEPT !.readKey = read, !.writeKey = write]

\* TlspKeysFromSecrets13.
KeysFromSecrets13(c, read, write) ==
  [c EXCEPT !.readKey = read, !.writeKey = write, !.readSeq = 0, !.writeSeq = 0]

\* TlspDeriveHandshakeKeys13.
DeriveHandshakeKeys13(c) ==
  LET base == Key("handshake", "client", c.transcript)
      serverBase == Key("handshake", "server", c.transcript)
  IN [KeysFromSecrets13(c, serverBase, base) EXCEPT
        !.secrets = <<base, serverBase>>, !.readOn = TRUE, !.writeOn = TRUE]

\* TlspDeriveApplicationKeys13.
DeriveApplicationKeys13(c) == KeysFromSecrets13(c, c.secrets[1], c.secrets[2])

\* TlspHashHandshakeData.
Hashed(c, ms) ==
  IF HandshakeInProgress(c) THEN [c EXCEPT !.transcript = @ \o ms] ELSE c

-----------------------------------------------------------------------------
(* Handlers of complete handshake messages *)

HandleServerHello(c) ==
  [c EXCEPT !.suite = srv.suite,
            !.state = IF srv.suite = "tls13" THEN "TLS1_3_EXPECTING_ENCRYPTED_EXTENSIONS"
                      ELSE "TLS1_2_EXPECTING_CERTIFICATE"]

HandleCertificate12(c) ==
  [c EXCEPT !.state = IF c.suite = "tls12_rsa" THEN "TLS1_2_EXPECTING_SERVER_HELLO_DONE"
                      ELSE "TLS1_2_EXPECTING_SERVER_KEY_EXCHANGE"]

HandleServerKeyExchangeEcdhe12(c) ==
  [c EXCEPT !.readKey = SessionKey12("server"), !.writeKey = SessionKey12("client"),
            !.state = "TLS1_2_EXPECTING_SERVER_HELLO_DONE"]

HandleServerHelloDone12(c) == [c EXCEPT !.state = "TLS1_2_SENDING_CLIENT_KEY_EXCHANGE"]

HandleFinished12(c) == [c EXCEPT !.state = "HANDSHAKE_COMPLETE"]

\* Mutant: a request to renegotiate is taken up.
HandleHelloRequestRestart12(c) == [c EXCEPT !.state = "EXPECTING_SERVER_HELLO"]

HandleHelloRequest12(c) == c

HandleEncryptedExtensions13(c) == [c EXCEPT !.state = "TLS1_3_EXPECTING_CERTIFICATE"]

HandleCertificate13(c) == [c EXCEPT !.state = "TLS1_3_EXPECTING_CERTIFICATE_VERIFY"]

HandleCertificateVerify13(c) == [c EXCEPT !.state = "TLS1_3_EXPECTING_FINISHED"]

HandleFinished13(c) == [c EXCEPT !.state = "TLS1_3_SENDING_CHANGE_CIPHER_SPEC"]

HandleNewSessionTicket13(c) == c

\* The verify data of a Finished, or what a CertificateVerify signs.
Proof(key, over) == [key |-> key, over |-> over]

\* The contexts a message leads to: none if it is not accepted.
When(accepted, c) == IF accepted THEN {c} ELSE {}

ProcessHandshakeMessage12(c, m) ==
  CASE m = "certificate" ->
         When(c.state = "TLS1_2_EXPECTING_CERTIFICATE", HandleCertificate12(c))
    [] m = "server_key_exchange" ->
         When(c.state = "TLS1_2_EXPECTING_SERVER_KEY_EXCHANGE", HandleServerKeyExchangeEcdhe12(c))
    [] m = "server_hello_done" ->
         When(c.state = "TLS1_2_EXPECTING_SERVER_HELLO_DONE", HandleServerHelloDone12(c))
    [] m = "finished" ->
         When(/\ c.state = "TLS1_2_EXPECTING_FINISHED"
              /\ srv.verify = Proof(c.readKey, c.transcript),
              HandleFinished12(c))
    [] m = "hello_request" ->
         When(c.state = "HANDSHAKE_COMPLETE", HandleHelloRequest12(c))
    [] OTHER -> {}

ProcessHandshakeMessage13(c, m) ==
  CASE m = "encrypted_extensions" ->
         When(c.state = "TLS1_3_EXPECTING_ENCRYPTED_EXTENSIONS", HandleEncryptedExtensions13(c))
    [] m = "certificate" ->
         When(c.state = "TLS1_3_EXPECTING_CERTIFICATE", HandleCertificate13(c))
    [] m = "certificate_verify" ->
         When(/\ c.state = "TLS1_3_EXPECTING_CERTIFICATE_VERIFY"
              /\ srv.signed = c.transcript,
              HandleCertificateVerify13(c))
    [] m = "finished" ->
         When(/\ c.state = "TLS1_3_EXPECTING_FINISHED"
              /\ srv.verify = Proof(c.secrets[2], c.transcript),
              HandleFinished13(c))
    [] m = "new_session_ticket" ->
         When(c.state = "HANDSHAKE_COMPLETE", HandleNewSessionTicket13(c))
    [] OTHER -> {}

\* TlspProcessHandshakeMessage: dispatch, hash the saved ClientHello first and
\* then the message, and derive the handshake keys when ServerHello is hashed.
ProcessHandshakeMessage(c, m) ==
  { LET hello == IF h.savedHello
                 THEN [Hashed(h, <<"client_hello">>) EXCEPT !.savedHello = FALSE]
                 ELSE h
        hashed == Hashed(hello, <<m>>)
    IN IF hashed.state = "TLS1_3_EXPECTING_ENCRYPTED_EXTENSIONS"
       THEN DeriveHandshakeKeys13(hashed) ELSE hashed :
    h \in CASE c.suite = "none" -> When(m = "server_hello", HandleServerHello(c))
            [] Is13(c) -> ProcessHandshakeMessage13(c, m)
            [] OTHER -> ProcessHandshakeMessage12(c, m) }

-----------------------------------------------------------------------------
(* Reassembly of handshake messages *)

\* What the code takes the next HeaderCb bytes for: a header if they are one,
\* and anything otherwise.
HeaderRead(bytes) ==
  IF \E m \in ServerMessage : bytes = Header(m)
  THEN {[type |-> m, need |-> BodyCb[m]] : m \in {n \in ServerMessage : bytes = Header(n)}}
  ELSE {[type |-> "finished", need |-> n] : n \in {0, 1}}

\* Mutant: a body that ends with the record is taken for incomplete.
SplitEarly(need, bytes) == need >= Len(bytes)

\* The rest of the record is too short for the body.
Split(need, bytes) == need > Len(bytes)

\* The first n bytes, and the others.
Taken(bytes, n) == SubSeq(bytes, 1, n)
Dropped(bytes, n) == SubSeq(bytes, n + 1, Len(bytes))

\* One iteration of TlspProcessHandshakeMessageFragment over the bytes of a
\* record, as a set of [result, ctx, rest].  The bytes of a header cut by the
\* end of the record are copied to the context but not counted
\* (FragmentedMessageHeaderCb stays 0), and nothing uses them later.
Outcome(result, c, rest) == [result |-> result, ctx |-> c, rest |-> rest]

Complete(c, type, body, rest) ==
  LET done == [c EXCEPT !.frag = NoFragment]
      next == IF type \in ServerMessage /\ body = Body(type)
              THEN ProcessHandshakeMessage(done, type) ELSE {}
  IN IF next = {} THEN {Outcome("illegal", done, rest)}
     ELSE {Outcome("ok", n, rest) : n \in next}

ContinueFragment(c, bytes) ==
  LET missing == c.frag.need - Len(c.frag.got) IN
  IF Split(missing, bytes)
  THEN {Outcome("incomplete", [c EXCEPT !.frag.got = @ \o bytes], <<>>)}
  ELSE Complete(c, c.frag.type, c.frag.got \o Taken(bytes, missing), Dropped(bytes, missing))

StartMessage(c, header, bytes) ==
  IF Split(header.need, bytes)
  THEN {Outcome("incomplete",
                [c EXCEPT !.frag = [type |-> header.type, need |-> header.need, got |-> bytes]], <<>>),
        Outcome("no_memory", c, bytes)}
  ELSE Complete(c, header.type, Taken(bytes, header.need), Dropped(bytes, header.need))

ProcessFragment(c, bytes) ==
  IF c.frag # NoFragment THEN ContinueFragment(c, bytes)
  ELSE IF Len(bytes) < HeaderCb THEN {Outcome("incomplete", c, <<>>)}
  ELSE UNION {StartMessage(c, h, Dropped(bytes, HeaderCb)) : h \in HeaderRead(Taken(bytes, HeaderCb))}

-----------------------------------------------------------------------------
(* The handshake calls of the client: InitializeSecurityContext *)

\* The application deletes a context after a call has failed.
Failures == {"illegal", "incomplete", "no_memory"}
Usable == call = "idle" /\ status \notin Failures

\* Sealed by TlsEncrypt once writing is encrypted, in the clear before.
Sealed(c, type, body) ==
  IF c.writeOn THEN Record(type, c.writeKey, c.writeSeq, body) ELSE Record(type, Plain, 0, body)
AfterWrite(c) == IF c.writeOn THEN [c EXCEPT !.writeSeq = @ + 1] ELSE c

\* TlsDecrypt opens the record.
Opens(c, r) == r.key = c.readKey /\ r.seq = c.readSeq
AfterRead(c) == [c EXCEPT !.readSeq = @ + 1]

Return(result) ==
  /\ call' = "idle"
  /\ status' = result
  /\ avail' = 0
  /\ payload' = <<>>

\* SppDeleteSecurityContext.
Delete ==
  /\ ctx' = [NewContext EXCEPT !.state = "CONNECTION_CLOSED"]
  /\ call' = "deleted"
  /\ avail' = 0 /\ payload' = <<>>

\* The first call: TlspWriteClientHello.  Without memory for the saved
\* ClientHello the call deletes the context it has made.
WriteClientHello ==
  /\ call = "none"
  /\ \/ /\ ctx' = [ctx EXCEPT !.savedHello = TRUE, !.state = "EXPECTING_SERVER_HELLO"]
        /\ toServer' = Append(toServer, Record("handshake", Plain, 0, <<"client_hello">>))
        /\ Return("continue")
     \/ /\ Delete
        /\ status' = "no_memory"
        /\ UNCHANGED toServer
  /\ UNCHANGED <<srv, toClient>>

\* A later call, with the complete records that have arrived.
BeginConnect ==
  /\ Usable
  /\ HandshakeInProgress(ctx)
  /\ toClient # <<>>
  /\ \E n \in 1..Len(toClient) : avail' = n
  /\ call' = "input"
  /\ UNCHANGED <<ctx, payload, status, srv, toServer, toClient>>

\* Mutant: TLS 1.3 has no use for it, so it is refused there.
ProcessChangeCipherSpecStrict(c) ==
  When(c.state = "TLS1_2_EXPECTING_CHANGE_CIPHER_SPEC",
       [c EXCEPT !.state = "TLS1_2_EXPECTING_FINISHED", !.readOn = TRUE])

\* TlspProcessChangeCipherSpec.
ProcessChangeCipherSpec(c) ==
  IF Is13(c) THEN When(HandshakeInProgress(c), c)
  ELSE When(c.state = "TLS1_2_EXPECTING_CHANGE_CIPHER_SPEC",
            [c EXCEPT !.state = "TLS1_2_EXPECTING_FINISHED", !.readOn = TRUE])

\* TlspProcessIncomingRecord up to its messages.
ProcessIncomingRecord ==
  LET r == Head(toClient)
      sealed == ctx.readOn /\ r.type # "change_cipher_spec"
      opened == IF sealed THEN AfterRead(ctx) ELSE ctx
  IN
  /\ call = "input" /\ avail > 0 /\ IsInputState(ctx)
  /\ toClient' = Tail(toClient)
  /\ IF (sealed /\ ~Opens(ctx, r)) \/ (~sealed /\ r.key # Plain) \/ r.type = "data"
     THEN /\ ctx' = IF sealed /\ Opens(ctx, r) THEN opened ELSE ctx
          /\ Return("illegal")
     ELSE CASE r.type = "handshake" ->
                 /\ ctx' = opened
                 /\ payload' = r.body /\ call' = "record"
                 /\ UNCHANGED <<status, avail>>
            [] r.type = "change_cipher_spec" ->
                 IF ProcessChangeCipherSpec(opened) = {} THEN UNCHANGED ctx /\ Return("illegal")
                 ELSE /\ ctx' \in ProcessChangeCipherSpec(opened)
                      /\ avail' = avail - 1
                      /\ UNCHANGED <<call, payload, status>>
            [] r.type = "close_notify" ->
                 \* an encrypted alert is processed by TlsDecrypt, and then once
                 \* more as an empty record
                 /\ ctx' = [opened EXCEPT !.state = "CONNECTION_CLOSED"]
                 /\ Return(IF sealed THEN "illegal" ELSE "expired")
  /\ UNCHANGED <<srv, toServer>>

\* One message, or part of one, of the current record.  A message that goes on
\* in the next record ends the handshake call; after the handshake it is an
\* error that closes the connection.
ProcessMessage ==
  /\ call \in {"record", "post"}
  /\ \E o \in ProcessFragment(ctx, payload) :
       CASE o.result = "ok" /\ o.rest # <<>> ->
              ctx' = o.ctx /\ payload' = o.rest /\ UNCHANGED <<call, avail, status>>
         [] o.result = "ok" /\ o.rest = <<>> /\ call = "record" ->
              /\ ctx' = o.ctx /\ payload' = <<>>
              /\ call' = "input" /\ avail' = avail - 1
              /\ UNCHANGED status
         [] o.result = "ok" /\ o.rest = <<>> /\ call = "post" ->
              ctx' = o.ctx /\ Return("ok")
         [] o.result # "ok" /\ call = "record" ->
              ctx' = o.ctx /\ Return(IF o.result = "incomplete" THEN "continue" ELSE o.result)
         [] o.result # "ok" /\ call = "post" ->
              ctx' = [o.ctx EXCEPT !.state = "CONNECTION_CLOSED"] /\ Return(o.result)
  /\ UNCHANGED <<srv, toServer, toClient>>

\* The responses a state asks for: the record, and the context after it.
ClientKeyExchange12(c) ==
  Hashed([c EXCEPT !.readKey = SessionKey12("server"), !.writeKey = SessionKey12("client"),
                   !.state = "TLS1_2_SENDING_CHANGE_CIPHER_SPEC"], <<"client_key_exchange">>)

Finished12(c) ==
  Hashed([c EXCEPT !.state = "TLS1_2_EXPECTING_CHANGE_CIPHER_SPEC"], <<"finished">>)

\* Mutant: the two application secrets change places.
Finished13Swapped(c) ==
  [c EXCEPT !.secrets = <<Key("application", "client", c.transcript),
                          Key("application", "server", c.transcript)>>,
            !.state = "HANDSHAKE_COMPLETE"]

Finished13(c) ==
  [c EXCEPT !.secrets = <<Key("application", "server", c.transcript),
                          Key("application", "client", c.transcript)>>,
            !.state = "HANDSHAKE_COMPLETE"]

\* TlspGenerateChangeCipherSpec.
ChangeCipherSpec(c) ==
  IF Is13(c) THEN [c EXCEPT !.state = "TLS1_3_SENDING_FINISHED"]
  ELSE [c EXCEPT !.state = "TLS1_2_SENDING_FINISHED", !.writeOn = TRUE]

\* TlspGenerateOutgoingRecord: what is sealed under the old keys is sent, and
\* only then the application keys take their place.  The call does not go back
\* to its input: records that were not read stay with the caller.
GenerateOutgoingRecord ==
  /\ call = "input" /\ (avail = 0 \/ ~IsInputState(ctx))
  /\ \/ /\ ctx.state \in {"TLS1_2_SENDING_CHANGE_CIPHER_SPEC", "TLS1_3_SENDING_CHANGE_CIPHER_SPEC"}
        /\ ctx' = ChangeCipherSpec(ctx)
        /\ toServer' = Append(toServer, Record("change_cipher_spec", Plain, 0, <<>>))
     \/ /\ ctx.state = "TLS1_2_SENDING_CLIENT_KEY_EXCHANGE"
        /\ toServer' = Append(toServer, Sealed(ctx, "handshake", <<"client_key_exchange">>))
        /\ ctx' = AfterWrite(ClientKeyExchange12(ctx))
     \/ /\ ctx.state = "TLS1_2_SENDING_FINISHED"
        /\ toServer' = Append(toServer, Sealed(ctx, "handshake",
                         <<"finished", Proof(ctx.writeKey, ctx.transcript)>>))
        /\ ctx' = AfterWrite(Finished12(ctx))
     \/ /\ ctx.state = "TLS1_3_SENDING_FINISHED"
        /\ toServer' = Append(toServer, Sealed(ctx, "handshake",
                         <<"finished", Proof(ctx.secrets[1], ctx.transcript)>>))
        /\ ctx' = DeriveApplicationKeys13(AfterWrite(Finished13(ctx)))
  /\ avail' = 0
  /\ UNCHANGED <<call, payload, status, srv, toClient>>

\* The end of TlsConnect.
EndConnect ==
  /\ call = "input" /\ (avail = 0 \/ ~IsInputState(ctx))
  /\ ~IsResponseState(ctx)
  /\ Return(IF HandshakeInProgress(ctx) THEN "continue" ELSE "ok")
  /\ UNCHANGED <<ctx, srv, toServer, toClient>>

-----------------------------------------------------------------------------
(* The other calls *)

\* SppEncryptMessage.
EncryptMessage ==
  /\ Usable /\ ctx.state = "HANDSHAKE_COMPLETE"
  /\ ctx.writeSeq < MaxData + 1
  /\ toServer' = Append(toServer, Sealed(ctx, "data", <<>>))
  /\ ctx' = AfterWrite(ctx)
  /\ UNCHANGED <<call, avail, payload, status, srv, toClient>>

\* SppDecryptMessage, on one record.
DecryptMessage ==
  LET r == Head(toClient) IN
  /\ Usable /\ ctx.state = "HANDSHAKE_COMPLETE"
  /\ toClient # <<>>
  /\ toClient' = Tail(toClient)
  /\ IF ~Opens(ctx, r)
     THEN UNCHANGED ctx /\ Return("illegal")
     ELSE CASE r.type = "data" -> ctx' = AfterRead(ctx) /\ Return("ok")
            [] r.type = "close_notify" ->
                 /\ ctx' = [AfterRead(ctx) EXCEPT !.state = "CONNECTION_CLOSED"]
                 /\ Return("expired")
            [] r.type = "handshake" ->
                 /\ ctx' = AfterRead(ctx)
                 /\ payload' = r.body /\ call' = "post"
                 /\ UNCHANGED <<status, avail>>
  /\ UNCHANGED <<srv, toServer>>

\* SppApplyControlToken with SCHANNEL_SHUTDOWN.
ApplyControlToken ==
  /\ Usable /\ ctx.state = "HANDSHAKE_COMPLETE"
  /\ ctx' = [ctx EXCEPT !.state = "SENDING_CLOSE_NOTIFY"]
  /\ UNCHANGED <<call, avail, payload, status, srv, toServer, toClient>>

\* InitializeSecurityContext after that: TlsShutdown.
Shutdown ==
  /\ Usable /\ ctx.state = "SENDING_CLOSE_NOTIFY"
  /\ toServer' = Append(toServer, Sealed(ctx, "close_notify", <<>>))
  /\ ctx' = [AfterWrite(ctx) EXCEPT !.state = "CONNECTION_CLOSED"]
  /\ Return("ok")
  /\ UNCHANGED <<srv, toClient>>

DeleteSecurityContext ==
  /\ call = "idle"
  /\ Delete
  /\ UNCHANGED <<status, srv, toServer, toClient>>

-----------------------------------------------------------------------------
(* The server *)

AppKey(side) == Key("application", side, srv.transcript)
HandshakeRecord(key, bytes) == [type |-> "handshake", key |-> key, bytes |-> bytes]
ServerRecord(type, key) == [type |-> type, key |-> key, bytes |-> <<>>]

\* The server chooses the suite and answers with its first flight.
ServerHello(suite) ==
  LET hello == <<"client_hello", "server_hello">>
      hs(side) == Key("handshake", side, hello)
      chain == <<"server_hello", "certificate">>
               \o (IF suite = "tls12_ecdhe" THEN <<"server_key_exchange">> ELSE <<>>)
               \o <<"server_hello_done">>
      flight12 == Bytes("server_hello") \o Bytes("certificate")
                  \o (IF suite = "tls12_ecdhe" THEN Bytes("server_key_exchange") ELSE <<>>)
                  \o Bytes("server_hello_done")
      flight13 == Bytes("encrypted_extensions") \o Bytes("certificate")
                  \o Bytes("certificate_verify") \o Bytes("finished")
      signed == hello \o <<"encrypted_extensions", "certificate">>
      verified == Append(signed, "certificate_verify")
  IN
  /\ srv.state = "expecting_hello"
  /\ toServer # <<>>
  /\ toServer' = Tail(toServer)
  /\ IF suite = "tls13"
     THEN \E ccs \in {<<>>, <<ServerRecord("change_cipher_spec", Plain)>>} :
            srv' = [srv EXCEPT
              !.state = "expecting_finished", !.suite = suite,
              !.transcript = Append(verified, "finished"),
              !.signed = signed, !.verify = Proof(hs("server"), verified),
              !.readKey = hs("client"),
              !.unsent = <<HandshakeRecord(Plain, Bytes("server_hello"))>> \o ccs \o
                         <<HandshakeRecord(hs("server"), flight13)>>]
     ELSE srv' = [srv EXCEPT
            !.state = "expecting_key_exchange", !.suite = suite,
            !.transcript = <<"client_hello">> \o chain,
            !.unsent = <<HandshakeRecord(Plain, flight12)>>]
  /\ UNCHANGED <<ctx, call, avail, payload, status, toClient>>

\* The server opens and accepts the record.
ServerAccepts(r) ==
  /\ r.type \in {"handshake", "data", "close_notify"} => r.key = srv.readKey /\ r.seq = srv.readSeq
  /\ CASE srv.state = "expecting_key_exchange" -> r.body = <<"client_key_exchange">>
       [] srv.state = "expecting_ccs" -> r.type = "change_cipher_spec"
       [] srv.state = "expecting_finished" ->
            \/ r.type = "change_cipher_spec" /\ srv.suite = "tls13"
            \/ r.body = <<"finished", Proof(srv.readKey, srv.transcript)>>
       [] srv.state = "open" -> r.type \in {"data", "close_notify"}
       [] OTHER -> FALSE

ServerReceive ==
  LET r == Head(toServer)
      hashed == Append(srv.transcript, Head(r.body))
      read == [srv EXCEPT !.readSeq = IF r.key = Plain THEN 0 ELSE @ + 1]
  IN
  /\ srv.state \notin {"expecting_hello", "closed"}
  /\ toServer # <<>>
  /\ ServerAccepts(r)
  /\ toServer' = Tail(toServer)
  /\ srv' = CASE r.type = "close_notify" -> [read EXCEPT !.state = "closed", !.unsent = <<>>]
              [] r.type = "data" -> read
              [] r.type = "change_cipher_spec" /\ srv.suite = "tls13" -> srv
              [] r.type = "change_cipher_spec" /\ srv.suite # "tls13" ->
                   [srv EXCEPT !.state = "expecting_finished",
                               !.readKey = SessionKey12("client"), !.readSeq = 0]
              [] OTHER ->
                   CASE srv.state = "expecting_key_exchange" ->
                          [read EXCEPT !.state = "expecting_ccs", !.transcript = hashed]
                     [] srv.state = "expecting_finished" /\ srv.suite = "tls13" ->
                          [read EXCEPT !.state = "open", !.readKey = AppKey("client"), !.readSeq = 0]
                     [] srv.state = "expecting_finished" /\ srv.suite # "tls13" ->
                          [read EXCEPT !.state = "open", !.transcript = hashed,
                             !.verify = Proof(SessionKey12("server"), hashed),
                             !.unsent = <<ServerRecord("change_cipher_spec", Plain),
                                          HandshakeRecord(SessionKey12("server"), Bytes("finished"))>>]
  /\ UNCHANGED <<ctx, call, avail, payload, status, toClient>>

\* The key the server writes with once its part of the handshake is sent.
OwnKey == IF srv.suite = "tls13" THEN AppKey("server") ELSE SessionKey12("server")

\* Data, or a message after the handshake: once the server may use the
\* application keys, in TLS 1.3 before the client's Finished has come.
ServerSpeak ==
  /\ srv.unsent = <<>>
  /\ srv.state = "open" \/ (srv.suite = "tls13" /\ srv.state = "expecting_finished")
  /\ srv.said < MaxData
  /\ \E item \in {ServerRecord("data", OwnKey),
                  HandshakeRecord(OwnKey, Bytes(IF srv.suite = "tls13" THEN "new_session_ticket"
                                                ELSE "hello_request"))} :
       srv' = [srv EXCEPT !.unsent = <<item>>, !.said = @ + 1]
  /\ UNCHANGED <<ctx, call, avail, payload, status, toServer, toClient>>

CloseKey ==
  CASE srv.unsent = <<>> -> OwnKey
    [] srv.unsent # <<>> /\ srv.suite = "tls13" /\ Head(srv.unsent).type = "change_cipher_spec" ->
         srv.unsent[2].key
    [] OTHER -> Head(srv.unsent).key

\* The server gives up between two items, or is done.
ServerClose ==
  /\ srv.state \notin {"expecting_hello", "closed"}
  /\ ~srv.begun
  /\ \/ srv.unsent # <<>>
     \/ srv.unsent = <<>> /\ srv.state = "open"
  /\ srv' = [srv EXCEPT !.state = "closed", !.unsent = <<ServerRecord("close_notify", CloseKey)>>]
  /\ UNCHANGED <<ctx, call, avail, payload, status, toServer, toClient>>

\* Where the server may end a record: in a header only if headers are split.
Cuts(item) ==
  {n \in 1..Len(item.bytes) :
     n < Len(item.bytes) =>
       /\ item.bytes[n + 1][2] \in 2..HeaderCb => SplitHeaders
       /\ item.bytes[1][1] \in {"new_session_ticket", "hello_request"} => SplitTickets}

SendRecord(item, n) ==
  LET sealed == item.key # Plain
      seq == IF sealed /\ item.key = srv.writeKey THEN srv.writeSeq ELSE 0
  IN
  /\ toClient' = Append(toClient, Record(item.type, item.key, seq, Taken(item.bytes, n)))
  /\ srv' = [srv EXCEPT
       !.writeKey = IF sealed THEN item.key ELSE @,
       !.writeSeq = IF sealed THEN seq + 1 ELSE @,
       !.begun = n < Len(item.bytes),
       !.unsent = IF n < Len(item.bytes)
                  THEN <<[item EXCEPT !.bytes = Dropped(item.bytes, n)]>> \o Tail(@)
                  ELSE Tail(@)]

ServerSend ==
  /\ srv.unsent # <<>>
  /\ LET item == Head(srv.unsent) IN
       IF item.type = "handshake" THEN \E n \in Cuts(item) : SendRecord(item, n)
       ELSE SendRecord(item, 0)
  /\ UNCHANGED <<ctx, call, avail, payload, status, toServer>>

-----------------------------------------------------------------------------

Init ==
  /\ ctx = NewContext
  /\ call = "none" /\ avail = 0 /\ payload = <<>> /\ status = "none"
  /\ srv = [state |-> "expecting_hello", suite |-> "none", transcript |-> <<>>,
            signed |-> <<>>, verify |-> Proof(Plain, <<>>),
            readKey |-> Plain, readSeq |-> 0, writeKey |-> Plain, writeSeq |-> 0,
            unsent |-> <<>>, begun |-> FALSE, said |-> 0]
  /\ toServer = <<>> /\ toClient = <<>>

Connect == ProcessIncomingRecord \/ ProcessMessage \/ GenerateOutgoingRecord \/ EndConnect

Server == ServerReceive \/ ServerSend \/ \E suite \in Suites : ServerHello(suite)

Next ==
  \/ WriteClientHello \/ BeginConnect \/ Connect
  \/ EncryptMessage \/ DecryptMessage \/ ApplyControlToken \/ Shutdown \/ DeleteSecurityContext
  \/ Server \/ ServerSpeak \/ ServerClose

Spec == Init /\ [][Next]_vars

\* The application starts the handshake and comes back with what has arrived;
\* a call runs to its end; the server answers.
FairSpec ==
  /\ Spec
  /\ WF_vars(WriteClientHello) /\ WF_vars(BeginConnect) /\ WF_vars(Connect) /\ WF_vars(Server)

-----------------------------------------------------------------------------
(* Properties *)

\* The context has a possible state, counters start when their key is on
\* (tlshs.c:71, 117), and a message kept for the next record is incomplete, so
\* the next record has something to add to it (tlshs.c:448-484).
TypeOK ==
  /\ ctx.state \in Range(StateOrder)
  /\ ctx.suite \in Suites \cup {"none"}
  /\ call \in {"none", "idle", "input", "record", "post", "deleted"}
  /\ status \in {"none", "continue", "ok", "expired"} \cup Failures
  /\ avail \in 0..Len(toClient) + 1
  /\ ~ctx.readOn => ctx.readSeq = 0
  /\ ~ctx.writeOn => ctx.writeSeq = 0
  /\ ctx.frag # NoFragment => Len(ctx.frag.got) < ctx.frag.need

\* A handshake that is complete for the client is one the server agrees with:
\* both have the same suite and transcript, and the client ends up with the
\* keys of the server, the ones of the right side and stage, although in
\* TLS 1.3 the same storage held the handshake secrets (kxschanlp.h).
Agreement ==
  ctx.state = "HANDSHAKE_COMPLETE" =>
    /\ ctx.suite = srv.suite
    /\ ctx.transcript = srv.transcript
    /\ ctx.readKey = OwnKey
    /\ ctx.writeKey = IF Is13(ctx) THEN AppKey("client") ELSE SessionKey12("client")
    /\ ctx.readOn /\ ctx.writeOn

\* Keys and sequence numbers change together with the other side's, however
\* the change of keys falls between the records and the calls: the record that
\* is next on the way opens where it arrives (tlshs13.c:184-197).
KeysInSync ==
  /\ (/\ Usable \/ call = "input"
      /\ toClient # <<>>
      /\ ctx.readOn /\ (IsInputState(ctx) \/ ctx.state = "HANDSHAKE_COMPLETE")
      /\ Head(toClient).type # "change_cipher_spec")
     => Opens(ctx, Head(toClient))
  /\ (srv.state \notin {"expecting_hello", "closed"} /\ toServer # <<>>)
     => ServerAccepts(Head(toServer))

\* The handshake never goes back, not even on a message of the server that
\* asks to start again: the comparisons of states by order rely on it
\* (kxschanlp.h:206-230).
StateAdvances == [][Rank(ctx'.state) >= Rank(ctx.state)]_vars

\* No call fails on what a server that follows the protocol has sent, however
\* it cuts its messages into records: bytes that are left of a record are kept
\* (tlshs.c:403-407).  A failure means that the server has closed the
\* connection, or that there was no memory.
HonestPeerIsAccepted == status \in {"illegal", "incomplete"} => srv.state = "closed"

\* A close_notify of the server ends the handshake call with the status it is
\* mapped to, SEC_I_CONTEXT_EXPIRED, whether it came in the clear or encrypted
\* (tlsalert.c:29-30, 73-75).
AlertIsReported ==
  [][(call = "input" /\ ctx.state # "CONNECTION_CLOSED" /\ ctx'.state = "CONNECTION_CLOSED")
     => status' = "expired"]_vars

\* Neither side waits for the other for ever: a handshake that has begun is
\* completed, closed or has failed, however the records and the buffers of the
\* calls fall (tlshs.c:927-950).
HandshakeCompletes ==
  (ctx.state = "EXPECTING_SERVER_HELLO") ~> (~HandshakeInProgress(ctx) \/ status \in Failures)
=============================================================================
