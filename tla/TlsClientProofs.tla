--------------------------- MODULE TlsClientProofs ---------------------------
(***************************************************************************)
(* Proofs about TlsClient for any sizes of messages, any ways to cut them  *)
(* into records and any number of records: the context keeps its type, its *)
(* state never goes back, and a handshake that is complete for the client  *)
(* is one the server agrees with.                                          *)
(***************************************************************************)
EXTENDS TlsClient, SequenceTheorems, TLAPS

ConnectStates12 ==
  {"TLS1_2_EXPECTING_CERTIFICATE", "TLS1_2_EXPECTING_SERVER_KEY_EXCHANGE",
   "TLS1_2_EXPECTING_SERVER_HELLO_DONE", "TLS1_2_SENDING_CLIENT_KEY_EXCHANGE",
   "TLS1_2_SENDING_CHANGE_CIPHER_SPEC", "TLS1_2_SENDING_FINISHED",
   "TLS1_2_EXPECTING_CHANGE_CIPHER_SPEC", "TLS1_2_EXPECTING_FINISHED"}
ConnectStates13 ==
  {"TLS1_3_EXPECTING_ENCRYPTED_EXTENSIONS", "TLS1_3_EXPECTING_CERTIFICATE",
   "TLS1_3_EXPECTING_CERTIFICATE_VERIFY", "TLS1_3_EXPECTING_FINISHED",
   "TLS1_3_SENDING_CHANGE_CIPHER_SPEC", "TLS1_3_SENDING_FINISHED"}
State ==
  {"SENDING_CLIENT_HELLO", "EXPECTING_SERVER_HELLO", "HANDSHAKE_COMPLETE",
   "SENDING_CLOSE_NOTIFY", "CONNECTION_CLOSED"} \cup ConnectStates12 \cup ConnectStates13

Byte == ServerMessage \X Nat
Message == ServerMessage \cup {"client_hello", "client_key_exchange"}
Stage == {"plain", "session", "handshake", "application"}
Side == {"none", "client", "server"}
KeySet == [stage : Stage, side : Side, over : Seq(Message)]
Fragment == [type : ServerMessage \cup {"none"}, need : Nat, got : Seq(Byte)]
Context ==
  [state : State, suite : Suites \cup {"none"}, savedHello : BOOLEAN, transcript : Seq(Message),
   secrets : KeySet \X KeySet, readKey : KeySet, writeKey : KeySet,
   readOn : BOOLEAN, writeOn : BOOLEAN, readSeq : Nat, writeSeq : Nat, frag : Fragment]

RecordType == {"handshake", "change_cipher_spec", "data", "close_notify"}
Item == {i \in [type : RecordType, key : KeySet, bytes : Seq(Byte)] :
           i.type = "change_cipher_spec" => i.key = Plain}
ServerState ==
  [state : {"expecting_hello", "expecting_key_exchange", "expecting_ccs", "expecting_finished",
            "open", "closed"},
   suite : Suites \cup {"none"}, transcript : Seq(Message), signed : Seq(Message),
   verify : [key : KeySet, over : Seq(Message)], readKey : KeySet, readSeq : Nat,
   writeKey : KeySet, writeSeq : Nat, unsent : Seq(Item), begun : BOOLEAN, said : Nat]

\* A change of cipher specifications is never encrypted.
Arriving == {r \in [type : RecordType, key : KeySet, seq : Nat, body : Seq(Byte)] :
               r.type = "change_cipher_spec" => r.key = Plain}

Typed ==
  /\ ctx \in Context
  /\ call \in {"none", "idle", "input", "record", "post", "deleted"}
  /\ avail \in Nat
  /\ payload \in Seq(Byte)
  /\ status \in {"none", "continue", "ok", "expired"} \cup Failures
  /\ srv \in ServerState
  /\ toClient \in Seq(Arriving)

\* Where the application's thread can be in each state of the context, and what
\* it can still read.
CallFits ==
  /\ call = "none" <=> ctx.state = "SENDING_CLIENT_HELLO"
  /\ call = "input" =>
       ctx.state \notin {"SENDING_CLOSE_NOTIFY", "CONNECTION_CLOSED"} /\ avail <= Len(toClient)
  /\ call = "record" =>
       ctx.state \notin {"SENDING_CLOSE_NOTIFY", "CONNECTION_CLOSED"} /\ avail <= Len(toClient) + 1
  /\ call = "record" => avail > 0
  /\ call = "post" => ctx.state = "HANDSHAKE_COMPLETE"
  /\ call \notin {"input", "record"} => avail = 0

\* The state says which protocol is spoken, which keys are there and which
\* directions are encrypted.
StateFits(c) ==
  /\ c.suite \in {"none", srv.suite}
  /\ c.state \in {"SENDING_CLIENT_HELLO", "EXPECTING_SERVER_HELLO"} => c.suite = "none"
  /\ c.suite = "none" =>
       c.state \in {"SENDING_CLIENT_HELLO", "EXPECTING_SERVER_HELLO", "CONNECTION_CLOSED"}
  /\ c.suite # "none" => ~c.savedHello
  /\ c.state \in ConnectStates12 => c.suite # "tls13"
  /\ c.state \in ConnectStates13 => c.suite = "tls13"

KeysFit(c) ==
  /\ c.state \in {"TLS1_2_SENDING_CHANGE_CIPHER_SPEC", "TLS1_2_SENDING_FINISHED",
                  "TLS1_2_EXPECTING_CHANGE_CIPHER_SPEC", "TLS1_2_EXPECTING_FINISHED"}
     \/ (c.state = "HANDSHAKE_COMPLETE" /\ c.suite # "tls13")
     => c.readKey = SessionKey12("server") /\ c.writeKey = SessionKey12("client")
  /\ c.state \in ConnectStates13 \cup {"TLS1_2_SENDING_FINISHED", "TLS1_2_EXPECTING_CHANGE_CIPHER_SPEC",
                                       "TLS1_2_EXPECTING_FINISHED", "HANDSHAKE_COMPLETE"}
     => c.writeOn
  /\ c.state \in ConnectStates13 \cup {"TLS1_2_EXPECTING_FINISHED", "HANDSHAKE_COMPLETE"} => c.readOn
  /\ ~c.readOn => c.readSeq = 0
  /\ ~c.writeOn => c.writeSeq = 0

\* From the Finished of the server on, both have seen the same messages.
TranscriptFits(c) ==
  /\ c.state \in {"TLS1_3_SENDING_CHANGE_CIPHER_SPEC", "TLS1_3_SENDING_FINISHED",
                  "HANDSHAKE_COMPLETE"}
     => c.transcript = srv.transcript
  /\ c.state = "HANDSHAKE_COMPLETE" /\ c.suite = "tls13" =>
       c.readKey = AppKey("server") /\ c.writeKey = AppKey("client")
  /\ c.state = "HANDSHAKE_COMPLETE" /\ c.suite # "tls13" => srv.state \in {"open", "closed"}

FragmentFits(c) == c.frag # NoFragment => Len(c.frag.got) < c.frag.need

ClientFits(c) == StateFits(c) /\ KeysFit(c) /\ TranscriptFits(c) /\ FragmentFits(c)

\* The server says nothing before it has chosen a suite; its Finished is made
\* over what it has seen.
ServerFits ==
  /\ srv.state = "expecting_hello" <=> srv.suite = "none"
  /\ srv.state = "expecting_hello" =>
       srv.unsent = <<>> /\ toClient = <<>> /\ call \notin {"record", "post"}
  /\ srv.suite = "tls13" =>
       /\ srv.state \in {"expecting_finished", "open", "closed"}
       /\ srv.transcript = Append(srv.verify.over, "finished")
       /\ srv.state # "closed" /\ srv.unsent # <<>> =>
            /\ srv.unsent[Len(srv.unsent)].type # "change_cipher_spec"
            /\ srv.unsent[Len(srv.unsent)].key # Plain
  /\ srv.suite # "tls13" =>
       \/ srv.verify = Proof(Plain, <<>>)
       \/ /\ srv.verify = Proof(SessionKey12("server"), srv.transcript)
          /\ srv.state \in {"open", "closed"}

\* The inductive invariant.
IInv == Typed /\ CallFits /\ ClientFits(ctx) /\ ServerFits

\* What StateAdvances says of a step.
Advances == Rank(ctx'.state) >= Rank(ctx.state)

-----------------------------------------------------------------------------
(* States, keys and bytes *)

\* Each state has one place in the order.
LEMMA Ranks ==
  /\ Rank("SENDING_CLIENT_HELLO") = 1
  /\ Rank("EXPECTING_SERVER_HELLO") = 2
  /\ Rank("TLS1_2_EXPECTING_CERTIFICATE") = 3
  /\ Rank("TLS1_2_EXPECTING_SERVER_KEY_EXCHANGE") = 4
  /\ Rank("TLS1_2_EXPECTING_SERVER_HELLO_DONE") = 5
  /\ Rank("TLS1_2_SENDING_CLIENT_KEY_EXCHANGE") = 6
  /\ Rank("TLS1_2_SENDING_CHANGE_CIPHER_SPEC") = 7
  /\ Rank("TLS1_2_SENDING_FINISHED") = 8
  /\ Rank("TLS1_2_EXPECTING_CHANGE_CIPHER_SPEC") = 9
  /\ Rank("TLS1_2_EXPECTING_FINISHED") = 10
  /\ Rank("TLS1_3_EXPECTING_ENCRYPTED_EXTENSIONS") = 11
  /\ Rank("TLS1_3_EXPECTING_CERTIFICATE") = 12
  /\ Rank("TLS1_3_EXPECTING_CERTIFICATE_VERIFY") = 13
  /\ Rank("TLS1_3_EXPECTING_FINISHED") = 14
  /\ Rank("TLS1_3_SENDING_CHANGE_CIPHER_SPEC") = 15
  /\ Rank("TLS1_3_SENDING_FINISHED") = 16
  /\ Rank("HANDSHAKE_COMPLETE") = 17
  /\ Rank("SENDING_CLOSE_NOTIFY") = 18
  /\ Rank("CONNECTION_CLOSED") = 19
BY DEF Rank, StateOrder

LEMMA StateSet == Range(StateOrder) = State
<1> DEFINE o == StateOrder
<1>1. DOMAIN o = 1 .. 19
  BY DEF StateOrder
<1>2. \A i \in 1 .. 19 : o[i] \in State
  BY DEF StateOrder, State, ConnectStates12, ConnectStates13
<1>3. \A s \in State : \E i \in 1 .. 19 : o[i] = s
  <2>1. /\ o[1] = "SENDING_CLIENT_HELLO" /\ o[2] = "EXPECTING_SERVER_HELLO"
        /\ o[17] = "HANDSHAKE_COMPLETE" /\ o[18] = "SENDING_CLOSE_NOTIFY"
        /\ o[19] = "CONNECTION_CLOSED"
    BY DEF StateOrder
  <2>2. \A s \in ConnectStates12 : \E i \in 3 .. 10 : o[i] = s
    BY DEF StateOrder, ConnectStates12
  <2>3. \A s \in ConnectStates13 : \E i \in 11 .. 16 : o[i] = s
    BY DEF StateOrder, ConnectStates13
  <2> HIDE DEF o
  <2>4. ASSUME NEW s \in State PROVE \E i \in 1 .. 19 : o[i] = s
    <3>1. CASE s \in ConnectStates12
      BY <2>2, <3>1
    <3>2. CASE s \in ConnectStates13
      BY <2>3, <3>2
    <3>3. CASE s \notin ConnectStates12 \cup ConnectStates13
      BY <2>1, <3>3 DEF State
    <3> QED
      BY <3>1, <3>2, <3>3
  <2> QED
    BY <2>4
<1> HIDE DEF o
<1>4. Range(o) = State
  BY <1>1, <1>2, <1>3 DEF Range
<1> QED
  BY <1>4 DEF o

\* The states before the last three are those of a handshake.
LEMMA InProgress ==
  ASSUME NEW c \in Context
  PROVE  /\ HandshakeInProgress(c) <=>
              c.state \notin {"HANDSHAKE_COMPLETE", "SENDING_CLOSE_NOTIFY", "CONNECTION_CLOSED"}
         /\ Rank(c.state) \in 1 .. 19
<1>1. c.state \in State
  BY DEF Context
<1> QED
  BY <1>1, Ranks DEF HandshakeInProgress, State, ConnectStates12, ConnectStates13

LEMMA KeyTyped ==
  /\ \A stage \in Stage, side \in Side : \A over \in Seq(Message) : Key(stage, side, over) \in KeySet
  /\ Plain \in KeySet
  /\ \A side \in Side : SessionKey12(side) \in KeySet /\ SessionKey12(side) # Plain
<1>1. \A stage \in Stage, side \in Side : \A over \in Seq(Message) : Key(stage, side, over) \in KeySet
  BY DEF Key, KeySet
<1>2. <<>> \in Seq(Message)
  OBVIOUS
<1>3. \A side \in Side : SessionKey12(side).stage = "session" /\ Plain.stage = "plain"
  BY DEF SessionKey12, Plain, Key
<1>4. Plain \in KeySet /\ \A side \in Side : SessionKey12(side) \in KeySet
  BY <1>1, <1>2 DEF SessionKey12, Plain, Stage, Side
<1>5. \A side \in Side : SessionKey12(side) # Plain
  BY <1>3
<1> QED
  BY <1>1, <1>4, <1>5

LEMMA AppKeyTyped ==
  /\ \A side \in Side : AppKey(side) # Plain
  /\ srv \in ServerState => \A side \in Side : AppKey(side) \in KeySet
<1>1. \A side \in Side : AppKey(side).stage = "application" /\ Plain.stage = "plain"
  BY DEF AppKey, Plain, Key
<1>2. srv \in ServerState => \A side \in Side : AppKey(side) \in KeySet
  BY KeyTyped DEF AppKey, ServerState, Stage
<1> QED
  BY <1>1, <1>2

LEMMA BytesTyped ==
  ASSUME NEW m \in ServerMessage
  PROVE  Bytes(m) \in Seq(Byte)
<1>1. HeaderCb + BodyCb[m] \in Nat
  BY SizeAssumption
<1> QED
  BY <1>1 DEF Bytes, Byte

LEMMA CutTyped ==
  ASSUME NEW bytes \in Seq(Byte), NEW n \in Nat, n <= Len(bytes)
  PROVE  /\ Taken(bytes, n) \in Seq(Byte)
         /\ Dropped(bytes, n) \in Seq(Byte)
         /\ Len(Taken(bytes, n)) = n
         /\ Len(Dropped(bytes, n)) = Len(bytes) - n
BY DEF Taken, Dropped

-----------------------------------------------------------------------------
(* Messages *)

\* What a message of the server makes of a context that is in use.
InUse(c) ==
  /\ c \in Context
  /\ StateFits(c) /\ KeysFit(c) /\ TranscriptFits(c)
  /\ c.state \notin {"SENDING_CLIENT_HELLO", "SENDING_CLOSE_NOTIFY", "CONNECTION_CLOSED"}

Follows(c, d) ==
  /\ InUse(d)
  /\ c.state = "HANDSHAKE_COMPLETE" => d.state = "HANDSHAKE_COMPLETE"
  /\ Rank(d.state) >= Rank(c.state)
  /\ d.frag = c.frag

\* What a message of TLS 1.2, one of TLS 1.3 and ServerHello are accepted for.
Handled12(c, m, h) ==
  \/ /\ m = "certificate" /\ c.state = "TLS1_2_EXPECTING_CERTIFICATE"
     /\ h = HandleCertificate12(c)
  \/ /\ m = "server_key_exchange" /\ c.state = "TLS1_2_EXPECTING_SERVER_KEY_EXCHANGE"
     /\ h = HandleServerKeyExchangeEcdhe12(c)
  \/ /\ m = "server_hello_done" /\ c.state = "TLS1_2_EXPECTING_SERVER_HELLO_DONE"
     /\ h = HandleServerHelloDone12(c)
  \/ /\ m = "finished" /\ c.state = "TLS1_2_EXPECTING_FINISHED"
     /\ srv.verify = Proof(c.readKey, c.transcript)
     /\ h = HandleFinished12(c)
  \/ /\ m = "hello_request" /\ c.state = "HANDSHAKE_COMPLETE"
     /\ h = c

Handled13(c, m, h) ==
  \/ /\ m = "encrypted_extensions" /\ c.state = "TLS1_3_EXPECTING_ENCRYPTED_EXTENSIONS"
     /\ h = HandleEncryptedExtensions13(c)
  \/ /\ m = "certificate" /\ c.state = "TLS1_3_EXPECTING_CERTIFICATE"
     /\ h = HandleCertificate13(c)
  \/ /\ m = "certificate_verify" /\ c.state = "TLS1_3_EXPECTING_CERTIFICATE_VERIFY"
     /\ h = HandleCertificateVerify13(c)
  \/ /\ m = "finished" /\ c.state = "TLS1_3_EXPECTING_FINISHED"
     /\ srv.verify = Proof(c.secrets[2], c.transcript)
     /\ h = HandleFinished13(c)
  \/ /\ m = "new_session_ticket" /\ c.state = "HANDSHAKE_COMPLETE"
     /\ h = c

LEMMA Handled ==
  ASSUME NEW c, NEW m, NEW d \in ProcessHandshakeMessage(c, m)
  PROVE  \E h : /\ \/ c.suite = "none" /\ m = "server_hello" /\ h = HandleServerHello(c)
                   \/ c.suite = "tls13" /\ Handled13(c, m, h)
                   \/ c.suite \notin {"none", "tls13"} /\ Handled12(c, m, h)
                /\ LET hello == IF h.savedHello
                                THEN [Hashed(h, <<"client_hello">>) EXCEPT !.savedHello = FALSE]
                                ELSE h
                       hashed == Hashed(hello, <<m>>)
                   IN d = IF hashed.state = "TLS1_3_EXPECTING_ENCRYPTED_EXTENSIONS"
                          THEN DeriveHandshakeKeys13(hashed) ELSE hashed
<1>2. ASSUME NEW h \in ProcessHandshakeMessage12(c, m) PROVE Handled12(c, m, h)
  <2>1. CASE m = "certificate"
    BY <1>2, <2>1 DEF ProcessHandshakeMessage12, Handled12, When, HandleHelloRequest12
  <2>2. CASE m = "server_key_exchange"
    BY <1>2, <2>2 DEF ProcessHandshakeMessage12, Handled12, When, HandleHelloRequest12
  <2>3. CASE m = "server_hello_done"
    BY <1>2, <2>3 DEF ProcessHandshakeMessage12, Handled12, When, HandleHelloRequest12
  <2>4. CASE m = "finished"
    BY <1>2, <2>4 DEF ProcessHandshakeMessage12, Handled12, When, HandleHelloRequest12
  <2>5. CASE m = "hello_request"
    BY <1>2, <2>5 DEF ProcessHandshakeMessage12, Handled12, When, HandleHelloRequest12
  <2>6. CASE m \notin {"certificate", "server_key_exchange", "server_hello_done", "finished", "hello_request"}
    BY <1>2, <2>6 DEF ProcessHandshakeMessage12
  <2> QED
    BY <2>1, <2>2, <2>3, <2>4, <2>5, <2>6
<1>3. ASSUME NEW h \in ProcessHandshakeMessage13(c, m) PROVE Handled13(c, m, h)
  <2>1. CASE m = "encrypted_extensions"
    BY <1>3, <2>1 DEF ProcessHandshakeMessage13, Handled13, When, HandleNewSessionTicket13
  <2>2. CASE m = "certificate"
    BY <1>3, <2>2 DEF ProcessHandshakeMessage13, Handled13, When, HandleNewSessionTicket13
  <2>3. CASE m = "certificate_verify"
    BY <1>3, <2>3 DEF ProcessHandshakeMessage13, Handled13, When, HandleNewSessionTicket13
  <2>4. CASE m = "finished"
    BY <1>3, <2>4 DEF ProcessHandshakeMessage13, Handled13, When, HandleNewSessionTicket13
  <2>5. CASE m = "new_session_ticket"
    BY <1>3, <2>5 DEF ProcessHandshakeMessage13, Handled13, When, HandleNewSessionTicket13
  <2>6. CASE m \notin {"encrypted_extensions", "certificate", "certificate_verify", "finished", "new_session_ticket"}
    BY <1>3, <2>6 DEF ProcessHandshakeMessage13
  <2> QED
    BY <2>1, <2>2, <2>3, <2>4, <2>5, <2>6
<1> DEFINE hs == CASE c.suite = "none" -> When(m = "server_hello", HandleServerHello(c))
                   [] Is13(c) -> ProcessHandshakeMessage13(c, m)
                   [] OTHER -> ProcessHandshakeMessage12(c, m)
           hello(h) == IF h.savedHello
                       THEN [Hashed(h, <<"client_hello">>) EXCEPT !.savedHello = FALSE]
                       ELSE h
           hashed(h) == Hashed(hello(h), <<m>>)
<1>4. PICK h \in hs :
        d = IF hashed(h).state = "TLS1_3_EXPECTING_ENCRYPTED_EXTENSIONS"
            THEN DeriveHandshakeKeys13(hashed(h)) ELSE hashed(h)
  BY DEF ProcessHandshakeMessage
<1>5. \/ c.suite = "none" /\ m = "server_hello" /\ h = HandleServerHello(c)
      \/ c.suite = "tls13" /\ Handled13(c, m, h)
      \/ c.suite \notin {"none", "tls13"} /\ Handled12(c, m, h)
  <2>1. CASE c.suite = "none"
    <3>1. h \in When(m = "server_hello", HandleServerHello(c))
      BY <1>4, <2>1 DEF Is13
    <3> QED
      BY <2>1, <3>1 DEF When
  <2>2. CASE c.suite = "tls13"
    <3>1. h \in ProcessHandshakeMessage13(c, m)
      BY <1>4, <2>2 DEF Is13
    <3> QED
      BY <1>3, <2>2, <3>1
  <2>3. CASE c.suite \notin {"none", "tls13"}
    <3>1. h \in ProcessHandshakeMessage12(c, m)
      BY <1>4, <2>3 DEF Is13
    <3> QED
      BY <1>2, <2>3, <3>1
  <2> QED
    BY <2>1, <2>2, <2>3
<1> QED
  BY <1>4, <1>5

LEMMA HashedFits ==
  ASSUME NEW c \in Context, NEW ms \in Seq(Message)
  PROVE  /\ Hashed(c, ms) \in Context
         /\ Hashed(c, ms) = [c EXCEPT !.transcript = Hashed(c, ms).transcript]
         /\ c.state = "HANDSHAKE_COMPLETE" => Hashed(c, ms) = c
         /\ HandshakeInProgress(c) => Hashed(c, ms).transcript = c.transcript \o ms
<1>1. c.state = "HANDSHAKE_COMPLETE" => ~HandshakeInProgress(c)
  BY InProgress
<1>2. c.transcript \o ms \in Seq(Message)
  BY DEF Context
<1>3. CASE HandshakeInProgress(c)
  BY <1>1, <1>2, <1>3 DEF Hashed, Context
<1>4. CASE ~HandshakeInProgress(c)
  BY <1>4 DEF Hashed, Context
<1> QED
  BY <1>3, <1>4

\* Messages are hashed while the handshake goes on, ClientHello before the first.
LEMMA Hashing ==
  ASSUME NEW h \in Context, NEW m \in Message
  PROVE  LET hello == IF h.savedHello
                      THEN [Hashed(h, <<"client_hello">>) EXCEPT !.savedHello = FALSE]
                      ELSE h
             hashed == Hashed(hello, <<m>>)
         IN /\ hashed \in Context
            /\ hashed = [h EXCEPT !.savedHello = FALSE, !.transcript = hashed.transcript]
            /\ h.state = "HANDSHAKE_COMPLETE" => hashed.transcript = h.transcript
            /\ ~h.savedHello /\ HandshakeInProgress(h) =>
                 hashed.transcript = Append(h.transcript, m)
<1> DEFINE hello == IF h.savedHello
                    THEN [Hashed(h, <<"client_hello">>) EXCEPT !.savedHello = FALSE]
                    ELSE h
           hashed == Hashed(hello, <<m>>)
<1>1. \A c \in Context, ms \in Seq(Message) :
        /\ Hashed(c, ms) \in Context
        /\ Hashed(c, ms) = [c EXCEPT !.transcript = Hashed(c, ms).transcript]
        /\ c.state = "HANDSHAKE_COMPLETE" => Hashed(c, ms) = c
        /\ HandshakeInProgress(c) => Hashed(c, ms).transcript = c.transcript \o ms
  BY HashedFits
<1>2. <<m>> \in Seq(Message) /\ <<"client_hello">> \in Seq(Message)
  BY DEF Message
<1>3. /\ hello \in Context
      /\ hello = [h EXCEPT !.savedHello = FALSE, !.transcript = hello.transcript]
      /\ h.state = "HANDSHAKE_COMPLETE" => hello.transcript = h.transcript
      /\ ~h.savedHello => hello = h
      /\ hello.state = h.state
  <2>1. CASE h.savedHello
    <3> DEFINE g == Hashed(h, <<"client_hello">>)
    <3>1. /\ g \in Context
          /\ g = [h EXCEPT !.transcript = g.transcript]
          /\ h.state = "HANDSHAKE_COMPLETE" => g = h
      BY <1>1, <1>2
    <3>2. hello = [g EXCEPT !.savedHello = FALSE]
      BY <2>1
    <3> HIDE DEF g, hello
    <3>3. hello = [h EXCEPT !.savedHello = FALSE, !.transcript = g.transcript]
      BY <3>1, <3>2 DEF Context
    <3>4. g.transcript \in Seq(Message)
      BY <3>1 DEF Context
    <3>5. hello \in Context /\ hello.transcript = g.transcript /\ hello.state = h.state
      BY <3>3, <3>4 DEF Context
    <3>6. h.state = "HANDSHAKE_COMPLETE" => hello.transcript = h.transcript
      BY <3>1, <3>5
    <3> QED
      BY <2>1, <3>3, <3>5, <3>6
  <2>2. CASE ~h.savedHello
    <3>1. hello = h
      BY <2>2
    <3> QED
      BY <2>2, <3>1 DEF Context
  <2> QED
    BY <2>1, <2>2
<1> HIDE DEF hello
<1>4. /\ hashed \in Context
      /\ hashed = [hello EXCEPT !.transcript = hashed.transcript]
      /\ hello.state = "HANDSHAKE_COMPLETE" => hashed.transcript = hello.transcript
      /\ HandshakeInProgress(hello) => hashed.transcript = hello.transcript \o <<m>>
  BY <1>1, <1>2, <1>3
<1> HIDE DEF hashed
<1>5. hashed = [h EXCEPT !.savedHello = FALSE, !.transcript = hashed.transcript]
  BY <1>3, <1>4 DEF Context
<1>6. h.transcript \o <<m>> = Append(h.transcript, m)
  BY DEF Context
<1> QED
  BY <1>3, <1>4, <1>5, <1>6 DEF hello, hashed

LEMMA MessageKeeps ==
  ASSUME Typed, ServerFits, srv.state # "expecting_hello",
         NEW c, InUse(c), NEW m \in ServerMessage, NEW d \in ProcessHandshakeMessage(c, m)
  PROVE  Follows(c, d)
<1>0. m \in Message
  BY DEF Message
<1>1. PICK h :
        /\ \/ c.suite = "none" /\ m = "server_hello" /\ h = HandleServerHello(c)
           \/ c.suite = "tls13" /\ Handled13(c, m, h)
           \/ c.suite \notin {"none", "tls13"} /\ Handled12(c, m, h)
        /\ LET hello == IF h.savedHello
                        THEN [Hashed(h, <<"client_hello">>) EXCEPT !.savedHello = FALSE]
                        ELSE h
               hashed == Hashed(hello, <<m>>)
           IN d = IF hashed.state = "TLS1_3_EXPECTING_ENCRYPTED_EXTENSIONS"
                  THEN DeriveHandshakeKeys13(hashed) ELSE hashed
  BY Handled
<1> DEFINE hello == IF h.savedHello
                    THEN [Hashed(h, <<"client_hello">>) EXCEPT !.savedHello = FALSE]
                    ELSE h
           e == Hashed(hello, <<m>>)
<1>2. d = IF e.state = "TLS1_3_EXPECTING_ENCRYPTED_EXTENSIONS" THEN DeriveHandshakeKeys13(e) ELSE e
  BY <1>1
<1>3. ASSUME h \in Context
      PROVE  /\ e \in Context
             /\ e = [h EXCEPT !.savedHello = FALSE, !.transcript = e.transcript]
             /\ h.state = "HANDSHAKE_COMPLETE" => e.transcript = h.transcript
             /\ ~h.savedHello /\ HandshakeInProgress(h) => e.transcript = Append(h.transcript, m)
  BY <1>0, <1>3, Hashing
<1> HIDE DEF e
<1>c. /\ c \in Context /\ c.state \in State /\ c.suite \in Suites \cup {"none"}
      /\ StateFits(c) /\ KeysFit(c) /\ TranscriptFits(c)
  BY DEF InUse, Context
<1>s. /\ srv.suite \in Suites /\ srv.suite # "none"
      /\ srv.verify \in [key : KeySet, over : Seq(Message)] /\ srv.transcript \in Seq(Message)
  BY DEF ServerFits, Typed, ServerState
<1>4. CASE c.suite = "none"
  <2>1. h = HandleServerHello(c) /\ c.state = "EXPECTING_SERVER_HELLO"
    BY <1>1, <1>4 DEF InUse, StateFits
  <2>2. h = [c EXCEPT !.suite = srv.suite, !.state = h.state]
        /\ h.state = IF srv.suite = "tls13" THEN "TLS1_3_EXPECTING_ENCRYPTED_EXTENSIONS"
                     ELSE "TLS1_2_EXPECTING_CERTIFICATE"
    BY <1>c, <2>1 DEF HandleServerHello, Context
  <2>3. h.state \in State /\ h \in Context
    BY <1>c, <1>s, <2>2 DEF Context, State, ConnectStates12, ConnectStates13
  <2>4. /\ e \in Context
        /\ e = [h EXCEPT !.savedHello = FALSE, !.transcript = e.transcript]
    BY <1>3, <2>3
  <2>5. /\ e.state = h.state /\ e.suite = srv.suite /\ ~e.savedHello /\ e.frag = c.frag
        /\ e.readOn = c.readOn /\ e.writeOn = c.writeOn
        /\ e.readSeq = c.readSeq /\ e.writeSeq = c.writeSeq
    <3>1. /\ h.suite = srv.suite /\ h.frag = c.frag
          /\ h.readOn = c.readOn /\ h.writeOn = c.writeOn
          /\ h.readSeq = c.readSeq /\ h.writeSeq = c.writeSeq
      BY <1>c, <2>2 DEF Context
    <3>2. /\ e.state = h.state /\ e.suite = h.suite /\ ~e.savedHello /\ e.frag = h.frag
          /\ e.readOn = h.readOn /\ e.writeOn = h.writeOn
          /\ e.readSeq = h.readSeq /\ e.writeSeq = h.writeSeq
      BY <2>3, <2>4 DEF Context
    <3> QED
      BY <3>1, <3>2
  <2>6. CASE srv.suite = "tls13"
    <3>1. d = DeriveHandshakeKeys13(e)
      BY <1>2, <2>2, <2>5, <2>6
    <3> DEFINE base == Key("handshake", "client", e.transcript)
               serverBase == Key("handshake", "server", e.transcript)
    <3>2. base \in KeySet /\ serverBase \in KeySet
      <4>1. e.transcript \in Seq(Message)
        BY <2>4 DEF Context
      <4> QED
        BY <4>1, KeyTyped DEF Stage, Side
    <3>3. d = [e EXCEPT !.readKey = serverBase, !.writeKey = base, !.readSeq = 0, !.writeSeq = 0,
                        !.secrets = <<base, serverBase>>, !.readOn = TRUE, !.writeOn = TRUE]
      BY <2>4, <3>1 DEF DeriveHandshakeKeys13, KeysFromSecrets13, Context
    <3> HIDE DEF base, serverBase
    <3>4. /\ d \in Context
          /\ d.state = e.state /\ d.suite = e.suite /\ ~d.savedHello /\ d.frag = c.frag
          /\ d.readOn /\ d.writeOn
      BY <2>4, <2>5, <3>2, <3>3 DEF Context
    <3>5. d.state = "TLS1_3_EXPECTING_ENCRYPTED_EXTENSIONS" /\ d.suite = "tls13"
      BY <2>2, <2>5, <2>6, <3>4
    <3>6. StateFits(d) /\ KeysFit(d) /\ TranscriptFits(d)
      BY <2>6, <3>4, <3>5 DEF StateFits, KeysFit, TranscriptFits, ConnectStates12, ConnectStates13
    <3> QED
      BY <2>1, <3>4, <3>5, <3>6, Ranks DEF Follows, InUse
  <2>7. CASE srv.suite # "tls13"
    <3>1. d = e
      BY <1>2, <2>2, <2>5, <2>7
    <3>2. d.state = "TLS1_2_EXPECTING_CERTIFICATE" /\ d.suite # "tls13"
      BY <2>2, <2>5, <2>7, <3>1
    <3>3. StateFits(d) /\ KeysFit(d) /\ TranscriptFits(d)
      BY <1>c, <1>s, <2>5, <3>1, <3>2
      DEF StateFits, KeysFit, TranscriptFits, ConnectStates12, ConnectStates13
    <3> QED
      BY <2>1, <2>4, <2>5, <3>1, <3>2, <3>3, Ranks DEF Follows, InUse
  <2> QED
    BY <2>6, <2>7
\* Later messages change the state, and one of them the keys.
<1> DEFINE Changed(state, read, write) ==
             [c EXCEPT !.state = state, !.readKey = read, !.writeKey = write]
<1>5. ASSUME NEW state \in State, NEW read \in KeySet, NEW write \in KeySet,
             c.suite # "none", state # "TLS1_3_EXPECTING_ENCRYPTED_EXTENSIONS",
             h = Changed(state, read, write)
      PROVE  /\ d \in Context
             /\ d = [h EXCEPT !.transcript = d.transcript]
             /\ d.frag = c.frag
             /\ state = "HANDSHAKE_COMPLETE" => d.transcript = c.transcript
             /\ state \notin {"HANDSHAKE_COMPLETE", "SENDING_CLOSE_NOTIFY", "CONNECTION_CLOSED"} =>
                  d.transcript = Append(c.transcript, m)
  <2>1. h \in Context /\ h.state = state /\ h.transcript = c.transcript
        /\ h.savedHello = c.savedHello /\ c.savedHello = FALSE
    BY <1>c, <1>5 DEF Context, StateFits
  <2>2. /\ e \in Context
        /\ e = [h EXCEPT !.savedHello = FALSE, !.transcript = e.transcript]
        /\ h.state = "HANDSHAKE_COMPLETE" => e.transcript = h.transcript
        /\ ~h.savedHello /\ HandshakeInProgress(h) => e.transcript = Append(h.transcript, m)
    BY <1>3, <2>1
  <2>3. d = e
    BY <1>2, <1>5, <2>1, <2>2 DEF Context
  <2>4. d = [h EXCEPT !.transcript = d.transcript]
    BY <2>1, <2>2, <2>3 DEF Context
  <2>5. d.frag = c.frag
    BY <1>c, <1>5, <2>4 DEF Context
  <2>6. HandshakeInProgress(h) <=>
          state \notin {"HANDSHAKE_COMPLETE", "SENDING_CLOSE_NOTIFY", "CONNECTION_CLOSED"}
    BY <2>1, InProgress
  <2> QED
    BY <2>1, <2>2, <2>3, <2>4, <2>5, <2>6
<1> HIDE DEF Changed
<1>6. ASSUME NEW state \in State,
             c.suite # "none", state # "TLS1_3_EXPECTING_ENCRYPTED_EXTENSIONS",
             h = [c EXCEPT !.state = state]
      PROVE  /\ d \in Context
             /\ d = [c EXCEPT !.state = state, !.transcript = d.transcript]
             /\ d.frag = c.frag
             /\ state = "HANDSHAKE_COMPLETE" => d.transcript = c.transcript
             /\ state \notin {"HANDSHAKE_COMPLETE", "SENDING_CLOSE_NOTIFY", "CONNECTION_CLOSED"} =>
                  d.transcript = Append(c.transcript, m)
  <2>1. c.readKey \in KeySet /\ c.writeKey \in KeySet
    BY <1>c DEF Context
  <2>2. h = Changed(state, c.readKey, c.writeKey)
    BY <1>c, <1>6 DEF Context, Changed
  <2>3. /\ d \in Context
        /\ d = [h EXCEPT !.transcript = d.transcript]
        /\ d.frag = c.frag
        /\ state = "HANDSHAKE_COMPLETE" => d.transcript = c.transcript
        /\ state \notin {"HANDSHAKE_COMPLETE", "SENDING_CLOSE_NOTIFY", "CONNECTION_CLOSED"} =>
             d.transcript = Append(c.transcript, m)
    BY <1>5, <1>6, <2>1, <2>2
  <2>4. d = [c EXCEPT !.state = state, !.transcript = d.transcript]
    BY <1>c, <1>6, <2>3 DEF Context
  <2> QED
    BY <2>3, <2>4
\* Within the handshake, before what TranscriptFits speaks of.
<1>7. ASSUME NEW state \in State, c.suite # "none", h = [c EXCEPT !.state = state],
             Rank(state) > Rank(c.state),
             \/ /\ c.suite # "tls13"
                /\ state \in {"TLS1_2_EXPECTING_SERVER_KEY_EXCHANGE",
                              "TLS1_2_EXPECTING_SERVER_HELLO_DONE",
                              "TLS1_2_SENDING_CLIENT_KEY_EXCHANGE"}
             \/ /\ c.suite = "tls13" /\ c.state \in ConnectStates13
                /\ state \in {"TLS1_3_EXPECTING_CERTIFICATE", "TLS1_3_EXPECTING_CERTIFICATE_VERIFY",
                              "TLS1_3_EXPECTING_FINISHED"}
      PROVE  Follows(c, d)
  <2>1. /\ d \in Context
        /\ d = [c EXCEPT !.state = state, !.transcript = d.transcript]
        /\ d.frag = c.frag
    BY <1>6, <1>7
  <2>2. /\ d.state = state /\ d.suite = c.suite /\ d.savedHello = c.savedHello
        /\ d.readOn = c.readOn /\ d.writeOn = c.writeOn
        /\ d.readSeq = c.readSeq /\ d.writeSeq = c.writeSeq
    BY <1>c, <2>1 DEF Context
  <2>3. StateFits(d) /\ KeysFit(d) /\ TranscriptFits(d)
    BY <1>c, <1>7, <2>2 DEF StateFits, KeysFit, TranscriptFits, ConnectStates12, ConnectStates13
  <2>4. c.state # "HANDSHAKE_COMPLETE"
    BY <1>7, Ranks
  <2>5. Rank(d.state) >= Rank(c.state)
    BY <1>c, <1>7, <2>1, <2>2, InProgress
  <2> QED
    BY <1>7, <2>1, <2>2, <2>3, <2>4, <2>5 DEF Follows, InUse
\* A message after the handshake is of no account.
<1>8. ASSUME c.suite # "none", c.state = "HANDSHAKE_COMPLETE", h = c
      PROVE  Follows(c, d)
  <2>1. h = [c EXCEPT !.state = c.state]
    BY <1>c, <1>8 DEF Context
  <2>2. d = [c EXCEPT !.state = c.state, !.transcript = c.transcript]
    BY <1>6, <1>8, <1>c, <2>1
  <2>3. d = c
    BY <1>c, <2>2 DEF Context
  <2> QED
    BY <1>c, <1>8, <2>3, InProgress DEF Follows, InUse
<1>9. CASE c.suite = "tls13"
  <2>1. Handled13(c, m, h)
    BY <1>1, <1>9
  <2>2. CASE /\ m = "encrypted_extensions" /\ c.state = "TLS1_3_EXPECTING_ENCRYPTED_EXTENSIONS"
             /\ h = HandleEncryptedExtensions13(c)
    BY <1>7, <1>9, <2>2, Ranks DEF HandleEncryptedExtensions13, State, ConnectStates13
  <2>3. CASE /\ m = "certificate" /\ c.state = "TLS1_3_EXPECTING_CERTIFICATE"
             /\ h = HandleCertificate13(c)
    BY <1>7, <1>9, <2>3, Ranks DEF HandleCertificate13, State, ConnectStates13
  <2>4. CASE /\ m = "certificate_verify" /\ c.state = "TLS1_3_EXPECTING_CERTIFICATE_VERIFY"
             /\ h = HandleCertificateVerify13(c)
    BY <1>7, <1>9, <2>4, Ranks DEF HandleCertificateVerify13, State, ConnectStates13
  <2>5. CASE /\ m = "finished" /\ c.state = "TLS1_3_EXPECTING_FINISHED"
             /\ srv.verify = Proof(c.secrets[2], c.transcript)
             /\ h = HandleFinished13(c)
    <3> DEFINE state == "TLS1_3_SENDING_CHANGE_CIPHER_SPEC"
    <3>1. h = [c EXCEPT !.state = state] /\ state \in State
      BY <2>5 DEF HandleFinished13, State, ConnectStates13
    <3>2. /\ d \in Context
          /\ d = [c EXCEPT !.state = state, !.transcript = d.transcript]
          /\ d.frag = c.frag
          /\ d.transcript = Append(c.transcript, "finished")
      BY <1>6, <1>9, <2>5, <3>1
    <3>3. /\ d.state = state /\ d.suite = c.suite /\ d.savedHello = c.savedHello
          /\ d.readOn = c.readOn /\ d.writeOn = c.writeOn
          /\ d.readSeq = c.readSeq /\ d.writeSeq = c.writeSeq
      BY <1>c, <3>2 DEF Context
    <3>4. srv.suite = "tls13" /\ srv.verify.over = c.transcript
      BY <1>c, <1>9, <2>5 DEF Proof, StateFits
    <3>5. d.transcript = srv.transcript
      BY <3>2, <3>4 DEF ServerFits
    <3>6. StateFits(d) /\ KeysFit(d) /\ TranscriptFits(d)
      BY <1>c, <1>9, <2>5, <3>3, <3>5
      DEF StateFits, KeysFit, TranscriptFits, ConnectStates12, ConnectStates13
    <3> QED
      BY <2>5, <3>2, <3>3, <3>6, Ranks DEF Follows, InUse
  <2>6. CASE m = "new_session_ticket" /\ c.state = "HANDSHAKE_COMPLETE" /\ h = c
    BY <1>8, <1>9, <2>6
  <2> QED
    BY <2>1, <2>2, <2>3, <2>4, <2>5, <2>6 DEF Handled13
<1>10. CASE c.suite \notin {"none", "tls13"}
  <2>1. Handled12(c, m, h)
    BY <1>1, <1>10
  <2>2. CASE /\ m = "certificate" /\ c.state = "TLS1_2_EXPECTING_CERTIFICATE"
             /\ h = HandleCertificate12(c)
    <3> DEFINE state == IF c.suite = "tls12_rsa" THEN "TLS1_2_EXPECTING_SERVER_HELLO_DONE"
                        ELSE "TLS1_2_EXPECTING_SERVER_KEY_EXCHANGE"
    <3>1. h = [c EXCEPT !.state = state]
      BY <2>2 DEF HandleCertificate12
    <3>2. /\ state \in State /\ Rank(state) > Rank(c.state)
          /\ state \in {"TLS1_2_EXPECTING_SERVER_KEY_EXCHANGE", "TLS1_2_EXPECTING_SERVER_HELLO_DONE"}
      BY <2>2, Ranks DEF State, ConnectStates12
    <3> HIDE DEF state
    <3> QED
      BY <1>7, <1>10, <3>1, <3>2
  <2>3. CASE /\ m = "server_key_exchange" /\ c.state = "TLS1_2_EXPECTING_SERVER_KEY_EXCHANGE"
             /\ h = HandleServerKeyExchangeEcdhe12(c)
    <3> DEFINE state == "TLS1_2_EXPECTING_SERVER_HELLO_DONE"
               read == SessionKey12("server")
               write == SessionKey12("client")
    <3>1. /\ h = Changed(state, read, write)
          /\ state \in State /\ read \in KeySet /\ write \in KeySet
      <4>1. h = Changed(state, read, write)
        BY <1>c, <2>3 DEF HandleServerKeyExchangeEcdhe12, Context, Changed
      <4> QED
        BY <4>1, KeyTyped DEF State, ConnectStates12, Side
    <3>a. state # "TLS1_3_EXPECTING_ENCRYPTED_EXTENSIONS" /\ c.suite # "none"
      BY <1>10
    <3> HIDE DEF state, read, write
    <3>2. /\ d \in Context
          /\ d = [h EXCEPT !.transcript = d.transcript]
          /\ d.frag = c.frag
      BY <1>5, <3>a, <3>1
    <3>3. /\ d.state = state /\ d.suite = c.suite /\ d.savedHello = c.savedHello
          /\ d.readOn = c.readOn /\ d.writeOn = c.writeOn
          /\ d.readSeq = c.readSeq /\ d.writeSeq = c.writeSeq
      BY <1>c, <3>1, <3>2 DEF Context, Changed
    <3>4. StateFits(d) /\ KeysFit(d) /\ TranscriptFits(d)
      BY <1>c, <1>10, <2>3, <3>3
      DEF state, StateFits, KeysFit, TranscriptFits, ConnectStates12, ConnectStates13
    <3> QED
      BY <2>3, <3>2, <3>3, <3>4, Ranks DEF state, Follows, InUse
  <2>4. CASE /\ m = "server_hello_done" /\ c.state = "TLS1_2_EXPECTING_SERVER_HELLO_DONE"
             /\ h = HandleServerHelloDone12(c)
    BY <1>7, <1>10, <2>4, Ranks DEF HandleServerHelloDone12, State, ConnectStates12
  <2>5. CASE /\ m = "finished" /\ c.state = "TLS1_2_EXPECTING_FINISHED"
             /\ srv.verify = Proof(c.readKey, c.transcript)
             /\ h = HandleFinished12(c)
    <3> DEFINE state == "HANDSHAKE_COMPLETE"
    <3>1. h = [c EXCEPT !.state = state] /\ state \in State
      BY <2>5 DEF HandleFinished12, State
    <3>2. /\ d \in Context
          /\ d = [c EXCEPT !.state = state, !.transcript = d.transcript]
          /\ d.frag = c.frag
          /\ d.transcript = c.transcript
      BY <1>6, <1>10, <3>1
    <3>3. /\ d.state = state /\ d.suite = c.suite /\ d.savedHello = c.savedHello
          /\ d.readKey = c.readKey /\ d.writeKey = c.writeKey
          /\ d.readOn = c.readOn /\ d.writeOn = c.writeOn
          /\ d.readSeq = c.readSeq /\ d.writeSeq = c.writeSeq
      BY <1>c, <3>2 DEF Context
    <3>4. c.readKey = SessionKey12("server") /\ SessionKey12("server") # Plain
      <4>1. c.readKey = SessionKey12("server")
        BY <1>c, <2>5 DEF KeysFit
      <4> QED
        BY <4>1, KeyTyped DEF Side
    <3>5. srv.suite # "tls13" /\ srv.verify.key = c.readKey /\ srv.verify.over = c.transcript
      BY <1>c, <1>10, <2>5 DEF Proof, StateFits
    <3>6. srv.verify # Proof(Plain, <<>>)
      BY <3>4, <3>5 DEF Proof
    <3>7. srv.state \in {"open", "closed"} /\ srv.transcript = c.transcript
      BY <3>5, <3>6 DEF ServerFits, Proof
    <3>8. StateFits(d) /\ KeysFit(d) /\ TranscriptFits(d)
      BY <1>c, <1>10, <2>5, <3>2, <3>3, <3>7
      DEF StateFits, KeysFit, TranscriptFits, ConnectStates12, ConnectStates13
    <3> QED
      BY <2>5, <3>2, <3>3, <3>8, Ranks DEF Follows, InUse
  <2>6. CASE m = "hello_request" /\ c.state = "HANDSHAKE_COMPLETE" /\ h = c
    BY <1>8, <1>10, <2>6
  <2> QED
    BY <2>1, <2>2, <2>3, <2>4, <2>5, <2>6 DEF Handled12
<1> QED
  BY <1>1, <1>4, <1>9, <1>10

-----------------------------------------------------------------------------
(* Reassembly *)

\* Nothing but what is kept for the next record depends on how messages are cut.
LEMMA FragmentChanged ==
  ASSUME NEW c, InUse(c), NEW f \in Fragment, f # NoFragment => Len(f.got) < f.need,
         NEW d, d = [c EXCEPT !.frag = f]
  PROVE  /\ InUse(d) /\ FragmentFits(d)
         /\ d.state = c.state /\ d.frag = f
<1>1. c \in Context /\ StateFits(c) /\ KeysFit(c) /\ TranscriptFits(c)
  BY DEF InUse
<1>2. /\ d \in Context
      /\ d.state = c.state /\ d.suite = c.suite /\ d.savedHello = c.savedHello
      /\ d.transcript = c.transcript /\ d.readKey = c.readKey /\ d.writeKey = c.writeKey
      /\ d.readOn = c.readOn /\ d.writeOn = c.writeOn
      /\ d.readSeq = c.readSeq /\ d.writeSeq = c.writeSeq /\ d.frag = f
  BY <1>1 DEF Context
<1>3. StateFits(d)
  BY <1>1, <1>2 DEF StateFits
<1>4. KeysFit(d)
  BY <1>1, <1>2 DEF KeysFit
<1>5. TranscriptFits(d)
  BY <1>1, <1>2 DEF TranscriptFits
<1> QED
  BY <1>2, <1>3, <1>4, <1>5 DEF InUse, FragmentFits

\* What one iteration over the bytes of a record makes of the context.
Iterates(c, o) ==
  /\ o.rest \in Seq(Byte)
  /\ o.result \in {"ok"} \cup Failures
  /\ InUse(o.ctx) /\ FragmentFits(o.ctx)
  /\ c.state = "HANDSHAKE_COMPLETE" => o.ctx.state = "HANDSHAKE_COMPLETE"
  /\ Rank(o.ctx.state) >= Rank(c.state)

LEMMA IteratesInPlace ==
  ASSUME NEW c \in Context, NEW d, InUse(d), FragmentFits(d), d.state = c.state,
         NEW rest \in Seq(Byte), NEW result \in Failures
  PROVE  Iterates(c, Outcome(result, d, rest))
<1> DEFINE o == Outcome(result, d, rest)
<1>1. o.rest = rest /\ o.result = result /\ o.ctx = d
  BY DEF Outcome
<1>2. Rank(c.state) \in 1 .. 19
  BY InProgress
<1> HIDE DEF o
<1> QED
  BY <1>1, <1>2 DEF Iterates, o

LEMMA NoFragmentTyped == NoFragment \in Fragment
<1>1. <<>> \in Seq(Byte)
  OBVIOUS
<1> QED
  BY <1>1 DEF NoFragment, Fragment

LEMMA CompleteKeeps ==
  ASSUME Typed, ServerFits, srv.state # "expecting_hello",
         NEW c, InUse(c), NEW type, NEW body, NEW rest \in Seq(Byte),
         NEW o \in Complete(c, type, body, rest)
  PROVE  Iterates(c, o)
<1> DEFINE done == [c EXCEPT !.frag = NoFragment]
           next == IF type \in ServerMessage /\ body = Body(type)
                   THEN ProcessHandshakeMessage(done, type) ELSE {}
<1>1. /\ InUse(done) /\ FragmentFits(done) /\ done.state = c.state /\ done.frag = NoFragment
  BY FragmentChanged, NoFragmentTyped
<1>2. \/ o = Outcome("illegal", done, rest)
      \/ \E n \in next : o = Outcome("ok", n, rest)
  BY DEF Complete
<1>c. c \in Context
  BY DEF InUse
<1> HIDE DEF done
<1>4. CASE o = Outcome("illegal", done, rest)
  BY <1>1, <1>c, <1>4, IteratesInPlace DEF Failures
<1>5. ASSUME NEW n \in next, o = Outcome("ok", n, rest)
      PROVE  Iterates(c, o)
  <2>1. type \in ServerMessage /\ n \in ProcessHandshakeMessage(done, type)
    BY <1>5
  <2>2. Follows(done, n)
    BY <1>1, <2>1, MessageKeeps
  <2>3. FragmentFits(n)
    BY <1>1, <2>2 DEF Follows, FragmentFits
  <2> QED
    BY <1>1, <1>5, <2>2, <2>3 DEF Iterates, Follows, Outcome
<1> QED
  BY <1>2, <1>4, <1>5

LEMMA FragmentKeeps ==
  ASSUME Typed, ServerFits, srv.state # "expecting_hello",
         NEW c, InUse(c), FragmentFits(c), NEW bytes \in Seq(Byte),
         NEW o \in ProcessFragment(c, bytes)
  PROVE  Iterates(c, o)
<1>c. c \in Context /\ c.frag \in Fragment /\ Rank(c.state) \in 1 .. 19
  BY InProgress DEF InUse, Context
<1>0. <<>> \in Seq(Byte) /\ Len(bytes) \in Nat
  OBVIOUS
<1>1. CASE c.frag # NoFragment
  <2> DEFINE missing == c.frag.need - Len(c.frag.got)
  <2>1. o \in ContinueFragment(c, bytes)
    BY <1>1 DEF ProcessFragment
  <2>2. /\ c.frag.got \in Seq(Byte) /\ c.frag.need \in Nat /\ Len(c.frag.got) \in Nat
        /\ Len(c.frag.got) < c.frag.need
    BY <1>c, <1>1 DEF Fragment, FragmentFits
  <2>3. CASE Split(missing, bytes)
    <3> DEFINE f == [c.frag EXCEPT !.got = c.frag.got \o bytes]
               d == [c EXCEPT !.frag = f]
    <3>1. o = Outcome("incomplete", d, <<>>)
      <4>1. o = Outcome("incomplete", [c EXCEPT !.frag.got = c.frag.got \o bytes], <<>>)
        BY <2>1, <2>3 DEF ContinueFragment
      <4>2. [c EXCEPT !.frag.got = c.frag.got \o bytes] = d
        BY <1>c DEF Context
      <4> QED
        BY <4>1, <4>2
    <3>2. c.frag.got \o bytes \in Seq(Byte) /\ Len(c.frag.got \o bytes) = Len(c.frag.got) + Len(bytes)
      BY <2>2
    <3> DEFINE got == c.frag.got \o bytes
    <3>2a. f = [c.frag EXCEPT !.got = got] /\ got \in Seq(Byte) /\ Len(got) = Len(c.frag.got) + Len(bytes)
      BY <3>2
    <3> HIDE DEF got, f
    <3>3. f \in Fragment /\ Len(f.got) < f.need
      <4>1. f \in Fragment /\ f.got = got /\ f.need = c.frag.need
        BY <1>c, <3>2a DEF Fragment
      <4> QED
        BY <1>0, <2>2, <2>3, <3>2a, <4>1 DEF Split
    <3> HIDE DEF f
    <3>4. InUse(d) /\ FragmentFits(d) /\ d.state = c.state
      BY <3>3, FragmentChanged
    <3> HIDE DEF d
    <3> QED
      BY <1>0, <1>c, <3>1, <3>4, IteratesInPlace DEF Failures
  <2>4. CASE ~Split(missing, bytes)
    <3>1. o \in Complete(c, c.frag.type, c.frag.got \o Taken(bytes, missing), Dropped(bytes, missing))
      BY <2>1, <2>4 DEF ContinueFragment
    <3>2. missing \in Nat /\ missing <= Len(bytes)
      BY <1>0, <2>2, <2>4 DEF Split
    <3>3. Dropped(bytes, missing) \in Seq(Byte)
      BY <3>2, CutTyped
    <3> QED
      BY <3>1, <3>3, CompleteKeeps
  <2> QED
    BY <2>3, <2>4
<1>2. CASE c.frag = NoFragment /\ Len(bytes) < HeaderCb
  <2>1. o = Outcome("incomplete", c, <<>>)
    BY <1>2 DEF ProcessFragment
  <2> QED
    BY <1>0, <1>c, <2>1, IteratesInPlace DEF Failures
<1>3. CASE c.frag = NoFragment /\ ~(Len(bytes) < HeaderCb)
  <2>1. PICK header \in HeaderRead(Taken(bytes, HeaderCb)) :
          o \in StartMessage(c, header, Dropped(bytes, HeaderCb))
    BY <1>3 DEF ProcessFragment
  <2>2. header.type \in ServerMessage /\ header.need \in Nat
    <3>1. \A m \in ServerMessage : BodyCb[m] \in Nat
      BY SizeAssumption
    <3>2. CASE \E m \in ServerMessage : Taken(bytes, HeaderCb) = Header(m)
      BY <2>1, <3>1, <3>2 DEF HeaderRead
    <3>3. CASE ~(\E m \in ServerMessage : Taken(bytes, HeaderCb) = Header(m))
      BY <2>1, <3>3 DEF HeaderRead, ServerMessage
    <3> QED
      BY <3>2, <3>3
  <2> DEFINE after == Dropped(bytes, HeaderCb)
  <2>3. after \in Seq(Byte) /\ Len(after) \in Nat
    <3>1. HeaderCb \in Nat /\ HeaderCb <= Len(bytes)
      BY <1>0, <1>3, SizeAssumption
    <3> QED
      BY <3>1, CutTyped
  <2> HIDE DEF after
  <2>4. o \in StartMessage(c, header, after)
    BY <2>1 DEF after
  <2>5. CASE Split(header.need, after)
    <3> DEFINE f == [type |-> header.type, need |-> header.need, got |-> after]
               d == [c EXCEPT !.frag = f]
    <3>1. o = Outcome("incomplete", d, <<>>) \/ o = Outcome("no_memory", c, after)
      BY <2>4, <2>5, Zenon DEF StartMessage
    <3>2. f \in Fragment /\ Len(f.got) < f.need
      BY <2>2, <2>3, <2>5 DEF Fragment, Split
    <3> HIDE DEF f
    <3>3. InUse(d) /\ FragmentFits(d) /\ d.state = c.state
      BY <3>2, FragmentChanged
    <3> HIDE DEF d
    <3>4. InUse(c) /\ FragmentFits(c) /\ c.state = c.state
      OBVIOUS
    <3> QED
      BY <1>0, <1>c, <2>3, <3>1, <3>3, <3>4, IteratesInPlace DEF Failures
  <2>6. CASE ~Split(header.need, after)
    <3>1. o \in Complete(c, header.type, Taken(after, header.need), Dropped(after, header.need))
      BY <2>4, <2>6 DEF StartMessage
    <3>2. header.need <= Len(after)
      BY <2>2, <2>3, <2>6 DEF Split
    <3>3. Dropped(after, header.need) \in Seq(Byte)
      BY <2>2, <2>3, <3>2, CutTyped
    <3> QED
      BY <3>1, <3>3, CompleteKeeps
  <2> QED
    BY <2>5, <2>6
<1> QED
  BY <1>1, <1>2, <1>3
-----------------------------------------------------------------------------
(* Steps of the client *)

Kept == IInv' /\ Advances

\* What a step of the client must leave right if the server does not move.
LEMMA ClientStepKeeps ==
  ASSUME IInv, UNCHANGED srv,
         ctx' \in Context, ClientFits(ctx'), Advances, CallFits',
         call' \in {"none", "idle", "input", "record", "post", "deleted"},
         avail' \in Nat, payload' \in Seq(Byte), toClient' \in Seq(Arriving),
         status' \in {"none", "continue", "ok", "expired"} \cup Failures,
         srv.state = "expecting_hello" => toClient' = <<>> /\ call' \notin {"record", "post"}
  PROVE  Kept
<1>1. ClientFits(ctx)'
  BY DEF ClientFits, StateFits, KeysFit, TranscriptFits, FragmentFits, AppKey
<1>2. Typed'
  BY DEF IInv, Typed
<1>3. ServerFits'
  BY DEF IInv, ServerFits
<1> QED
  BY <1>1, <1>2, <1>3 DEF Kept, IInv

\* A context that is in use has the fields that the properties speak of.
LEMMA InUseFits ==
  ASSUME IInv,
         ctx.state \notin {"SENDING_CLIENT_HELLO", "SENDING_CLOSE_NOTIFY", "CONNECTION_CLOSED"}
  PROVE  InUse(ctx) /\ FragmentFits(ctx)
BY DEF IInv, Typed, ClientFits, InUse

LEMMA Unmoved ==
  ASSUME IInv, UNCHANGED ctx
  PROVE  Advances
<1>1. Rank(ctx.state) \in 1 .. 19
  BY InProgress DEF IInv, Typed
<1> QED
  BY <1>1 DEF Advances

\* The empty buffer, and what is left of the records.
LEMMA BufferFacts ==
  ASSUME IInv
  PROVE  /\ <<>> \in Seq(Byte)
         /\ Len(toClient) \in Nat
         /\ toClient # <<>> =>
              /\ Head(toClient) \in Arriving
              /\ Tail(toClient) \in Seq(Arriving)
              /\ Len(Tail(toClient)) = Len(toClient) - 1
              /\ Len(toClient) > 0
<1>1. toClient \in Seq(Arriving)
  BY DEF IInv, Typed
<1> QED
  BY <1>1, EmptySeq

LEMMA DeleteKeeps ==
  ASSUME IInv, Delete, UNCHANGED <<srv, toClient>>,
         status' \in {"none", "continue", "ok", "expired"} \cup Failures
  PROVE  Kept
<1>1. /\ ctx'.state = "CONNECTION_CLOSED" /\ ctx'.suite = "none" /\ ~ctx'.savedHello
      /\ ~ctx'.readOn /\ ~ctx'.writeOn /\ ctx'.readSeq = 0 /\ ctx'.writeSeq = 0
      /\ ctx'.frag = NoFragment
  BY DEF Delete, NewContext
<1>2. ctx' \in Context
  <2>1. NewContext \in Context
    <3>1. <<Plain, Plain>> \in KeySet \X KeySet /\ <<>> \in Seq(Message)
      BY KeyTyped
    <3> QED
      BY <3>1, KeyTyped, NoFragmentTyped DEF NewContext, Context, State
  <2> QED
    BY <2>1 DEF Delete, Context, State
<1>3. ClientFits(ctx')
  BY <1>1 DEF ClientFits, StateFits, KeysFit, TranscriptFits, FragmentFits,
              ConnectStates12, ConnectStates13
<1>4. Advances
  <2>1. Rank(ctx.state) \in 1 .. 19
    BY InProgress DEF IInv, Typed
  <2> QED
    BY <1>1, <2>1, Ranks DEF Advances
<1>5. /\ call' = "deleted" /\ avail' = 0 /\ payload' = <<>>
  BY DEF Delete
<1>6. CallFits'
  BY <1>1, <1>5 DEF CallFits
<1> QED
  BY <1>2, <1>3, <1>4, <1>5, <1>6, BufferFacts, ClientStepKeeps DEF IInv, Typed, ServerFits

LEMMA WriteClientHelloKeeps ==
  ASSUME IInv, WriteClientHello
  PROVE  Kept
<1>1. CASE Delete /\ status' = "no_memory"
  BY <1>1, DeleteKeeps DEF WriteClientHello, Failures
<1>2. CASE /\ ctx' = [ctx EXCEPT !.savedHello = TRUE, !.state = "EXPECTING_SERVER_HELLO"]
           /\ Return("continue")
  <2>1. /\ ctx \in Context /\ ctx.state = "SENDING_CLIENT_HELLO"
        /\ StateFits(ctx) /\ KeysFit(ctx) /\ FragmentFits(ctx)
    BY DEF WriteClientHello, IInv, Typed, CallFits, ClientFits
  <2>2. /\ ctx' \in Context
        /\ ctx'.state = "EXPECTING_SERVER_HELLO" /\ ctx'.suite = ctx.suite
        /\ ctx'.readOn = ctx.readOn /\ ctx'.writeOn = ctx.writeOn
        /\ ctx'.readSeq = ctx.readSeq /\ ctx'.writeSeq = ctx.writeSeq
        /\ ctx'.frag = ctx.frag
    BY <1>2, <2>1 DEF Context, State
  <2>3. ClientFits(ctx')
    BY <2>1, <2>2 DEF ClientFits, StateFits, KeysFit, TranscriptFits, FragmentFits,
                      ConnectStates12, ConnectStates13
  <2>4. Advances
    BY <2>1, <2>2, Ranks DEF Advances
  <2>5. CallFits' /\ call' = "idle" /\ avail' = 0 /\ payload' = <<>> /\ status' = "continue"
    BY <1>2, <2>2 DEF CallFits, Return
  <2>6. UNCHANGED <<srv, toClient>>
    BY DEF WriteClientHello
  <2> QED
    BY <2>2, <2>3, <2>4, <2>5, <2>6, BufferFacts, ClientStepKeeps DEF IInv, Typed, ServerFits
<1> QED
  BY <1>1, <1>2 DEF WriteClientHello

LEMMA BeginConnectKeeps ==
  ASSUME IInv, BeginConnect
  PROVE  Kept
<1>1. /\ UNCHANGED <<ctx, payload, status, srv, toClient>>
      /\ call = "idle" /\ call' = "input"
      /\ HandshakeInProgress(ctx)
      /\ avail' \in 1 .. Len(toClient)
  BY DEF BeginConnect, Usable
<1>2. ctx.state \notin {"HANDSHAKE_COMPLETE", "SENDING_CLOSE_NOTIFY", "CONNECTION_CLOSED"}
  BY <1>1, InProgress DEF IInv, Typed
<1>3. CallFits'
  BY <1>1, <1>2, BufferFacts DEF IInv, CallFits
<1>4. ClientFits(ctx') /\ ctx' \in Context
  BY <1>1 DEF IInv, Typed
<1> QED
  BY <1>1, <1>3, <1>4, Unmoved, BufferFacts, ClientStepKeeps DEF IInv, Typed, ServerFits

\* Counting a record that was read or written.
LEMMA AfterReadFits ==
  ASSUME NEW c, InUse(c), FragmentFits(c), c.readOn
  PROVE  /\ InUse(AfterRead(c)) /\ FragmentFits(AfterRead(c))
         /\ AfterRead(c).state = c.state
<1> DEFINE d == AfterRead(c)
<1>1. c \in Context /\ StateFits(c) /\ KeysFit(c) /\ TranscriptFits(c)
  BY DEF InUse
<1>2. /\ d \in Context
      /\ d.state = c.state /\ d.suite = c.suite /\ d.savedHello = c.savedHello
      /\ d.transcript = c.transcript /\ d.readKey = c.readKey /\ d.writeKey = c.writeKey
      /\ d.readOn = c.readOn /\ d.writeOn = c.writeOn
      /\ d.writeSeq = c.writeSeq /\ d.frag = c.frag
  <2>1. c.readSeq + 1 \in Nat
    BY <1>1 DEF Context
  <2> DEFINE n == c.readSeq + 1
  <2>2. d = [c EXCEPT !.readSeq = n]
    BY <1>1 DEF AfterRead, Context
  <2> HIDE DEF n, d
  <2>3. n \in Nat
    BY <2>1 DEF n
  <2> QED
    BY <1>1, <2>2, <2>3 DEF Context
<1> HIDE DEF d
<1>3. StateFits(d)
  BY <1>1, <1>2 DEF StateFits
<1>4. KeysFit(d)
  BY <1>1, <1>2 DEF KeysFit
<1>5. TranscriptFits(d)
  BY <1>1, <1>2 DEF TranscriptFits
<1>6. InUse(d) /\ FragmentFits(d) /\ d.state = c.state
  BY <1>2, <1>3, <1>4, <1>5 DEF InUse, FragmentFits
<1> QED
  BY <1>6 DEF d

LEMMA AfterWriteFits ==
  ASSUME NEW c, InUse(c), FragmentFits(c)
  PROVE  /\ InUse(AfterWrite(c)) /\ FragmentFits(AfterWrite(c))
         /\ AfterWrite(c).state = c.state
<1>0. c \in Context
  BY DEF InUse
<1>1. CASE c.writeOn
  <2> DEFINE d == AfterWrite(c)
  <2>1. StateFits(c) /\ KeysFit(c) /\ TranscriptFits(c)
    BY DEF InUse
  <2>2. /\ d \in Context
        /\ d.state = c.state /\ d.suite = c.suite /\ d.savedHello = c.savedHello
        /\ d.transcript = c.transcript /\ d.readKey = c.readKey /\ d.writeKey = c.writeKey
        /\ d.readOn = c.readOn /\ d.writeOn = c.writeOn
        /\ d.readSeq = c.readSeq /\ d.frag = c.frag
    <3>1. c.writeSeq + 1 \in Nat
      BY <1>0 DEF Context
    <3> DEFINE n == c.writeSeq + 1
    <3>2. d = [c EXCEPT !.writeSeq = n]
      BY <1>1, <1>0 DEF AfterWrite, Context
    <3> HIDE DEF n, d
    <3>3. n \in Nat
      BY <3>1 DEF n
    <3> QED
      BY <1>0, <3>2, <3>3 DEF Context
  <2> HIDE DEF d
  <2>3. StateFits(d)
    BY <2>1, <2>2 DEF StateFits
  <2>4. KeysFit(d)
    BY <1>1, <2>1, <2>2 DEF KeysFit
  <2>5. TranscriptFits(d)
    BY <2>1, <2>2 DEF TranscriptFits
  <2>6. InUse(d) /\ FragmentFits(d) /\ d.state = c.state
    BY <2>2, <2>3, <2>4, <2>5 DEF InUse, FragmentFits
  <2> QED
    BY <2>6 DEF d
<1>2. CASE ~c.writeOn
  <2>1. AfterWrite(c) = c
    BY <1>2 DEF AfterWrite
  <2> QED
    BY <2>1
<1> QED
  BY <1>1, <1>2

\* The last two states ask for nothing.
LEMMA ClosingFits ==
  ASSUME NEW c, InUse(c), FragmentFits(c),
         NEW state \in {"SENDING_CLOSE_NOTIFY", "CONNECTION_CLOSED"},
         c.state = "HANDSHAKE_COMPLETE" \/ state = "CONNECTION_CLOSED",
         NEW d, d = [c EXCEPT !.state = state]
  PROVE  /\ d \in Context /\ ClientFits(d) /\ d.state = state
         /\ Rank(d.state) >= Rank(c.state)
<1>1. c \in Context /\ StateFits(c) /\ KeysFit(c)
  BY DEF InUse
<1>2. /\ d \in Context
      /\ d.state = state /\ d.suite = c.suite /\ d.savedHello = c.savedHello
      /\ d.readOn = c.readOn /\ d.writeOn = c.writeOn
      /\ d.readSeq = c.readSeq /\ d.writeSeq = c.writeSeq /\ d.frag = c.frag
  BY <1>1 DEF Context, State
<1>3. ClientFits(d)
  BY <1>1, <1>2 DEF ClientFits, StateFits, KeysFit, TranscriptFits, FragmentFits,
                    ConnectStates12, ConnectStates13
<1>4. Rank(c.state) \in 1 .. 19
  BY <1>1, InProgress
<1>5. Rank(d.state) >= Rank(c.state)
  BY <1>2, <1>4, Ranks
<1> QED
  BY <1>2, <1>3, <1>5

LEMMA ChangeCipherSpecFits ==
  ASSUME NEW c, InUse(c), FragmentFits(c), NEW d \in ProcessChangeCipherSpec(c)
  PROVE  InUse(d) /\ FragmentFits(d) /\ Rank(d.state) >= Rank(c.state)
<1>0. c \in Context /\ StateFits(c) /\ KeysFit(c) /\ TranscriptFits(c) /\ Rank(c.state) \in 1 .. 19
  BY InProgress DEF InUse
<1>1. CASE Is13(c)
  <2>1. d = c
    BY <1>1 DEF ProcessChangeCipherSpec, When
  <2> QED
    BY <1>0, <2>1
<1>2. CASE ~Is13(c)
  <2>1. /\ c.state = "TLS1_2_EXPECTING_CHANGE_CIPHER_SPEC"
        /\ d = [c EXCEPT !.state = "TLS1_2_EXPECTING_FINISHED", !.readOn = TRUE]
    BY <1>2 DEF ProcessChangeCipherSpec, When
  <2>2. /\ d \in Context
        /\ d.state = "TLS1_2_EXPECTING_FINISHED" /\ d.suite = c.suite /\ d.savedHello = c.savedHello
        /\ d.readKey = c.readKey /\ d.writeKey = c.writeKey
        /\ d.readOn /\ d.writeOn = c.writeOn
        /\ d.writeSeq = c.writeSeq /\ d.frag = c.frag
    BY <1>0, <2>1 DEF Context, State, ConnectStates12
  <2>3. StateFits(d) /\ KeysFit(d) /\ TranscriptFits(d)
    BY <1>0, <1>2, <2>1, <2>2
    DEF Is13, StateFits, KeysFit, TranscriptFits, ConnectStates12, ConnectStates13
  <2> QED
    BY <2>1, <2>2, <2>3, Ranks DEF InUse, FragmentFits
<1> QED
  BY <1>1, <1>2

LEMMA ProcessIncomingRecordKeeps ==
  ASSUME IInv, ProcessIncomingRecord
  PROVE  Kept
<1> DEFINE r == Head(toClient)
           sealed == ctx.readOn /\ r.type # "change_cipher_spec"
           opened == IF sealed THEN AfterRead(ctx) ELSE ctx
<1>1. /\ call = "input" /\ avail > 0 /\ toClient' = Tail(toClient) /\ UNCHANGED srv
      /\ IF (sealed /\ ~Opens(ctx, r)) \/ (~sealed /\ r.key # Plain) \/ r.type = "data"
         THEN /\ ctx' = IF sealed /\ Opens(ctx, r) THEN opened ELSE ctx
              /\ Return("illegal")
         ELSE CASE r.type = "handshake" ->
                     /\ ctx' = opened
                     /\ payload' = r.body /\ call' = "record"
                     /\ UNCHANGED <<status, avail>>
                [] r.type = "change_cipher_spec" ->
                     IF ProcessChangeCipherSpec(opened) = {} THEN UNCHANGED ctx /\ Return("illegal")
                     ELSE /\ ctx' \in ProcessChangeCipherSpec(opened)
                          /\ avail' = avail - 1
                          /\ UNCHANGED <<call, payload, status>>
                [] r.type = "close_notify" ->
                     /\ ctx' = [opened EXCEPT !.state = "CONNECTION_CLOSED"]
                     /\ Return(IF sealed THEN "illegal" ELSE "expired")
  <2> HIDE DEF IInv
  <2> QED
    BY Zenon DEF ProcessIncomingRecord
<1>2. /\ avail \in Nat /\ avail <= Len(toClient)
      /\ ctx.state \notin {"SENDING_CLIENT_HELLO", "SENDING_CLOSE_NOTIFY", "CONNECTION_CLOSED"}
  BY <1>1 DEF IInv, Typed, CallFits
<1>3. /\ toClient # <<>> /\ r \in Arriving /\ toClient' \in Seq(Arriving)
      /\ Len(toClient') = Len(toClient) - 1 /\ Len(toClient) \in Nat
      /\ srv.state # "expecting_hello"
      /\ <<>> \in Seq(Byte)
  BY <1>1, <1>2, BufferFacts DEF IInv, ServerFits
<1>4. InUse(ctx) /\ FragmentFits(ctx) /\ ctx.readOn \in BOOLEAN
  BY <1>2, InUseFits DEF IInv, Typed, Context
<1>5. InUse(opened) /\ FragmentFits(opened) /\ opened.state = ctx.state
  BY <1>4, AfterReadFits
<1>r. Rank(ctx.state) \in 1 .. 19
  BY <1>4, InProgress DEF InUse
<1> HIDE DEF sealed, opened, r
<1>6. ASSUME NEW d, d = ctx \/ d = opened, ctx' = d, Return("illegal")
      PROVE  Kept
  <2>1. InUse(d) /\ FragmentFits(d) /\ d.state = ctx.state
    BY <1>4, <1>5, <1>6
  <2>2. ClientFits(ctx') /\ ctx' \in Context /\ Advances
    <3>1. d \in Context /\ ClientFits(d) /\ Rank(d.state) >= Rank(ctx.state)
      BY <1>r, <2>1 DEF ClientFits, InUse
    <3> QED
      BY <1>6, <3>1 DEF Advances
  <2>3. call' = "idle" /\ status' = "illegal" /\ avail' = 0 /\ payload' = <<>>
    BY <1>6 DEF Return
  <2>4. CallFits'
    BY <1>2, <1>6, <2>1, <2>3 DEF CallFits
  <2> QED
    BY <1>1, <1>3, <2>2, <2>3, <2>4, ClientStepKeeps DEF Failures
<1>7. CASE (sealed /\ ~Opens(ctx, r)) \/ (~sealed /\ r.key # Plain) \/ r.type = "data"
  <2>1. Return("illegal") /\ (ctx' = ctx \/ ctx' = opened)
    BY <1>1, <1>7
  <2> QED
    BY <1>6, <2>1
<1>8. CASE /\ ctx' = opened
           /\ payload' = r.body /\ call' = "record"
           /\ UNCHANGED <<status, avail>>
  <2>1. ClientFits(ctx') /\ ctx' \in Context /\ Advances
    BY <1>5, <1>8, <1>r DEF ClientFits, InUse, Advances
  <2>2. payload' \in Seq(Byte)
    BY <1>3, <1>8 DEF Arriving
  <2>3. CallFits'
    BY <1>1, <1>2, <1>3, <1>5, <1>8 DEF CallFits
  <2> QED
    BY <1>1, <1>2, <1>3, <1>8, <2>1, <2>2, <2>3, ClientStepKeeps DEF IInv, Typed
<1>9. CASE /\ ctx' \in ProcessChangeCipherSpec(opened)
           /\ avail' = avail - 1
           /\ UNCHANGED <<call, payload, status>>
  <2>1. InUse(ctx') /\ FragmentFits(ctx') /\ Rank(ctx'.state) >= Rank(opened.state)
    BY <1>5, <1>9, ChangeCipherSpecFits
  <2>2. ClientFits(ctx') /\ ctx' \in Context /\ Advances
    BY <1>5, <2>1 DEF ClientFits, InUse, Advances
  <2>3. avail' \in Nat /\ avail' <= Len(toClient')
    BY <1>1, <1>2, <1>3, <1>9
  <2>4. CallFits'
    BY <1>1, <1>9, <2>1, <2>3 DEF CallFits, InUse
  <2> QED
    BY <1>1, <1>3, <1>9, <2>2, <2>3, <2>4, ClientStepKeeps DEF IInv, Typed
<1>10. CASE /\ ctx' = [opened EXCEPT !.state = "CONNECTION_CLOSED"]
            /\ \/ Return("illegal") \/ Return("expired")
  <2>1. /\ ctx' \in Context /\ ClientFits(ctx') /\ ctx'.state = "CONNECTION_CLOSED"
        /\ Rank(ctx'.state) >= Rank(opened.state)
    BY <1>5, <1>10, ClosingFits
  <2>2. Advances
    BY <1>5, <2>1 DEF Advances
  <2>3. call' = "idle" /\ status' \in {"illegal", "expired"} /\ avail' = 0 /\ payload' = <<>>
    BY <1>10 DEF Return
  <2>4. CallFits'
    BY <2>1, <2>3 DEF CallFits
  <2> QED
    BY <1>1, <1>3, <2>1, <2>2, <2>3, <2>4, ClientStepKeeps DEF Failures
<1>11. CASE ~((sealed /\ ~Opens(ctx, r)) \/ (~sealed /\ r.key # Plain) \/ r.type = "data")
  <2>0. r.type \in {"handshake", "change_cipher_spec", "close_notify"}
    BY <1>3, <1>11 DEF Arriving, RecordType
  <2>1. CASE r.type = "handshake"
    BY <1>1, <1>8, <1>11, <2>1
  <2>2. CASE r.type = "change_cipher_spec"
    <3>1. CASE ProcessChangeCipherSpec(opened) = {}
      BY <1>1, <1>6, <1>11, <2>2, <3>1
    <3>2. CASE ProcessChangeCipherSpec(opened) # {}
      BY <1>1, <1>9, <1>11, <2>2, <3>2
    <3> QED
      BY <3>1, <3>2
  <2>3. CASE r.type = "close_notify"
    <3>1. /\ ctx' = [opened EXCEPT !.state = "CONNECTION_CLOSED"]
          /\ Return(IF sealed THEN "illegal" ELSE "expired")
      BY <1>1, <1>11, <2>3
    <3>2. CASE sealed
      BY <1>10, <3>1, <3>2
    <3>3. CASE ~sealed
      BY <1>10, <3>1, <3>3
    <3> QED
      BY <3>2, <3>3
  <2> QED
    BY <2>0, <2>1, <2>2, <2>3
<1> QED
  BY <1>7, <1>11

LEMMA ProcessMessageKeeps ==
  ASSUME IInv, ProcessMessage
  PROVE  Kept
<1>1. /\ call \in {"record", "post"} /\ UNCHANGED <<srv, toClient>>
  BY DEF ProcessMessage
<1>2. PICK o \in ProcessFragment(ctx, payload) :
        CASE o.result = "ok" /\ o.rest # <<>> ->
               ctx' = o.ctx /\ payload' = o.rest /\ UNCHANGED <<call, avail, status>>
          [] o.result = "ok" /\ o.rest = <<>> /\ call = "record" ->
               /\ ctx' = o.ctx /\ payload' = <<>>
               /\ call' = "input" /\ avail' = avail - 1
               /\ UNCHANGED status
          [] o.result = "ok" /\ o.rest = <<>> /\ call = "post" ->
               ctx' = o.ctx /\ Return("ok")
          [] o.result # "ok" /\ call = "record" ->
               ctx' = o.ctx /\ Return(IF o.result = "incomplete" THEN "continue" ELSE o.result)
          [] o.result # "ok" /\ call = "post" ->
               ctx' = [o.ctx EXCEPT !.state = "CONNECTION_CLOSED"] /\ Return(o.result)
  BY DEF ProcessMessage
<1>3. /\ avail \in Nat
      /\ ctx.state \notin {"SENDING_CLIENT_HELLO", "SENDING_CLOSE_NOTIFY", "CONNECTION_CLOSED"}
      /\ call = "record" => avail > 0 /\ avail <= Len(toClient) + 1
      /\ call = "post" => avail = 0 /\ ctx.state = "HANDSHAKE_COMPLETE"
      /\ srv.state # "expecting_hello"
      /\ payload \in Seq(Byte) /\ Typed /\ ServerFits
  BY <1>1 DEF IInv, Typed, CallFits, ServerFits
<1>4. InUse(ctx) /\ FragmentFits(ctx)
  BY <1>3, InUseFits
<1>5. Iterates(ctx, o)
  BY <1>3, <1>4, FragmentKeeps
<1>6. /\ o.rest \in Seq(Byte) /\ o.result \in {"ok"} \cup Failures
      /\ o.ctx \in Context /\ ClientFits(o.ctx) /\ InUse(o.ctx) /\ FragmentFits(o.ctx)
      /\ o.ctx.state \notin {"SENDING_CLIENT_HELLO", "SENDING_CLOSE_NOTIFY", "CONNECTION_CLOSED"}
      /\ call = "post" => o.ctx.state = "HANDSHAKE_COMPLETE"
      /\ Rank(o.ctx.state) >= Rank(ctx.state)
  BY <1>1, <1>3, <1>5 DEF Iterates, InUse, ClientFits
<1>7. toClient' \in Seq(Arriving) /\ Len(toClient) \in Nat /\ <<>> \in Seq(Byte)
  BY <1>1, BufferFacts DEF IInv, Typed
<1>8. ASSUME ctx' = o.ctx
      PROVE  ctx' \in Context /\ ClientFits(ctx') /\ Advances /\ ctx'.state = o.ctx.state
  BY <1>6, <1>8 DEF Advances
<1>9. CASE /\ ctx' = o.ctx /\ payload' = o.rest /\ UNCHANGED <<call, avail, status>>
  <2>1. CallFits'
    BY <1>1, <1>3, <1>6, <1>9 DEF CallFits
  <2> QED
    BY <1>1, <1>3, <1>6, <1>7, <1>8, <1>9, <2>1, ClientStepKeeps DEF Typed
<1>10. CASE /\ call = "record" /\ ctx' = o.ctx /\ payload' = <<>>
            /\ call' = "input" /\ avail' = avail - 1
            /\ UNCHANGED status
  <2>1. avail' \in Nat /\ avail' <= Len(toClient')
    BY <1>1, <1>3, <1>7, <1>10
  <2>2. CallFits'
    BY <1>6, <1>10, <2>1 DEF CallFits
  <2> QED
    BY <1>1, <1>3, <1>7, <1>8, <1>10, <2>1, <2>2, ClientStepKeeps DEF Typed
<1>11. ASSUME NEW result \in {"ok", "continue"} \cup Failures, Return(result),
              \/ ctx' = o.ctx
              \/ ctx' = [o.ctx EXCEPT !.state = "CONNECTION_CLOSED"]
       PROVE  Kept
  <2>1. call' = "idle" /\ status' = result /\ avail' = 0 /\ payload' = <<>>
    BY <1>11 DEF Return
  <2>2. /\ ctx' \in Context /\ ClientFits(ctx') /\ Advances
        /\ ctx'.state # "SENDING_CLIENT_HELLO"
    <3>1. CASE ctx' = o.ctx
      BY <1>6, <1>8, <3>1
    <3>2. CASE ctx' = [o.ctx EXCEPT !.state = "CONNECTION_CLOSED"]
      <4>1. /\ ctx' \in Context /\ ClientFits(ctx') /\ ctx'.state = "CONNECTION_CLOSED"
            /\ Rank(ctx'.state) >= Rank(o.ctx.state)
        BY <1>6, <3>2, ClosingFits
      <4>2. Rank(ctx'.state) \in 1 .. 19 /\ Rank(o.ctx.state) \in 1 .. 19 /\ Rank(ctx.state) \in 1 .. 19
        BY <1>4, <1>6, <4>1, InProgress DEF InUse
      <4>3. Advances
        <5>1. Rank(o.ctx.state) >= Rank(ctx.state) /\ Rank(ctx'.state) >= Rank(o.ctx.state)
          BY <1>6, <4>1
        <5> QED
          BY <4>2, <5>1 DEF Advances
      <4> QED
        BY <4>1, <4>3
    <3> QED
      BY <1>11, <3>1, <3>2
  <2>3. CallFits'
    BY <2>1, <2>2 DEF CallFits
  <2>4. status' \in {"none", "continue", "ok", "expired"} \cup Failures
    BY <1>11, <2>1
  <2> QED
    BY <1>1, <1>3, <1>7, <2>1, <2>2, <2>3, <2>4, ClientStepKeeps
<1> QED
  <2>1. CASE o.result = "ok" /\ o.rest # <<>>
    BY <1>2, <1>9, <2>1
  <2>2. CASE o.result = "ok" /\ o.rest = <<>> /\ call = "record"
    BY <1>2, <1>10, <2>2
  <2>3. CASE o.result = "ok" /\ o.rest = <<>> /\ call = "post"
    BY <1>2, <1>11, <2>3
  <2>4. CASE o.result # "ok" /\ call = "record"
    <3>1. ctx' = o.ctx /\ Return(IF o.result = "incomplete" THEN "continue" ELSE o.result)
      BY <1>2, <2>4
    <3>2. CASE o.result = "incomplete"
      BY <1>11, <3>1, <3>2
    <3>3. CASE o.result # "incomplete"
      BY <1>6, <1>11, <2>4, <3>1, <3>3
    <3> QED
      BY <3>2, <3>3
  <2>5. CASE o.result # "ok" /\ call = "post"
    BY <1>2, <1>6, <1>11, <2>5
  <2> QED
    BY <1>1, <2>1, <2>2, <2>3, <2>4, <2>5

LEMMA EndConnectKeeps ==
  ASSUME IInv, EndConnect
  PROVE  Kept
<1>1. /\ UNCHANGED <<ctx, srv, toClient>> /\ call = "input"
      /\ call' = "idle" /\ avail' = 0 /\ payload' = <<>> /\ status' \in {"continue", "ok"}
  BY DEF EndConnect, Return
<1>2. CallFits'
  BY <1>1 DEF IInv, CallFits
<1>3. ClientFits(ctx') /\ ctx' \in Context
  BY <1>1 DEF IInv, Typed
<1> QED
  BY <1>1, <1>2, <1>3, Unmoved, BufferFacts, ClientStepKeeps DEF IInv, Typed, ServerFits

LEMMA EncryptMessageKeeps ==
  ASSUME IInv, EncryptMessage
  PROVE  Kept
<1>1. /\ call = "idle" /\ ctx.state = "HANDSHAKE_COMPLETE" /\ ctx' = AfterWrite(ctx)
      /\ UNCHANGED <<call, avail, payload, status, srv, toClient>>
  BY DEF EncryptMessage, Usable
<1>2. InUse(ctx) /\ FragmentFits(ctx)
  BY <1>1, InUseFits
<1>3. InUse(ctx') /\ FragmentFits(ctx') /\ ctx'.state = ctx.state
  BY <1>1, <1>2, AfterWriteFits
<1>4. Rank(ctx.state) \in 1 .. 19
  BY <1>2, InProgress DEF InUse
<1>5. CallFits'
  BY <1>1, <1>3 DEF IInv, CallFits
<1> QED
  BY <1>1, <1>3, <1>4, <1>5, ClientStepKeeps
  DEF IInv, Typed, ServerFits, ClientFits, InUse, Advances

LEMMA DecryptMessageKeeps ==
  ASSUME IInv, DecryptMessage
  PROVE  Kept
<1> DEFINE r == Head(toClient)
<1>1. /\ call = "idle" /\ ctx.state = "HANDSHAKE_COMPLETE" /\ UNCHANGED srv
      /\ toClient # <<>> /\ toClient' = Tail(toClient)
      /\ IF ~Opens(ctx, r)
         THEN UNCHANGED ctx /\ Return("illegal")
         ELSE CASE r.type = "data" -> ctx' = AfterRead(ctx) /\ Return("ok")
                [] r.type = "close_notify" ->
                     /\ ctx' = [AfterRead(ctx) EXCEPT !.state = "CONNECTION_CLOSED"]
                     /\ Return("expired")
                [] r.type = "handshake" ->
                     /\ ctx' = AfterRead(ctx)
                     /\ payload' = r.body /\ call' = "post"
                     /\ UNCHANGED <<status, avail>>
  BY DEF DecryptMessage, Usable
<1>2. /\ r \in Arriving /\ toClient' \in Seq(Arriving) /\ <<>> \in Seq(Byte)
      /\ srv.state # "expecting_hello" /\ avail = 0
  BY <1>1, BufferFacts DEF IInv, ServerFits, CallFits
<1>3. InUse(ctx) /\ FragmentFits(ctx) /\ ctx.readOn
  BY <1>1, InUseFits DEF IInv, ClientFits, KeysFit
<1>4. InUse(AfterRead(ctx)) /\ FragmentFits(AfterRead(ctx)) /\ AfterRead(ctx).state = ctx.state
  BY <1>3, AfterReadFits
<1>r. Rank(ctx.state) \in 1 .. 19
  BY <1>3, InProgress DEF InUse
<1>5. ASSUME NEW d, d = ctx \/ d = AfterRead(ctx), ctx' = d
      PROVE  ctx' \in Context /\ ClientFits(ctx') /\ Advances /\ ctx'.state = ctx.state
  <2>1. d \in Context /\ ClientFits(d) /\ d.state = ctx.state
    BY <1>3, <1>4, <1>5 DEF ClientFits, InUse
  <2> QED
    BY <1>5, <1>r, <2>1 DEF Advances
<1> HIDE DEF r
<1>6. ASSUME NEW result \in {"ok", "illegal"}, Return(result),
             ctx' = ctx \/ ctx' = AfterRead(ctx)
      PROVE  Kept
  <2>1. ctx' \in Context /\ ClientFits(ctx') /\ Advances /\ ctx'.state = ctx.state
    BY <1>5, <1>6
  <2>2. call' = "idle" /\ status' = result /\ avail' = 0 /\ payload' = <<>>
    BY <1>6 DEF Return
  <2>3. CallFits'
    BY <1>1, <2>1, <2>2 DEF CallFits
  <2> QED
    BY <1>1, <1>2, <2>1, <2>2, <2>3, ClientStepKeeps DEF Failures
<1>7. CASE /\ ctx' = [AfterRead(ctx) EXCEPT !.state = "CONNECTION_CLOSED"]
           /\ Return("expired")
  <2>1. /\ ctx' \in Context /\ ClientFits(ctx') /\ ctx'.state = "CONNECTION_CLOSED"
        /\ Rank(ctx'.state) >= Rank(AfterRead(ctx).state)
    BY <1>4, <1>7, ClosingFits
  <2>2. call' = "idle" /\ status' = "expired" /\ avail' = 0 /\ payload' = <<>>
    BY <1>7 DEF Return
  <2>3. CallFits' /\ Advances
    BY <1>4, <2>1, <2>2 DEF CallFits, Advances
  <2> QED
    BY <1>1, <1>2, <2>1, <2>2, <2>3, ClientStepKeeps
<1>8. CASE /\ ctx' = AfterRead(ctx)
           /\ payload' = r.body /\ call' = "post"
           /\ UNCHANGED <<status, avail>>
  <2>1. ctx' \in Context /\ ClientFits(ctx') /\ Advances /\ ctx'.state = ctx.state
    BY <1>5, <1>8
  <2>2. payload' \in Seq(Byte)
    BY <1>2, <1>8 DEF Arriving
  <2>3. CallFits'
    BY <1>1, <1>2, <1>8, <2>1 DEF CallFits
  <2> QED
    BY <1>1, <1>2, <1>8, <2>1, <2>2, <2>3, ClientStepKeeps DEF IInv, Typed
<1>9. CASE ~Opens(ctx, r)
  BY <1>1, <1>6, <1>9
<1>10. CASE Opens(ctx, r)
  <2>1. ctx.readKey # Plain
    <3>1. ctx.readKey \in {AppKey("server"), SessionKey12("server")}
      BY <1>1, <1>3 DEF InUse, KeysFit, TranscriptFits
    <3> QED
      BY <3>1, AppKeyTyped, KeyTyped DEF Side
  <2>2. r.type # "change_cipher_spec"
    BY <1>2, <1>10, <2>1 DEF Arriving, Opens
  <2> QED
    BY <1>1, <1>2, <1>6, <1>7, <1>8, <1>10, <2>2 DEF Arriving, RecordType
<1> QED
  BY <1>9, <1>10

LEMMA ApplyControlTokenKeeps ==
  ASSUME IInv, ApplyControlToken
  PROVE  Kept
<1>1. /\ call = "idle" /\ ctx.state = "HANDSHAKE_COMPLETE"
      /\ ctx' = [ctx EXCEPT !.state = "SENDING_CLOSE_NOTIFY"]
      /\ UNCHANGED <<call, avail, payload, status, srv, toClient>>
  BY DEF ApplyControlToken, Usable
<1>2. InUse(ctx) /\ FragmentFits(ctx)
  BY <1>1, InUseFits
<1>3. /\ ctx' \in Context /\ ClientFits(ctx') /\ ctx'.state = "SENDING_CLOSE_NOTIFY"
      /\ Rank(ctx'.state) >= Rank(ctx.state)
  BY <1>1, <1>2, ClosingFits
<1>4. CallFits' /\ Advances
  BY <1>1, <1>3 DEF IInv, CallFits, Advances
<1> QED
  BY <1>1, <1>3, <1>4, ClientStepKeeps DEF IInv, Typed, ServerFits

LEMMA ShutdownKeeps ==
  ASSUME IInv, Shutdown
  PROVE  Kept
<1>1. /\ call = "idle" /\ ctx.state = "SENDING_CLOSE_NOTIFY"
      /\ ctx' = [AfterWrite(ctx) EXCEPT !.state = "CONNECTION_CLOSED"]
      /\ call' = "idle" /\ status' = "ok" /\ avail' = 0 /\ payload' = <<>>
      /\ UNCHANGED <<srv, toClient>>
  BY DEF Shutdown, Usable, Return
<1>2. ctx \in Context /\ StateFits(ctx) /\ KeysFit(ctx) /\ FragmentFits(ctx)
  BY DEF IInv, Typed, ClientFits
<1> DEFINE d == AfterWrite(ctx)
<1>3. /\ d \in Context /\ d.suite = ctx.suite /\ d.savedHello = ctx.savedHello
      /\ d.readOn = ctx.readOn /\ d.writeOn = ctx.writeOn
      /\ d.readSeq = ctx.readSeq /\ d.frag = ctx.frag
      /\ ~d.writeOn => d.writeSeq = 0
  <2>1. CASE ~ctx.writeOn
    <3>1. d = ctx
      BY <2>1 DEF AfterWrite
    <3> QED
      BY <1>2, <3>1 DEF KeysFit
  <2>2. CASE ctx.writeOn
    <3>1. ctx.writeSeq + 1 \in Nat
      BY <1>2 DEF Context
    <3> DEFINE n == ctx.writeSeq + 1
    <3>2. d = [ctx EXCEPT !.writeSeq = n]
      BY <1>2, <2>2 DEF AfterWrite, Context
    <3> HIDE DEF n, d
    <3>3. n \in Nat
      BY <3>1 DEF n
    <3> QED
      BY <1>2, <2>2, <3>2, <3>3 DEF Context
  <2> QED
    BY <2>1, <2>2
<1> HIDE DEF d
<1>4. ctx' = [d EXCEPT !.state = "CONNECTION_CLOSED"]
  BY <1>1 DEF d
<1>5. /\ ctx' \in Context
      /\ ctx'.state = "CONNECTION_CLOSED" /\ ctx'.suite = ctx.suite
      /\ ctx'.savedHello = ctx.savedHello
      /\ ctx'.readOn = ctx.readOn /\ ctx'.writeOn = d.writeOn
      /\ ctx'.readSeq = ctx.readSeq /\ ctx'.writeSeq = d.writeSeq /\ ctx'.frag = ctx.frag
  BY <1>3, <1>4 DEF Context, State
<1>6. ClientFits(ctx')
  BY <1>2, <1>3, <1>5 DEF ClientFits, StateFits, KeysFit, TranscriptFits, FragmentFits,
                          ConnectStates12, ConnectStates13
<1>7. CallFits' /\ Advances
  BY <1>1, <1>5, Ranks DEF CallFits, Advances
<1> QED
  BY <1>1, <1>5, <1>6, <1>7, BufferFacts, ClientStepKeeps DEF IInv, Typed, ServerFits

LEMMA DeleteSecurityContextKeeps ==
  ASSUME IInv, DeleteSecurityContext
  PROVE  Kept
BY DeleteKeeps DEF DeleteSecurityContext, IInv, Typed

\* What the client's answers make of its context.
LEMMA ChangeCipherSpecSent ==
  ASSUME NEW c, InUse(c), FragmentFits(c),
         c.state \in {"TLS1_2_SENDING_CHANGE_CIPHER_SPEC", "TLS1_3_SENDING_CHANGE_CIPHER_SPEC"}
  PROVE  /\ InUse(ChangeCipherSpec(c)) /\ FragmentFits(ChangeCipherSpec(c))
         /\ Rank(ChangeCipherSpec(c).state) >= Rank(c.state)
<1> DEFINE d == ChangeCipherSpec(c)
<1>0. c \in Context /\ StateFits(c) /\ KeysFit(c) /\ TranscriptFits(c)
  BY DEF InUse
<1>1. CASE c.state = "TLS1_3_SENDING_CHANGE_CIPHER_SPEC"
  <2>1. c.suite = "tls13"
    BY <1>0, <1>1 DEF StateFits, ConnectStates13
  <2>2. d = [c EXCEPT !.state = "TLS1_3_SENDING_FINISHED"]
    BY <2>1 DEF ChangeCipherSpec, Is13
  <2> HIDE DEF d
  <2>3. /\ d \in Context
        /\ d.state = "TLS1_3_SENDING_FINISHED" /\ d.suite = c.suite /\ d.savedHello = c.savedHello
        /\ d.transcript = c.transcript /\ d.readOn = c.readOn /\ d.writeOn = c.writeOn
        /\ d.readSeq = c.readSeq /\ d.writeSeq = c.writeSeq /\ d.frag = c.frag
    BY <1>0, <2>2 DEF Context, State, ConnectStates13
  <2>4. StateFits(d) /\ KeysFit(d) /\ TranscriptFits(d)
    BY <1>0, <1>1, <2>1, <2>3
    DEF StateFits, KeysFit, TranscriptFits, ConnectStates12, ConnectStates13
  <2>5. InUse(d) /\ FragmentFits(d) /\ Rank(d.state) >= Rank(c.state)
    BY <1>1, <2>3, <2>4, Ranks DEF InUse, FragmentFits
  <2> QED
    BY <2>5 DEF d
<1>2. CASE c.state = "TLS1_2_SENDING_CHANGE_CIPHER_SPEC"
  <2>1. c.suite # "tls13" /\ c.suite # "none"
    BY <1>0, <1>2 DEF StateFits, ConnectStates12
  <2>2. d = [c EXCEPT !.state = "TLS1_2_SENDING_FINISHED", !.writeOn = TRUE]
    BY <2>1 DEF ChangeCipherSpec, Is13
  <2> HIDE DEF d
  <2>3. /\ d \in Context
        /\ d.state = "TLS1_2_SENDING_FINISHED" /\ d.suite = c.suite /\ d.savedHello = c.savedHello
        /\ d.readKey = c.readKey /\ d.writeKey = c.writeKey
        /\ d.readOn = c.readOn /\ d.writeOn
        /\ d.readSeq = c.readSeq /\ d.frag = c.frag
    BY <1>0, <2>2 DEF Context, State, ConnectStates12
  <2>4. StateFits(d) /\ KeysFit(d) /\ TranscriptFits(d)
    BY <1>0, <1>2, <2>1, <2>3
    DEF StateFits, KeysFit, TranscriptFits, ConnectStates12, ConnectStates13
  <2>5. InUse(d) /\ FragmentFits(d) /\ Rank(d.state) >= Rank(c.state)
    BY <1>2, <2>3, <2>4, Ranks DEF InUse, FragmentFits
  <2> QED
    BY <2>5 DEF d
<1> QED
  BY <1>1, <1>2

LEMMA ClientKeyExchangeSent ==
  ASSUME NEW c, InUse(c), FragmentFits(c), c.state = "TLS1_2_SENDING_CLIENT_KEY_EXCHANGE"
  PROVE  /\ InUse(ClientKeyExchange12(c)) /\ FragmentFits(ClientKeyExchange12(c))
         /\ Rank(ClientKeyExchange12(c).state) >= Rank(c.state)
<1> DEFINE e == [c EXCEPT !.readKey = SessionKey12("server"), !.writeKey = SessionKey12("client"),
                          !.state = "TLS1_2_SENDING_CHANGE_CIPHER_SPEC"]
           d == Hashed(e, <<"client_key_exchange">>)
<1>0. c \in Context /\ StateFits(c) /\ KeysFit(c) /\ TranscriptFits(c)
  BY DEF InUse
<1>1. c.suite # "tls13" /\ c.suite # "none"
  BY <1>0 DEF StateFits, ConnectStates12
<1>2. /\ e \in Context
      /\ e.state = "TLS1_2_SENDING_CHANGE_CIPHER_SPEC" /\ e.suite = c.suite
      /\ e.savedHello = c.savedHello
      /\ e.readKey = SessionKey12("server") /\ e.writeKey = SessionKey12("client")
      /\ e.readOn = c.readOn /\ e.writeOn = c.writeOn
      /\ e.readSeq = c.readSeq /\ e.writeSeq = c.writeSeq /\ e.frag = c.frag
  BY <1>0, KeyTyped DEF Context, State, ConnectStates12, Side
<1>3. <<"client_key_exchange">> \in Seq(Message)
  BY DEF Message
<1> HIDE DEF e
<1>4. d \in Context /\ d = [e EXCEPT !.transcript = d.transcript]
  BY <1>2, <1>3, HashedFits
<1> HIDE DEF d
<1>5. /\ d.state = e.state /\ d.suite = e.suite /\ d.savedHello = e.savedHello
      /\ d.readKey = e.readKey /\ d.writeKey = e.writeKey
      /\ d.readOn = e.readOn /\ d.writeOn = e.writeOn
      /\ d.readSeq = e.readSeq /\ d.writeSeq = e.writeSeq /\ d.frag = e.frag
  BY <1>2, <1>4 DEF Context
<1>6. StateFits(d) /\ KeysFit(d) /\ TranscriptFits(d)
  BY <1>0, <1>1, <1>2, <1>5
  DEF StateFits, KeysFit, TranscriptFits, ConnectStates12, ConnectStates13
<1>7. InUse(d) /\ FragmentFits(d) /\ Rank(d.state) >= Rank(c.state)
  BY <1>2, <1>4, <1>5, <1>6, Ranks DEF InUse, FragmentFits
<1> QED
  BY <1>7 DEF d, e, ClientKeyExchange12

LEMMA Finished12Sent ==
  ASSUME NEW c, InUse(c), FragmentFits(c), c.state = "TLS1_2_SENDING_FINISHED"
  PROVE  /\ InUse(Finished12(c)) /\ FragmentFits(Finished12(c))
         /\ Rank(Finished12(c).state) >= Rank(c.state)
<1> DEFINE e == [c EXCEPT !.state = "TLS1_2_EXPECTING_CHANGE_CIPHER_SPEC"]
           d == Hashed(e, <<"finished">>)
<1>0. c \in Context /\ StateFits(c) /\ KeysFit(c) /\ TranscriptFits(c)
  BY DEF InUse
<1>1. c.suite # "tls13" /\ c.suite # "none"
  BY <1>0 DEF StateFits, ConnectStates12
<1>2. /\ e \in Context
      /\ e.state = "TLS1_2_EXPECTING_CHANGE_CIPHER_SPEC" /\ e.suite = c.suite
      /\ e.savedHello = c.savedHello
      /\ e.readKey = c.readKey /\ e.writeKey = c.writeKey
      /\ e.readOn = c.readOn /\ e.writeOn = c.writeOn
      /\ e.readSeq = c.readSeq /\ e.writeSeq = c.writeSeq /\ e.frag = c.frag
  BY <1>0 DEF Context, State, ConnectStates12
<1>3. <<"finished">> \in Seq(Message)
  BY DEF Message, ServerMessage
<1> HIDE DEF e
<1>4. d \in Context /\ d = [e EXCEPT !.transcript = d.transcript]
  BY <1>2, <1>3, HashedFits
<1> HIDE DEF d
<1>5. /\ d.state = e.state /\ d.suite = e.suite /\ d.savedHello = e.savedHello
      /\ d.readKey = e.readKey /\ d.writeKey = e.writeKey
      /\ d.readOn = e.readOn /\ d.writeOn = e.writeOn
      /\ d.readSeq = e.readSeq /\ d.writeSeq = e.writeSeq /\ d.frag = e.frag
  BY <1>2, <1>4 DEF Context
<1>6. StateFits(d) /\ KeysFit(d) /\ TranscriptFits(d)
  BY <1>0, <1>1, <1>2, <1>5
  DEF StateFits, KeysFit, TranscriptFits, ConnectStates12, ConnectStates13
<1>7. InUse(d) /\ FragmentFits(d) /\ Rank(d.state) >= Rank(c.state)
  BY <1>2, <1>4, <1>5, <1>6, Ranks DEF InUse, FragmentFits
<1> QED
  BY <1>7 DEF d, e, Finished12

\* The application keys are those of the server, because both were derived over
\* the same transcript.
LEMMA Finished13Sent ==
  ASSUME NEW c, InUse(c), FragmentFits(c), c.state = "TLS1_3_SENDING_FINISHED"
  PROVE  LET d == DeriveApplicationKeys13(AfterWrite(Finished13(c)))
         IN InUse(d) /\ FragmentFits(d) /\ Rank(d.state) >= Rank(c.state)
<1> DEFINE ours == Key("application", "client", c.transcript)
           theirs == Key("application", "server", c.transcript)
           e == Finished13(c)
           f == AfterWrite(e)
           d == DeriveApplicationKeys13(f)
<1>0. c \in Context /\ StateFits(c) /\ KeysFit(c) /\ TranscriptFits(c)
  BY DEF InUse
<1>1. c.suite = "tls13" /\ c.readOn /\ c.writeOn /\ ~c.savedHello
  BY <1>0 DEF StateFits, KeysFit, ConnectStates13
<1>2. /\ ours \in KeySet /\ theirs \in KeySet
      /\ ours = AppKey("client") /\ theirs = AppKey("server")
  <2>1. c.transcript = srv.transcript /\ c.transcript \in Seq(Message)
    BY <1>0 DEF TranscriptFits, Context
  <2> QED
    BY <2>1, KeyTyped DEF AppKey, Stage, Side
<1>3. e = [c EXCEPT !.secrets = <<theirs, ours>>, !.state = "HANDSHAKE_COMPLETE"]
  BY DEF Finished13
<1> HIDE DEF e, ours, theirs
<1>4. /\ e \in Context /\ e.secrets = <<theirs, ours>>
      /\ e.state = "HANDSHAKE_COMPLETE" /\ e.suite = c.suite /\ e.savedHello = c.savedHello
      /\ e.transcript = c.transcript /\ e.readOn = c.readOn /\ e.writeOn = c.writeOn
      /\ e.frag = c.frag
  BY <1>0, <1>2, <1>3 DEF Context, State
<1>5. /\ f \in Context /\ f.secrets = <<theirs, ours>>
      /\ f.state = "HANDSHAKE_COMPLETE" /\ f.suite = c.suite /\ f.savedHello = c.savedHello
      /\ f.transcript = c.transcript /\ f.readOn = c.readOn /\ f.writeOn = c.writeOn
      /\ f.frag = c.frag
  <2>1. e.writeSeq + 1 \in Nat
    BY <1>4 DEF Context
  <2> DEFINE n == e.writeSeq + 1
  <2>2. f = [e EXCEPT !.writeSeq = n]
    BY <1>1, <1>4 DEF AfterWrite, Context
  <2> HIDE DEF n, f
  <2>3. n \in Nat
    BY <2>1 DEF n
  <2> QED
    BY <1>4, <2>2, <2>3 DEF Context
<1> HIDE DEF f
<1>6. d = [f EXCEPT !.readKey = theirs, !.writeKey = ours, !.readSeq = 0, !.writeSeq = 0]
  BY <1>5 DEF DeriveApplicationKeys13, KeysFromSecrets13
<1> HIDE DEF d
<1>7. /\ d \in Context
      /\ d.state = "HANDSHAKE_COMPLETE" /\ d.suite = "tls13" /\ ~d.savedHello
      /\ d.transcript = c.transcript /\ d.readOn /\ d.writeOn
      /\ d.readKey = AppKey("server") /\ d.writeKey = AppKey("client") /\ d.frag = c.frag
  BY <1>1, <1>2, <1>5, <1>6 DEF Context
<1>8. StateFits(d) /\ KeysFit(d) /\ TranscriptFits(d)
  BY <1>0, <1>1, <1>7
  DEF StateFits, KeysFit, TranscriptFits, ConnectStates12, ConnectStates13
<1>9. InUse(d) /\ FragmentFits(d) /\ Rank(d.state) >= Rank(c.state)
  BY <1>7, <1>8, Ranks DEF InUse, FragmentFits
<1> QED
  BY <1>9 DEF d, f, e

LEMMA GenerateOutgoingRecordKeeps ==
  ASSUME IInv, GenerateOutgoingRecord
  PROVE  Kept
<1>1. /\ call = "input" /\ avail' = 0
      /\ UNCHANGED <<call, payload, status, srv, toClient>>
      /\ \/ /\ ctx.state \in {"TLS1_2_SENDING_CHANGE_CIPHER_SPEC", "TLS1_3_SENDING_CHANGE_CIPHER_SPEC"}
            /\ ctx' = ChangeCipherSpec(ctx)
         \/ /\ ctx.state = "TLS1_2_SENDING_CLIENT_KEY_EXCHANGE"
            /\ ctx' = AfterWrite(ClientKeyExchange12(ctx))
         \/ /\ ctx.state = "TLS1_2_SENDING_FINISHED"
            /\ ctx' = AfterWrite(Finished12(ctx))
         \/ /\ ctx.state = "TLS1_3_SENDING_FINISHED"
            /\ ctx' = DeriveApplicationKeys13(AfterWrite(Finished13(ctx)))
  BY Zenon DEF GenerateOutgoingRecord
<1>2. ctx.state \notin {"SENDING_CLIENT_HELLO", "SENDING_CLOSE_NOTIFY", "CONNECTION_CLOSED"}
  BY <1>1 DEF IInv, CallFits
<1>3. InUse(ctx) /\ FragmentFits(ctx)
  BY <1>2, InUseFits
<1>4. InUse(ctx') /\ FragmentFits(ctx') /\ Rank(ctx'.state) >= Rank(ctx.state)
  <2>1. CASE /\ ctx.state \in {"TLS1_2_SENDING_CHANGE_CIPHER_SPEC", "TLS1_3_SENDING_CHANGE_CIPHER_SPEC"}
             /\ ctx' = ChangeCipherSpec(ctx)
    BY <1>3, <2>1, ChangeCipherSpecSent
  <2>2. CASE /\ ctx.state = "TLS1_2_SENDING_CLIENT_KEY_EXCHANGE"
             /\ ctx' = AfterWrite(ClientKeyExchange12(ctx))
    <3>1. /\ InUse(ClientKeyExchange12(ctx)) /\ FragmentFits(ClientKeyExchange12(ctx))
          /\ Rank(ClientKeyExchange12(ctx).state) >= Rank(ctx.state)
      BY <1>3, <2>2, ClientKeyExchangeSent
    <3> QED
      BY <2>2, <3>1, AfterWriteFits
  <2>3. CASE ctx.state = "TLS1_2_SENDING_FINISHED" /\ ctx' = AfterWrite(Finished12(ctx))
    <3>1. /\ InUse(Finished12(ctx)) /\ FragmentFits(Finished12(ctx))
          /\ Rank(Finished12(ctx).state) >= Rank(ctx.state)
      BY <1>3, <2>3, Finished12Sent
    <3> QED
      BY <2>3, <3>1, AfterWriteFits
  <2>4. CASE /\ ctx.state = "TLS1_3_SENDING_FINISHED"
             /\ ctx' = DeriveApplicationKeys13(AfterWrite(Finished13(ctx)))
    BY <1>3, <2>4, Finished13Sent
  <2> QED
    BY <1>1, <2>1, <2>2, <2>3, <2>4
<1>5. CallFits'
  BY <1>1, <1>4, BufferFacts DEF CallFits, InUse
<1> QED
  BY <1>1, <1>4, <1>5, ClientStepKeeps
  DEF IInv, Typed, ServerFits, ClientFits, InUse, Advances

-----------------------------------------------------------------------------
(* Steps of the server *)

\* What a step of the server must leave right: it stays with its suite once the
\* client knows it, and with its transcript once the client has finished.
LEMMA ServerStepKeeps ==
  ASSUME IInv, UNCHANGED <<ctx, call, avail, payload, status>>,
         srv' \in ServerState, ServerFits', toClient' \in Seq(Arriving),
         Len(toClient') \in Nat, Len(toClient') >= Len(toClient),
         ctx.suite # "none" => srv'.suite = srv.suite,
         ctx.state \in {"TLS1_3_SENDING_CHANGE_CIPHER_SPEC", "TLS1_3_SENDING_FINISHED",
                        "HANDSHAKE_COMPLETE"} => srv'.transcript = srv.transcript,
         ctx.state = "HANDSHAKE_COMPLETE" /\ ctx.suite # "tls13" => srv'.state \in {"open", "closed"}
  PROVE  Kept
<1>1. Typed'
  BY DEF IInv, Typed
<1>2. CallFits'
  <2>1. avail \in Nat /\ Len(toClient) \in Nat
    BY BufferFacts DEF IInv, Typed
  <2> QED
    BY <2>1 DEF IInv, CallFits
<1>3. ClientFits(ctx)'
  <2>1. StateFits(ctx)'
    BY DEF IInv, ClientFits, StateFits
  <2>2. KeysFit(ctx)'
    BY DEF IInv, ClientFits, KeysFit, SessionKey12
  <2>3. TranscriptFits(ctx)'
    BY DEF IInv, ClientFits, TranscriptFits, AppKey
  <2>4. FragmentFits(ctx)'
    BY DEF IInv, ClientFits, FragmentFits
  <2> QED
    BY <2>1, <2>2, <2>3, <2>4 DEF ClientFits
<1> QED
  BY <1>1, <1>2, <1>3, Unmoved DEF Kept, IInv

\* Before ServerHello the client has agreed to nothing, and once its handshake is
\* over the server has seen its Finished.
LEMMA ClientBehind ==
  ASSUME IInv
  PROVE  /\ srv.suite = "none" =>
              /\ ctx.suite = "none"
              /\ ctx.state \in {"SENDING_CLIENT_HELLO", "EXPECTING_SERVER_HELLO", "CONNECTION_CLOSED"}
         /\ ctx.state \in {"TLS1_3_SENDING_CHANGE_CIPHER_SPEC", "TLS1_3_SENDING_FINISHED"}
              => srv.suite = "tls13"
         /\ ctx.state = "HANDSHAKE_COMPLETE" =>
              ctx.suite = srv.suite /\ (srv.suite # "tls13" => srv.state \in {"open", "closed"})
BY DEF IInv, ClientFits, StateFits, TranscriptFits, ConnectStates13

LEMMA HandshakeRecordTyped ==
  ASSUME NEW key \in KeySet, NEW bytes \in Seq(Byte)
  PROVE  /\ HandshakeRecord(key, bytes) \in Item
         /\ HandshakeRecord(key, bytes).type = "handshake"
         /\ HandshakeRecord(key, bytes).key = key
BY DEF HandshakeRecord, Item, RecordType

LEMMA ServerRecordTyped ==
  ASSUME NEW key \in KeySet, NEW type \in RecordType, type = "change_cipher_spec" => key = Plain
  PROVE  /\ ServerRecord(type, key) \in Item
         /\ ServerRecord(type, key).type = type
         /\ ServerRecord(type, key).key = key
BY EmptySeq DEF ServerRecord, Item

LEMMA OwnKeyTyped ==
  ASSUME srv \in ServerState
  PROVE  OwnKey \in KeySet /\ OwnKey # Plain
BY KeyTyped, AppKeyTyped DEF OwnKey, Side

LEMMA ServerHelloKeeps ==
  ASSUME IInv, NEW suite \in Suites, ServerHello(suite)
  PROVE  Kept
<1> DEFINE hello == <<"client_hello", "server_hello">>
           hs(side) == Key("handshake", side, hello)
           chain == <<"server_hello", "certificate">>
                    \o (IF suite = "tls12_ecdhe" THEN <<"server_key_exchange">> ELSE <<>>)
                    \o <<"server_hello_done">>
           flight12 == Bytes("server_hello") \o Bytes("certificate")
                       \o (IF suite = "tls12_ecdhe" THEN Bytes("server_key_exchange") ELSE <<>>)
                       \o Bytes("server_hello_done")
           flight13 == Bytes("encrypted_extensions") \o Bytes("certificate")
                       \o Bytes("certificate_verify") \o Bytes("finished")
           signed == hello \o <<"encrypted_extensions", "certificate">>
           verified == Append(signed, "certificate_verify")
           spoken == <<"client_hello">> \o chain
           first13 == HandshakeRecord(Plain, Bytes("server_hello"))
           last13 == HandshakeRecord(hs("server"), flight13)
           first12 == HandshakeRecord(Plain, flight12)
<1>1. /\ srv.state = "expecting_hello" /\ srv.suite = "none"
      /\ UNCHANGED <<ctx, call, avail, payload, status, toClient>>
      /\ toClient = <<>>
  BY DEF ServerHello, IInv, ServerFits
<1>2. /\ suite # "tls13" =>
           srv' = [srv EXCEPT !.state = "expecting_key_exchange", !.suite = suite,
                              !.transcript = spoken, !.unsent = <<first12>>]
      /\ suite = "tls13" =>
           \E ccs \in {<<>>, <<ServerRecord("change_cipher_spec", Plain)>>} :
             srv' = [srv EXCEPT
               !.state = "expecting_finished", !.suite = suite,
               !.transcript = Append(verified, "finished"),
               !.signed = signed, !.verify = Proof(hs("server"), verified),
               !.readKey = hs("client"),
               !.unsent = <<first13>> \o ccs \o <<last13>>]
  BY DEF ServerHello
<1>3. suite # "none" /\ srv \in ServerState
  BY SuiteAssumption DEF IInv, Typed
<1>4. /\ hello \in Seq(Message) /\ signed \in Seq(Message) /\ verified \in Seq(Message)
      /\ spoken \in Seq(Message) /\ Append(verified, "finished") \in Seq(Message)
  <2>1. ServerMessage \subseteq Message /\ "client_hello" \in Message
    BY DEF Message
  <2>2. {"server_hello", "certificate", "server_key_exchange", "server_hello_done", "finished",
         "encrypted_extensions", "certificate_verify"} \subseteq Message
    BY <2>1 DEF ServerMessage
  <2>3. hello \in Seq(Message) /\ <<"client_hello">> \in Seq(Message)
    BY <2>1, <2>2
  <2>4. <<"encrypted_extensions", "certificate">> \in Seq(Message)
    BY <2>2
  <2>5. <<"server_hello", "certificate">> \in Seq(Message) /\ <<"server_hello_done">> \in Seq(Message)
    BY <2>2
  <2>6. (IF suite = "tls12_ecdhe" THEN <<"server_key_exchange">> ELSE <<>>) \in Seq(Message)
    BY <2>2
  <2> DEFINE e == IF suite = "tls12_ecdhe" THEN <<"server_key_exchange">> ELSE <<>>
             a == <<"server_hello", "certificate">>
             b == <<"server_hello_done">>
  <2>7. chain = a \o e \o b
    OBVIOUS
  <2>8. e \in Seq(Message) /\ a \in Seq(Message) /\ b \in Seq(Message)
    BY <2>5, <2>6
  <2> HIDE DEF e, a, b, chain
  <2>9. chain \in Seq(Message)
    BY <2>7, <2>8
  <2>10. spoken \in Seq(Message)
    BY <2>3, <2>9
  <2> HIDE DEF hello
  <2>11. signed \in Seq(Message)
    BY <2>3, <2>4
  <2> HIDE DEF signed
  <2> QED
    BY <2>2, <2>3, <2>10, <2>11
<1>5. flight12 \in Seq(Byte) /\ flight13 \in Seq(Byte) /\ Bytes("server_hello") \in Seq(Byte)
  <2>1. \A m \in ServerMessage : Bytes(m) \in Seq(Byte)
    BY BytesTyped
  <2>2. (IF suite = "tls12_ecdhe" THEN Bytes("server_key_exchange") ELSE <<>>) \in Seq(Byte)
    BY <2>1 DEF ServerMessage
  <2>3. /\ Bytes("server_hello") \in Seq(Byte) /\ Bytes("certificate") \in Seq(Byte)
        /\ Bytes("server_hello_done") \in Seq(Byte) /\ Bytes("encrypted_extensions") \in Seq(Byte)
        /\ Bytes("certificate_verify") \in Seq(Byte) /\ Bytes("finished") \in Seq(Byte)
    BY <2>1 DEF ServerMessage
  <2> DEFINE e == IF suite = "tls12_ecdhe" THEN Bytes("server_key_exchange") ELSE <<>>
  <2>4. flight12 = Bytes("server_hello") \o Bytes("certificate") \o e \o Bytes("server_hello_done")
    OBVIOUS
  <2>5. e \in Seq(Byte)
    BY <2>2
  <2> HIDE DEF e, flight12
  <2>6. flight12 \in Seq(Byte)
    BY <2>3, <2>4, <2>5
  <2> QED
    BY <2>3, <2>6
<1> HIDE DEF hello, chain, signed, flight12, flight13
<1>6. \A side \in Side : hs(side) \in KeySet /\ hs(side) # Plain
  <2>1. \A side \in Side : hs(side) \in KeySet
    BY <1>4, KeyTyped DEF Stage
  <2>2. \A side \in Side : hs(side).stage = "handshake" /\ Plain.stage = "plain"
    BY DEF Key, Plain
  <2> QED
    BY <2>1, <2>2
<1> DEFINE ours == hs("server")
           theirs == hs("client")
<1>6a. ours \in KeySet /\ ours # Plain /\ theirs \in KeySet /\ Plain \in KeySet
  BY <1>6, KeyTyped DEF Side
<1>7. /\ first12 \in Item /\ first13 \in Item
      /\ last13 \in Item /\ last13.type = "handshake" /\ last13.key = ours
      /\ ServerRecord("change_cipher_spec", Plain) \in Item
  BY <1>5, <1>6a, HandshakeRecordTyped, ServerRecordTyped DEF RecordType
<1> HIDE DEF ours, theirs, first12, first13, last13, verified, spoken
<1>8. CASE suite # "tls13"
  <2>1. srv' = [srv EXCEPT !.state = "expecting_key_exchange", !.suite = suite,
                           !.transcript = spoken, !.unsent = <<first12>>]
    BY <1>2, <1>8
  <2>2. <<first12>> \in Seq(Item)
    BY <1>7
  <2>3. /\ srv' \in ServerState /\ srv'.state = "expecting_key_exchange" /\ srv'.suite = suite
        /\ srv'.verify = srv.verify
    BY <1>3, <1>4, <2>1, <2>2 DEF ServerState
  <2>4. srv.verify = Proof(Plain, <<>>)
    BY <1>1 DEF IInv, ServerFits
  <2>5. ServerFits'
    BY <1>3, <1>8, <2>3, <2>4 DEF ServerFits
  <2> QED
    BY <1>1, <2>3, <2>5, ClientBehind, BufferFacts, ServerStepKeeps DEF IInv, Typed
<1>9. CASE suite = "tls13"
  <2>1. PICK ccs \in {<<>>, <<ServerRecord("change_cipher_spec", Plain)>>} :
          srv' = [srv EXCEPT
               !.state = "expecting_finished", !.suite = suite,
               !.transcript = Append(verified, "finished"),
               !.signed = signed, !.verify = Proof(ours, verified),
               !.readKey = theirs,
               !.unsent = <<first13>> \o ccs \o <<last13>>]
    BY <1>2, <1>9 DEF ours, theirs
  <2> DEFINE unsent == <<first13>> \o ccs \o <<last13>>
             transcript == Append(verified, "finished")
             verify == Proof(ours, verified)
  <2>2. ccs \in Seq(Item) /\ <<first13>> \in Seq(Item) /\ <<last13>> \in Seq(Item)
    <3>1. \A i \in Item : <<i>> \in Seq(Item)
      OBVIOUS
    <3>2. <<>> \in Seq(Item)
      OBVIOUS
    <3>3. ccs \in Seq(Item)
      BY <1>7, <2>1, <3>1, <3>2
    <3> QED
      BY <1>7, <3>1, <3>3
  <2>3. /\ unsent \in Seq(Item) /\ Len(unsent) = Len(ccs) + 2 /\ unsent # <<>>
        /\ unsent[Len(unsent)] = last13
    <3> DEFINE front == <<first13>> \o ccs
    <3>1. front \in Seq(Item) /\ Len(front) = Len(ccs) + 1 /\ Len(ccs) \in Nat
      BY <2>2
    <3> HIDE DEF front
    <3>2. /\ front \o <<last13>> \in Seq(Item)
          /\ Len(front \o <<last13>>) = Len(front) + 1
          /\ (front \o <<last13>>)[Len(front) + 1] = last13
      BY <2>2, <3>1
    <3>3. unsent = front \o <<last13>>
      BY DEF front
    <3> HIDE DEF unsent
    <3> QED
      BY <3>1, <3>2, <3>3, EmptySeq
  <2>4. verify \in [key : KeySet, over : Seq(Message)] /\ verify.over = verified
    BY <1>4, <1>6a DEF Proof
  <2>5. transcript \in Seq(Message)
    BY <1>4
  <2>6. srv' = [srv EXCEPT !.state = "expecting_finished", !.suite = suite,
                           !.transcript = transcript, !.signed = signed, !.verify = verify,
                           !.readKey = theirs, !.unsent = unsent]
    BY <2>1
  <2> HIDE DEF unsent, verify, transcript
  <2>7. /\ srv' \in ServerState /\ srv'.state = "expecting_finished" /\ srv'.suite = suite
        /\ srv'.verify = verify /\ srv'.transcript = transcript /\ srv'.unsent = unsent
    BY <1>3, <1>4, <1>6a, <2>3, <2>4, <2>5, <2>6 DEF ServerState
  <2>8. transcript = Append(verify.over, "finished")
    BY <2>4 DEF transcript
  <2>9. ServerFits'
    BY <1>3, <1>6a, <1>7, <1>9, <2>3, <2>7, <2>8 DEF ServerFits
  <2> QED
    BY <1>1, <2>7, <2>9, ClientBehind, BufferFacts, ServerStepKeeps DEF IInv, Typed
<1> QED
  BY <1>8, <1>9

LEMMA ServerReceiveKeeps ==
  ASSUME IInv, ServerReceive
  PROVE  Kept
<1> DEFINE r == Head(toServer)
           hashed == Append(srv.transcript, Head(r.body))
           read == [srv EXCEPT !.readSeq = IF r.key = Plain THEN 0 ELSE @ + 1]
           closed == [read EXCEPT !.state = "closed", !.unsent = <<>>]
           changed == [srv EXCEPT !.state = "expecting_finished",
                                  !.readKey = SessionKey12("client"), !.readSeq = 0]
           exchanged == [read EXCEPT !.state = "expecting_ccs", !.transcript = hashed]
           opened13 == [read EXCEPT !.state = "open", !.readKey = AppKey("client"), !.readSeq = 0]
           opened12 == [read EXCEPT !.state = "open", !.transcript = hashed,
                          !.verify = Proof(SessionKey12("server"), hashed),
                          !.unsent = <<ServerRecord("change_cipher_spec", Plain),
                                       HandshakeRecord(SessionKey12("server"), Bytes("finished"))>>]
<1>1. /\ srv.state \notin {"expecting_hello", "closed"}
      /\ UNCHANGED <<ctx, call, avail, payload, status, toClient>>
      /\ ServerAccepts(r)
      /\ srv' = CASE r.type = "close_notify" -> closed
                  [] r.type = "data" -> read
                  [] r.type = "change_cipher_spec" /\ srv.suite = "tls13" -> srv
                  [] r.type = "change_cipher_spec" /\ srv.suite # "tls13" -> changed
                  [] OTHER -> CASE srv.state = "expecting_key_exchange" -> exchanged
                                [] srv.state = "expecting_finished" /\ srv.suite = "tls13" -> opened13
                                [] srv.state = "expecting_finished" /\ srv.suite # "tls13" -> opened12
  BY Zenon DEF ServerReceive
<1>2. srv \in ServerState
  BY DEF IInv, Typed
<1> DEFINE seq == IF r.key = Plain THEN 0 ELSE srv.readSeq + 1
<1>3. read = [srv EXCEPT !.readSeq = seq] /\ seq \in Nat
  BY <1>2 DEF ServerState
<1> HIDE DEF seq, read
<1>4. /\ read \in ServerState /\ read.state = srv.state /\ read.suite = srv.suite
      /\ read.transcript = srv.transcript /\ read.verify = srv.verify
      /\ read.unsent = srv.unsent
  BY <1>2, <1>3 DEF ServerState
<1>5. \/ srv' = closed
      \/ srv' = read
      \/ srv' = srv
      \/ srv.suite # "tls13" /\ srv.state # "open" /\ srv' = changed
      \/ /\ srv.state = "expecting_key_exchange" /\ r.body = <<"client_key_exchange">>
         /\ srv' = exchanged
      \/ srv.state = "expecting_finished" /\ srv.suite = "tls13" /\ srv' = opened13
      \/ /\ srv.state = "expecting_finished" /\ srv.suite # "tls13"
         /\ r.body = <<"finished", Proof(srv.readKey, srv.transcript)>>
         /\ srv' = opened12
  <2> HIDE DEF r, closed, changed, exchanged, opened12, opened13
  <2>1. srv.state \in {"expecting_key_exchange", "expecting_ccs", "expecting_finished", "open"}
    BY <1>1, <1>2 DEF ServerState
  <2>2. srv.state = "expecting_key_exchange" => r.body = <<"client_key_exchange">>
    BY <1>1 DEF ServerAccepts
  <2>3. srv.state = "open" => r.type \in {"data", "close_notify"}
    BY <1>1 DEF ServerAccepts
  <2>4. srv.state = "expecting_finished" /\ srv.suite # "tls13" =>
          r.body = <<"finished", Proof(srv.readKey, srv.transcript)>>
    BY <1>1 DEF ServerAccepts
  <2>5. srv.state = "expecting_ccs" => r.type = "change_cipher_spec"
    BY <1>1 DEF ServerAccepts
  <2>6. \/ r.type \in {"close_notify", "data", "change_cipher_spec"}
        \/ srv.state \in {"expecting_key_exchange", "expecting_finished"}
    BY <2>1, <2>3, <2>5
  <2>7. \/ srv' = closed
        \/ srv' = read
        \/ srv' = srv
        \/ r.type = "change_cipher_spec" /\ srv.suite # "tls13" /\ srv' = changed
        \/ srv.state = "expecting_key_exchange" /\ srv' = exchanged
        \/ srv.state = "expecting_finished" /\ srv.suite = "tls13" /\ srv' = opened13
        \/ srv.state = "expecting_finished" /\ srv.suite # "tls13" /\ srv' = opened12
    BY <1>1, <2>6
  <2> QED
    BY <2>2, <2>3, <2>4, <2>7
<1>6. /\ srv.suite # "none"
      /\ srv.suite # "tls13" /\ srv.state # "open" => srv.verify = Proof(Plain, <<>>)
      /\ srv.suite = "tls13" => srv.state \in {"expecting_finished", "open"}
  BY <1>1 DEF IInv, ServerFits
\* All that a step leaves as it was, but for the state.
<1>7. ASSUME srv' \in ServerState,
             srv'.suite = srv.suite, srv'.transcript = srv.transcript, srv'.verify = srv.verify,
             srv'.state # "expecting_hello",
             srv.suite = "tls13" => srv'.state \in {"expecting_finished", "open", "closed"},
             srv.state = "open" => srv'.state \in {"open", "closed"},
             srv'.unsent = srv.unsent \/ srv'.state = "closed"
      PROVE  Kept
  <2>1. ServerFits'
    BY <1>1, <1>6, <1>7 DEF IInv, ServerFits, SessionKey12
  <2>2. ctx.state = "HANDSHAKE_COMPLETE" /\ ctx.suite # "tls13" =>
          srv'.state \in {"open", "closed"}
    BY <1>1, <1>7, ClientBehind
  <2>3. /\ toClient' \in Seq(Arriving) /\ Len(toClient') \in Nat
        /\ Len(toClient') >= Len(toClient)
    BY <1>1, BufferFacts DEF IInv, Typed
  <2> QED
    BY <1>1, <1>7, <2>1, <2>2, <2>3, ServerStepKeeps
<1>8. CASE srv' = closed
  <2>1. <<>> \in Seq(Item)
    OBVIOUS
  <2>2. /\ srv' \in ServerState /\ srv'.state = "closed" /\ srv'.suite = srv.suite
        /\ srv'.transcript = srv.transcript /\ srv'.verify = srv.verify
    BY <1>4, <1>8, <2>1 DEF ServerState
  <2> QED
    BY <1>7, <2>2
<1>9. CASE srv' = read
  BY <1>1, <1>4, <1>6, <1>7, <1>9
<1>10. CASE srv' = srv
  BY <1>1, <1>2, <1>6, <1>7, <1>10
<1>11. CASE srv.suite # "tls13" /\ srv.state # "open" /\ srv' = changed
  <2>1. /\ srv' \in ServerState /\ srv'.state = "expecting_finished" /\ srv'.suite = srv.suite
        /\ srv'.transcript = srv.transcript /\ srv'.verify = srv.verify
        /\ srv'.unsent = srv.unsent
    BY <1>2, <1>11, KeyTyped DEF ServerState, Side
  <2> QED
    BY <1>7, <1>11, <2>1
<1>12. CASE srv.state = "expecting_finished" /\ srv.suite = "tls13" /\ srv' = opened13
  <2>1. AppKey("client") \in KeySet
    BY <1>2, AppKeyTyped DEF Side
  <2>2. /\ srv' \in ServerState /\ srv'.state = "open" /\ srv'.suite = srv.suite
        /\ srv'.transcript = srv.transcript /\ srv'.verify = srv.verify
        /\ srv'.unsent = srv.unsent
    BY <1>4, <1>12, <2>1 DEF ServerState
  <2> QED
    BY <1>7, <1>12, <2>2
<1>13. CASE /\ srv.state = "expecting_key_exchange" /\ r.body = <<"client_key_exchange">>
            /\ srv' = exchanged
  <2>1. hashed \in Seq(Message)
    <3>1. Head(r.body) = "client_key_exchange"
      BY <1>13
    <3> QED
      BY <1>2, <3>1 DEF ServerState, Message
  <2> HIDE DEF hashed
  <2>2. /\ srv' \in ServerState /\ srv'.state = "expecting_ccs" /\ srv'.suite = srv.suite
        /\ srv'.verify = srv.verify
    BY <1>4, <1>13, <2>1 DEF ServerState
  <2>3. srv.suite # "tls13"
    BY <1>6, <1>13
  <2>4. ServerFits'
    BY <1>1, <1>6, <1>13, <2>2, <2>3 DEF ServerFits
  <2> QED
    BY <1>1, <1>13, <2>2, <2>3, <2>4, ClientBehind, BufferFacts, ServerStepKeeps DEF IInv, Typed
<1>14. CASE /\ srv.state = "expecting_finished" /\ srv.suite # "tls13"
            /\ r.body = <<"finished", Proof(srv.readKey, srv.transcript)>>
            /\ srv' = opened12
  <2> DEFINE ours == SessionKey12("server")
             verify == Proof(ours, hashed)
             first == ServerRecord("change_cipher_spec", Plain)
             second == HandshakeRecord(ours, Bytes("finished"))
             unsent == <<first, second>>
  <2>1. hashed \in Seq(Message)
    <3>1. Head(r.body) = "finished"
      BY <1>14
    <3> QED
      BY <1>2, <3>1 DEF ServerState, Message, ServerMessage
  <2>2. srv' = [read EXCEPT !.state = "open", !.transcript = hashed, !.verify = verify,
                            !.unsent = unsent]
    BY <1>14
  <2> HIDE DEF hashed
  <2>3. ours \in KeySet /\ Plain \in KeySet
    BY KeyTyped DEF Side
  <2>4. verify \in [key : KeySet, over : Seq(Message)]
    BY <2>1, <2>3 DEF Proof
  <2>5. first \in Item /\ second \in Item
    <3>1. Bytes("finished") \in Seq(Byte)
      BY BytesTyped DEF ServerMessage
    <3> QED
      BY <2>3, <3>1, HandshakeRecordTyped, ServerRecordTyped DEF RecordType
  <2> HIDE DEF first, second
  <2>6. unsent \in Seq(Item)
    BY <2>5
  <2> HIDE DEF unsent
  <2>7. /\ srv' \in ServerState /\ srv'.state = "open" /\ srv'.suite = srv.suite
        /\ srv'.transcript = hashed /\ srv'.verify = verify
    BY <1>4, <2>1, <2>2, <2>4, <2>6 DEF ServerState
  <2>8. ServerFits'
    <3>1. srv'.verify = Proof(SessionKey12("server"), srv'.transcript)
      BY <2>7
    <3> QED
      BY <1>1, <1>6, <1>14, <2>7, <3>1 DEF ServerFits, SessionKey12
  <2> QED
    BY <1>1, <1>14, <2>7, <2>8, ClientBehind, BufferFacts, ServerStepKeeps DEF IInv, Typed
<1> QED
  BY <1>5, <1>8, <1>9, <1>10, <1>11, <1>12, <1>13, <1>14

LEMMA ServerSpeakKeeps ==
  ASSUME IInv, ServerSpeak
  PROVE  Kept
<1>0. srv \in ServerState
  BY DEF IInv, Typed
<1> DEFINE data == ServerRecord("data", OwnKey)
           message == HandshakeRecord(OwnKey, Bytes(IF srv.suite = "tls13" THEN "new_session_ticket"
                                                    ELSE "hello_request"))
<1>1. /\ srv.state \in {"open", "expecting_finished"}
      /\ UNCHANGED <<ctx, call, avail, payload, status, toClient>>
      /\ \E item \in {data, message} : srv' = [srv EXCEPT !.unsent = <<item>>, !.said = srv.said + 1]
  BY DEF ServerSpeak
<1>2. PICK item \in {data, message} : srv' = [srv EXCEPT !.unsent = <<item>>, !.said = srv.said + 1]
  BY <1>1
<1>3. OwnKey \in KeySet /\ OwnKey # Plain
  BY <1>0, OwnKeyTyped
<1>4. data \in Item /\ data.type = "data" /\ data.key = OwnKey
  BY <1>3, ServerRecordTyped DEF RecordType
<1>5. message \in Item /\ message.type = "handshake" /\ message.key = OwnKey
  <2> DEFINE m == IF srv.suite = "tls13" THEN "new_session_ticket" ELSE "hello_request"
  <2>1. m \in ServerMessage
    BY DEF ServerMessage
  <2> HIDE DEF m
  <2>2. Bytes(m) \in Seq(Byte)
    BY <2>1, BytesTyped
  <2>3. message = HandshakeRecord(OwnKey, Bytes(m))
    BY DEF m
  <2> HIDE DEF message
  <2> QED
    BY <1>3, <2>2, <2>3, HandshakeRecordTyped
<1> HIDE DEF data, message
<1>6. item \in Item /\ item.type # "change_cipher_spec" /\ item.key # Plain
  BY <1>2, <1>3, <1>4, <1>5
<1>7. /\ <<item>> \in Seq(Item) /\ Len(<<item>>) = 1 /\ <<item>>[1] = item
      /\ srv.said + 1 \in Nat
  BY <1>0, <1>6 DEF ServerState
<1> DEFINE n == srv.said + 1
           unsent == <<item>>
<1>8. srv' = [srv EXCEPT !.unsent = unsent, !.said = n]
  BY <1>2
<1>9. n \in Nat /\ unsent \in Seq(Item) /\ Len(unsent) = 1 /\ unsent[1] = item
  BY <1>7
<1> HIDE DEF n, unsent
<1>10. /\ srv' \in ServerState /\ srv'.unsent = unsent /\ srv'.state = srv.state
       /\ srv'.suite = srv.suite /\ srv'.transcript = srv.transcript /\ srv'.verify = srv.verify
  BY <1>0, <1>8, <1>9 DEF ServerState
<1>11. ServerFits'
  BY <1>1, <1>6, <1>9, <1>10 DEF IInv, ServerFits, SessionKey12
<1> QED
  BY <1>1, <1>10, <1>11, ClientBehind, BufferFacts, ServerStepKeeps DEF IInv, Typed

LEMMA ServerCloseKeeps ==
  ASSUME IInv, ServerClose
  PROVE  Kept
<1>0. srv \in ServerState
  BY DEF IInv, Typed
<1> DEFINE key == CloseKey
           unsent == <<ServerRecord("close_notify", key)>>
<1>1. /\ srv.state \notin {"expecting_hello", "closed"}
      /\ UNCHANGED <<ctx, call, avail, payload, status, toClient>>
      /\ srv' = [srv EXCEPT !.state = "closed", !.unsent = unsent]
  BY DEF ServerClose
<1>2. key \in KeySet
  <2>1. CASE srv.unsent = <<>>
    BY <1>0, <2>1, OwnKeyTyped DEF CloseKey
  <2>2. CASE srv.unsent # <<>> /\ srv.suite # "tls13"
    <3>1. Head(srv.unsent) \in Item
      BY <1>0, <2>2, EmptySeq DEF ServerState
    <3> QED
      BY <2>2, <3>1 DEF CloseKey, Item
  <2>3. CASE srv.unsent # <<>> /\ srv.suite = "tls13"
    <3>1. srv.unsent \in Seq(Item) /\ Len(srv.unsent) \in Nat /\ Len(srv.unsent) > 0
      BY <1>0, <2>3, EmptySeq DEF ServerState
    <3>2. srv.unsent[Len(srv.unsent)].type # "change_cipher_spec"
      BY <1>1, <2>3 DEF IInv, ServerFits
    <3>3. Head(srv.unsent) = srv.unsent[1] /\ Head(srv.unsent) \in Item
      BY <3>1
    <3>4. CASE Head(srv.unsent).type = "change_cipher_spec"
      <4>1. Len(srv.unsent) # 1
        BY <3>2, <3>3, <3>4
      <4>2. 2 \in 1 .. Len(srv.unsent)
        <5> DEFINE n == Len(srv.unsent)
        <5>1. n \in Nat /\ n > 0 /\ n # 1
          BY <3>1, <4>1
        <5> HIDE DEF n
        <5>2. 2 \in 1 .. n
          BY <5>1
        <5> QED
          BY <5>2 DEF n
      <4>3. srv.unsent[2] \in Item
        BY <3>1, <4>2
      <4>4. key = srv.unsent[2].key
        BY <2>3, <3>4 DEF CloseKey
      <4> QED
        BY <4>3, <4>4 DEF Item
    <3>5. CASE Head(srv.unsent).type # "change_cipher_spec"
      BY <2>3, <3>3, <3>5 DEF CloseKey, Item
    <3> QED
      BY <3>4, <3>5
  <2> QED
    BY <2>1, <2>2, <2>3
<1> HIDE DEF key
<1>3. unsent \in Seq(Item)
  <2>1. ServerRecord("close_notify", key) \in Item
    BY <1>2, ServerRecordTyped DEF RecordType
  <2> QED
    BY <2>1
<1> HIDE DEF unsent
<1>4. /\ srv' \in ServerState /\ srv'.state = "closed"
      /\ srv'.suite = srv.suite /\ srv'.transcript = srv.transcript /\ srv'.verify = srv.verify
  BY <1>0, <1>1, <1>3 DEF ServerState
<1>5. ServerFits'
  BY <1>1, <1>4 DEF IInv, ServerFits, SessionKey12
<1> QED
  BY <1>1, <1>4, <1>5, ClientBehind, BufferFacts, ServerStepKeeps DEF IInv, Typed

LEMMA SendRecordKeeps ==
  ASSUME IInv, srv.unsent # <<>>,
         UNCHANGED <<ctx, call, avail, payload, status>>,
         NEW n \in Nat, n <= Len(Head(srv.unsent).bytes),
         SendRecord(Head(srv.unsent), n)
  PROVE  Kept
<1> DEFINE item == Head(srv.unsent)
           sealed == item.key # Plain
           seq == IF sealed /\ item.key = srv.writeKey THEN srv.writeSeq ELSE 0
           cut == [item EXCEPT !.bytes = Dropped(item.bytes, n)]
           writeKey == IF sealed THEN item.key ELSE srv.writeKey
           writeSeq == IF sealed THEN seq + 1 ELSE srv.writeSeq
           begun == n < Len(item.bytes)
           unsent == IF n < Len(item.bytes) THEN <<cut>> \o Tail(srv.unsent) ELSE Tail(srv.unsent)
           sent == Record(item.type, item.key, seq, Taken(item.bytes, n))
<1>1. /\ toClient' = Append(toClient, sent)
      /\ srv' = [srv EXCEPT !.writeKey = writeKey, !.writeSeq = writeSeq, !.begun = begun,
                            !.unsent = unsent]
  BY DEF SendRecord
<1>2. /\ srv \in ServerState /\ srv.unsent \in Seq(Item) /\ srv.writeSeq \in Nat
      /\ srv.writeKey \in KeySet
  BY DEF IInv, Typed, ServerState
<1>3. /\ item \in Item /\ Tail(srv.unsent) \in Seq(Item)
      /\ Len(srv.unsent) \in Nat /\ Len(srv.unsent) > 0
      /\ Len(Tail(srv.unsent)) = Len(srv.unsent) - 1
      /\ item = srv.unsent[1]
      /\ \A i \in 1 .. Len(srv.unsent) - 1 : Tail(srv.unsent)[i] = srv.unsent[i + 1]
  BY <1>2, EmptySeq
<1> HIDE DEF item
<1>4. /\ item.bytes \in Seq(Byte) /\ item.key \in KeySet /\ item.type \in RecordType
      /\ item.type = "change_cipher_spec" => item.key = Plain
      /\ Len(item.bytes) \in Nat /\ n <= Len(item.bytes)
  BY <1>3 DEF Item, item
<1>5. Taken(item.bytes, n) \in Seq(Byte) /\ Dropped(item.bytes, n) \in Seq(Byte)
  BY <1>4, CutTyped
<1>6. seq \in Nat /\ writeSeq \in Nat /\ writeKey \in KeySet /\ begun \in BOOLEAN
  BY <1>2, <1>4
<1> HIDE DEF seq, writeSeq, writeKey, begun
<1>7. sent \in Arriving
  BY <1>4, <1>5, <1>6 DEF Record, Arriving
<1>8. cut \in Item /\ cut.type = item.type /\ cut.key = item.key
  BY <1>3, <1>5 DEF Item
<1> HIDE DEF cut, sent
<1>9. /\ unsent \in Seq(Item)
      /\ unsent # <<>> =>
           /\ unsent[Len(unsent)].type = srv.unsent[Len(srv.unsent)].type
           /\ unsent[Len(unsent)].key = srv.unsent[Len(srv.unsent)].key
  <2> DEFINE rest == Tail(srv.unsent)
  <2>1. /\ rest \in Seq(Item) /\ Len(rest) = Len(srv.unsent) - 1
        /\ \A i \in 1 .. Len(srv.unsent) - 1 : rest[i] = srv.unsent[i + 1]
        /\ unsent = IF n < Len(item.bytes) THEN <<cut>> \o rest ELSE rest
    BY <1>3
  <2> HIDE DEF rest, unsent
  <2>2. CASE ~(n < Len(item.bytes))
    <3>1. unsent = rest
      BY <2>1, <2>2
    <3>2. rest # <<>> => Len(rest) > 0
      BY <2>1, EmptySeq
    <3> QED
      BY <1>3, <2>1, <3>1, <3>2
  <2>3. CASE n < Len(item.bytes)
    <3>1. /\ unsent = <<cut>> \o rest /\ unsent \in Seq(Item)
          /\ Len(unsent) = Len(srv.unsent)
          /\ unsent[1] = cut
          /\ \A i \in 2 .. Len(srv.unsent) : unsent[i] = rest[i - 1]
      BY <1>3, <1>8, <2>1, <2>3
    <3>2. CASE Len(srv.unsent) = 1
      BY <1>3, <1>8, <3>1, <3>2
    <3>3. CASE Len(srv.unsent) > 1
      <4>1. unsent[Len(srv.unsent)] = srv.unsent[Len(srv.unsent)]
        BY <1>3, <2>1, <3>1, <3>3
      <4> QED
        BY <3>1, <4>1
    <3> QED
      BY <1>3, <3>1, <3>2, <3>3
  <2> QED
    BY <2>2, <2>3
<1> HIDE DEF unsent
<1>10. /\ srv' \in ServerState /\ srv'.unsent = unsent /\ srv'.state = srv.state
       /\ srv'.suite = srv.suite /\ srv'.transcript = srv.transcript /\ srv'.verify = srv.verify
  BY <1>1, <1>2, <1>6, <1>9 DEF ServerState
<1>11. srv.state # "expecting_hello"
  BY DEF IInv, ServerFits
<1>12. srv.unsent # <<>>
  OBVIOUS
<1>13. ServerFits'
  BY <1>9, <1>10, <1>11, <1>12 DEF IInv, ServerFits, SessionKey12
<1>14. /\ toClient' \in Seq(Arriving) /\ Len(toClient') \in Nat
       /\ Len(toClient') >= Len(toClient)
  BY <1>1, <1>7 DEF IInv, Typed
<1> QED
  BY <1>10, <1>13, <1>14, ClientBehind, ServerStepKeeps

LEMMA ServerSendKeeps ==
  ASSUME IInv, ServerSend
  PROVE  Kept
<1> DEFINE item == Head(srv.unsent)
<1>1. /\ srv.unsent # <<>> /\ UNCHANGED <<ctx, call, avail, payload, status>>
      /\ IF item.type = "handshake" THEN \E n \in Cuts(item) : SendRecord(item, n)
         ELSE SendRecord(item, 0)
  BY DEF ServerSend
<1>2. Len(item.bytes) \in Nat
  <2>1. item \in Item
    BY <1>1, EmptySeq DEF IInv, Typed, ServerState
  <2> HIDE DEF item
  <2> QED
    BY <2>1 DEF Item
<1>3. \A n \in Cuts(item) : n \in Nat /\ n <= Len(item.bytes)
  BY <1>2 DEF Cuts
<1>4. CASE item.type = "handshake"
  <2>1. PICK n \in Cuts(item) : SendRecord(item, n)
    BY <1>1, <1>4
  <2> QED
    BY <1>1, <1>3, <2>1, SendRecordKeeps
<1>5. CASE item.type # "handshake"
  BY <1>1, <1>2, <1>5, SendRecordKeeps
<1> QED
  BY <1>4, <1>5

-----------------------------------------------------------------------------
(* The theorems *)

LEMMA InitIInv == Init => IInv
<1> SUFFICES ASSUME Init PROVE IInv
  OBVIOUS
<1>1. ctx = NewContext /\ ctx.state = "SENDING_CLIENT_HELLO" /\ ctx.suite = "none"
      /\ ctx.readSeq = 0 /\ ctx.writeSeq = 0 /\ ctx.frag = NoFragment
  BY DEF Init, NewContext
<1>2. ctx \in Context
  <2>1. <<Plain, Plain>> \in KeySet \X KeySet /\ <<>> \in Seq(Message)
    BY KeyTyped
  <2> QED
    BY <1>1, <2>1, KeyTyped, NoFragmentTyped DEF NewContext, Context, State
<1>3. srv \in ServerState
  <2>1. <<>> \in Seq(Message) /\ <<>> \in Seq(Item)
    OBVIOUS
  <2>2. Proof(Plain, <<>>) \in [key : KeySet, over : Seq(Message)]
    BY <2>1, KeyTyped DEF Proof
  <2> QED
    BY <2>1, <2>2, KeyTyped DEF Init, ServerState
<1>4. /\ srv.state = "expecting_hello" /\ srv.suite = "none" /\ srv.unsent = <<>>
      /\ srv.verify = Proof(Plain, <<>>)
      /\ toClient = <<>> /\ call = "none" /\ avail = 0 /\ payload = <<>> /\ status = "none"
  BY DEF Init
<1>5. <<>> \in Seq(Arriving) /\ <<>> \in Seq(Byte)
  OBVIOUS
<1>6. Typed
  BY <1>2, <1>3, <1>4, <1>5 DEF Typed
<1>7. CallFits
  BY <1>1, <1>4 DEF CallFits
<1>8. ClientFits(ctx)
  BY <1>1 DEF ClientFits, StateFits, KeysFit, TranscriptFits, FragmentFits,
              ConnectStates12, ConnectStates13
<1>9. ServerFits
  BY <1>4 DEF ServerFits
<1> QED
  BY <1>6, <1>7, <1>8, <1>9 DEF IInv

LEMMA NextKeeps == IInv /\ [Next]_vars => Kept
<1> SUFFICES ASSUME IInv, [Next]_vars PROVE Kept
  OBVIOUS
<1>1. CASE WriteClientHello
  BY <1>1, WriteClientHelloKeeps
<1>2. CASE BeginConnect
  BY <1>2, BeginConnectKeeps
<1>3. CASE ProcessIncomingRecord
  BY <1>3, ProcessIncomingRecordKeeps
<1>4. CASE ProcessMessage
  BY <1>4, ProcessMessageKeeps
<1>5. CASE GenerateOutgoingRecord
  BY <1>5, GenerateOutgoingRecordKeeps
<1>6. CASE EndConnect
  BY <1>6, EndConnectKeeps
<1>7. CASE EncryptMessage
  BY <1>7, EncryptMessageKeeps
<1>8. CASE DecryptMessage
  BY <1>8, DecryptMessageKeeps
<1>9. CASE ApplyControlToken
  BY <1>9, ApplyControlTokenKeeps
<1>10. CASE Shutdown
  BY <1>10, ShutdownKeeps
<1>11. CASE DeleteSecurityContext
  BY <1>11, DeleteSecurityContextKeeps
<1>12. CASE \E suite \in Suites : ServerHello(suite)
  BY <1>12, ServerHelloKeeps
<1>13. CASE ServerReceive
  BY <1>13, ServerReceiveKeeps
<1>14. CASE ServerSend
  BY <1>14, ServerSendKeeps
<1>15. CASE ServerSpeak
  BY <1>15, ServerSpeakKeeps
<1>16. CASE ServerClose
  BY <1>16, ServerCloseKeeps
<1>17. CASE UNCHANGED vars
  <2>1. IInv'
    BY <1>17 DEF vars, IInv, Typed, CallFits, ClientFits, StateFits, KeysFit, TranscriptFits,
                 FragmentFits, ServerFits, AppKey
  <2> QED
    BY <1>17, <2>1, Unmoved DEF Kept, vars
<1> QED
  BY <1>1, <1>2, <1>3, <1>4, <1>5, <1>6, <1>7, <1>8, <1>9, <1>10, <1>11, <1>12, <1>13, <1>14,
     <1>15, <1>16, <1>17
  DEF Next, Connect, Server

\* Whatever the sizes of the messages and the cuts of the server, the context,
\* the records and the server are in a state that the next step expects.
THEOREM Invariance == Spec => []IInv
<1>1. IInv /\ [Next]_vars => IInv'
  BY NextKeeps DEF Kept
<1> QED
  BY <1>1, InitIInv, PTL DEF Spec

\* The context has a possible state and suite, counters start when their key is
\* on (tlshs.c:71, 117), and a message kept for the next record is incomplete
\* (tlshs.c:448-484).
THEOREM TypeCorrect == Spec => []TypeOK
<1>1. IInv => TypeOK
  <2> SUFFICES ASSUME IInv PROVE TypeOK
    OBVIOUS
  <2>1. ctx.state \in Range(StateOrder) /\ ctx.suite \in Suites \cup {"none"}
    BY StateSet DEF IInv, Typed, Context
  <2>2. avail \in 0 .. Len(toClient) + 1
    BY BufferFacts DEF IInv, Typed, CallFits
  <2>3. /\ ~ctx.readOn => ctx.readSeq = 0
        /\ ~ctx.writeOn => ctx.writeSeq = 0
        /\ ctx.frag # NoFragment => Len(ctx.frag.got) < ctx.frag.need
    BY DEF IInv, ClientFits, KeysFit, FragmentFits
  <2> QED
    BY <2>1, <2>2, <2>3 DEF TypeOK, IInv, Typed
<1> QED
  BY <1>1, Invariance, PTL

\* A handshake that is complete for the client is one the server agrees with: the
\* same suite, transcript and keys (tlshs13.c:406-470, 1253-1330).
THEOREM HandshakesAgree == Spec => []Agreement
<1>1. IInv => Agreement
  <2> SUFFICES ASSUME IInv, ctx.state = "HANDSHAKE_COMPLETE" PROVE Agreement
    BY DEF Agreement
  <2>1. StateFits(ctx) /\ KeysFit(ctx) /\ TranscriptFits(ctx)
    BY DEF IInv, ClientFits
  <2>2. ctx.suite = srv.suite
    BY <2>1, ClientBehind
  <2> QED
    BY <2>1, <2>2 DEF Agreement, KeysFit, TranscriptFits, OwnKey, Is13
<1> QED
  BY <1>1, Invariance, PTL

\* The handshake never goes back, whatever message the server sends
\* (kxschanlp.h:206-230).
THEOREM StatesAdvance == Spec => StateAdvances
<1>1. IInv /\ [Next]_vars => [Rank(ctx'.state) >= Rank(ctx.state)]_vars
  BY NextKeeps DEF Kept, Advances
<1> QED
  BY <1>1, Invariance, PTL DEF Spec, StateAdvances
=============================================================================
