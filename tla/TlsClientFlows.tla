---------------------------- MODULE TlsClientFlows ----------------------------
(***************************************************************************)
(* Proofs about what is under way between TlsClient and its server.  Where *)
(* the server cuts no header, and no message after the handshake, each     *)
(* record opens where it arrives and what is in it is accepted.            *)
(*                                                                         *)
(* The handshake of the server is one sequence of bytes, and whatever the  *)
(* records it was cut into, the client has come to a place in it, the      *)
(* records under way go on from there, and the server has the rest; the    *)
(* same, with fewer places, for what the client sends.                     *)
(***************************************************************************)
EXTENDS TlsClientProofs

\* Each of q leads from one place to the next, the first from a and the last to b.
Chain(q, a, b, G) ==
  \E ps : /\ ps[1] = a /\ ps[Len(q) + 1] = b
          /\ \A i \in 1 .. Len(q) : <<q[i], ps[i], ps[i + 1]>> \in G

LEMMA ChainNothing == \A a, b, G : Chain(<<>>, a, b, G) <=> a = b
<1>1. ASSUME NEW a, NEW G PROVE Chain(<<>>, a, a, G)
  <2> DEFINE ps == [i \in 1 .. 1 |-> a]
  <2>1. ps[1] = a /\ ps[0 + 1] = a /\ Len(<<>>) = 0
    OBVIOUS
  <2> HIDE DEF ps
  <2> QED
    BY <2>1 DEF Chain
<1>2. ASSUME NEW a, NEW b, NEW G, Chain(<<>>, a, b, G) PROVE a = b
  BY <1>2 DEF Chain
<1> QED
  BY <1>1, <1>2

LEMMA ChainHead ==
  ASSUME NEW R, NEW q \in Seq(R), q # <<>>, NEW a, NEW b, NEW G, Chain(q, a, b, G)
  PROVE  \E m : <<Head(q), a, m>> \in G /\ Chain(Tail(q), m, b, G)
<1>1. PICK ps : /\ ps[1] = a /\ ps[Len(q) + 1] = b
                /\ \A i \in 1 .. Len(q) : <<q[i], ps[i], ps[i + 1]>> \in G
  BY DEF Chain
<1>2. Len(q) \in Nat /\ Len(q) > 0 /\ Head(q) = q[1]
  BY EmptySeq
<1>3. <<Head(q), a, ps[2]>> \in G
  BY <1>1, <1>2
<1> DEFINE t == Tail(q)
           qs == [i \in 1 .. Len(q) |-> ps[i + 1]]
<1>4. Len(t) = Len(q) - 1 /\ \A i \in 1 .. Len(t) : t[i] = q[i + 1]
  BY <1>2
<1>5. \A i \in 1 .. Len(q) : qs[i] = ps[i + 1]
  OBVIOUS
<1> HIDE DEF t, qs
<1>6. qs[1] = ps[2] /\ qs[Len(t) + 1] = b
  BY <1>1, <1>2, <1>4, <1>5
<1>7. ASSUME NEW i \in 1 .. Len(t) PROVE <<t[i], qs[i], qs[i + 1]>> \in G
  <2>1. i \in 1 .. Len(q) /\ i + 1 \in 1 .. Len(q)
    BY <1>2, <1>4
  <2>2. t[i] = q[i + 1] /\ qs[i] = ps[i + 1] /\ qs[i + 1] = ps[(i + 1) + 1]
    BY <1>4, <1>5, <2>1
  <2> QED
    BY <1>1, <2>1, <2>2
<1>8. Chain(t, ps[2], b, G)
  BY <1>6, <1>7 DEF Chain
<1> QED
  BY <1>3, <1>8 DEF t

LEMMA ChainCons ==
  ASSUME NEW R, NEW q \in Seq(R), NEW x \in R, NEW a, NEW m, NEW b, NEW G,
         <<x, a, m>> \in G, Chain(q, m, b, G)
  PROVE  Chain(<<x>> \o q, a, b, G)
<1>1. PICK ps : /\ ps[1] = m /\ ps[Len(q) + 1] = b
                /\ \A i \in 1 .. Len(q) : <<q[i], ps[i], ps[i + 1]>> \in G
  BY DEF Chain
<1> DEFINE t == <<x>> \o q
           qs == [i \in 1 .. Len(q) + 2 |-> IF i = 1 THEN a ELSE ps[i - 1]]
<1>2. /\ Len(q) \in Nat /\ Len(t) = Len(q) + 1 /\ t[1] = x
      /\ \A i \in 1 .. Len(q) : t[i + 1] = q[i]
  OBVIOUS
<1>3. qs[1] = a /\ \A i \in 1 .. Len(q) + 1 : qs[i + 1] = ps[i]
  BY <1>2
<1> HIDE DEF t, qs
<1>4. qs[Len(t) + 1] = b
  BY <1>1, <1>2, <1>3
<1>5. ASSUME NEW i \in 1 .. Len(t) PROVE <<t[i], qs[i], qs[i + 1]>> \in G
  <2>1. CASE i = 1
    <3>1. qs[1 + 1] = ps[1]
      BY <1>2, <1>3
    <3> QED
      BY <1>1, <1>2, <1>3, <2>1, <3>1
  <2>2. CASE i # 1
    <3>1. i - 1 \in 1 .. Len(q) /\ i \in 1 .. Len(q) + 1
      BY <1>2, <2>2
    <3>2. t[(i - 1) + 1] = q[i - 1] /\ qs[(i - 1) + 1] = ps[i - 1] /\ qs[i + 1] = ps[i]
      BY <1>2, <1>3, <3>1
    <3>3. <<q[i - 1], ps[i - 1], ps[(i - 1) + 1]>> \in G
      BY <1>1, <3>1
    <3>4. (i - 1) + 1 = i
      BY <3>1
    <3> QED
      BY <3>2, <3>3, <3>4
  <2> QED
    BY <2>1, <2>2
<1>6. Chain(t, a, b, G)
  BY <1>3, <1>4, <1>5 DEF Chain
<1> QED
  BY <1>6 DEF t

LEMMA ChainAppend ==
  ASSUME NEW R, NEW q \in Seq(R), NEW x \in R, NEW a, NEW m, NEW b, NEW G,
         Chain(q, a, m, G), <<x, m, b>> \in G
  PROVE  Chain(Append(q, x), a, b, G)
<1>1. PICK ps : /\ ps[1] = a /\ ps[Len(q) + 1] = m
                /\ \A i \in 1 .. Len(q) : <<q[i], ps[i], ps[i + 1]>> \in G
  BY DEF Chain
<1> DEFINE t == Append(q, x)
           qs == [i \in 1 .. Len(q) + 2 |-> IF i = Len(q) + 2 THEN b ELSE ps[i]]
<1>2. /\ Len(q) \in Nat /\ Len(t) = Len(q) + 1 /\ t[Len(q) + 1] = x
      /\ \A i \in 1 .. Len(q) : t[i] = q[i]
  OBVIOUS
<1>3. qs[Len(q) + 2] = b /\ \A i \in 1 .. Len(q) + 1 : qs[i] = ps[i]
  BY <1>2
<1> HIDE DEF t, qs
<1>4. qs[1] = a /\ qs[Len(t) + 1] = b
  <2>1. (Len(q) + 1) + 1 = Len(q) + 2 /\ 1 \in 1 .. Len(q) + 1
    BY <1>2
  <2> QED
    BY <1>1, <1>2, <1>3, <2>1
<1>5. ASSUME NEW i \in 1 .. Len(t) PROVE <<t[i], qs[i], qs[i + 1]>> \in G
  <2>1. CASE i = Len(q) + 1
    <3>1. i + 1 = Len(q) + 2 /\ i \in 1 .. Len(q) + 1
      BY <1>2, <2>1
    <3> QED
      BY <1>1, <1>2, <1>3, <2>1, <3>1
  <2>2. CASE i # Len(q) + 1
    <3>1. i \in 1 .. Len(q) /\ i \in 1 .. Len(q) + 1 /\ i + 1 \in 1 .. Len(q) + 1
      BY <1>2, <2>2
    <3> QED
      BY <1>1, <1>2, <1>3, <3>1
  <2> QED
    BY <2>1, <2>2
<1>6. Chain(t, a, b, G)
  BY <1>4, <1>5 DEF Chain
<1> QED
  BY <1>6 DEF t

-----------------------------------------------------------------------------
(* The handshake of the server as bytes *)

Size(m) == HeaderCb + BodyCb[m]

\* The messages of the server's part of the handshake.
Said(suite) ==
  CASE suite = "tls13" -> {"server_hello", "encrypted_extensions", "certificate",
                           "certificate_verify", "finished"}
    [] suite = "tls12_ecdhe" -> {"server_hello", "certificate", "server_key_exchange",
                                 "server_hello_done", "finished"}
    [] OTHER -> {"server_hello", "certificate", "server_hello_done", "finished"}

\* How many bytes of it come before a message, or before what comes after it.
Before(suite, m) ==
  LET extensions == IF suite = "tls13" THEN Size("encrypted_extensions") ELSE 0
      exchange == IF suite = "tls12_ecdhe" THEN Size("server_key_exchange") ELSE 0
      certificate == Size("server_hello") + extensions + Size("certificate")
      last == certificate + (IF suite = "tls13" THEN Size("certificate_verify")
                             ELSE exchange + Size("server_hello_done"))
  IN CASE m = "server_hello" -> 0
       [] m = "encrypted_extensions" -> Size("server_hello")
       [] m = "certificate" -> Size("server_hello") + extensions
       [] m = "server_key_exchange" -> certificate
       [] m = "certificate_verify" -> certificate
       [] m = "server_hello_done" -> certificate + exchange
       [] m = "finished" -> last
       [] OTHER -> last + Size("finished")

Hello == <<"client_hello", "server_hello">>
Flight12(suite) ==
  IF suite = "tls12_ecdhe"
  THEN <<"client_hello", "server_hello", "certificate", "server_key_exchange", "server_hello_done">>
  ELSE <<"client_hello", "server_hello", "certificate", "server_hello_done">>
Heard13 ==
  <<"client_hello", "server_hello", "encrypted_extensions", "certificate",
    "certificate_verify", "finished">>

HsKey(side) == Key("handshake", side, Hello)
DataKey(suite, side) ==
  IF suite = "tls13" THEN Key("application", side, Heard13) ELSE SessionKey12(side)

\* The key that a message of the handshake is written with.
MessageKey(suite, m) ==
  CASE m = "server_hello" -> Plain
    [] m # "server_hello" /\ suite = "tls13" -> HsKey("server")
    [] m = "finished" /\ suite # "tls13" -> SessionKey12("server")
    [] OTHER -> Plain

\* bytes come after the first n of the handshake, all written with key.
Runs(suite, bytes, n, key) ==
  \A i \in 1 .. Len(bytes) :
    /\ bytes[i][1] \in Said(suite)
    /\ bytes[i][2] \in 1 .. Size(bytes[i][1])
    /\ Before(suite, bytes[i][1]) + bytes[i][2] = n + i
    /\ MessageKey(suite, bytes[i][1]) = key

\* Not inside a header.
Clean(suite, n) ==
  \A m \in Said(suite) : \A j \in 1 .. HeaderCb : j < HeaderCb => n # Before(suite, m) + j

LEMMA Sizes ==
  /\ HeaderCb \in Nat /\ HeaderCb >= 1
  /\ \A m \in ServerMessage : BodyCb[m] \in Nat /\ Size(m) \in Nat /\ Size(m) >= 1
                              /\ Size(m) = HeaderCb + BodyCb[m] /\ HeaderCb <= Size(m)
  /\ \A suite : Said(suite) \subseteq ServerMessage
<1>1. /\ HeaderCb \in Nat /\ HeaderCb >= 1
      /\ \A m \in ServerMessage : BodyCb[m] \in Nat
  BY SizeAssumption
<1>2. \A suite : Said(suite) \subseteq ServerMessage
  BY DEF Said, ServerMessage
<1> QED
  BY <1>1, <1>2 DEF Size

\* Where the messages of each suite begin.
LEMMA Offsets13 ==
  /\ Said("tls13") = {"server_hello", "encrypted_extensions", "certificate",
                      "certificate_verify", "finished"}
  /\ Before("tls13", "server_hello") = 0
  /\ Before("tls13", "encrypted_extensions") = Size("server_hello")
  /\ Before("tls13", "certificate") = Size("server_hello") + Size("encrypted_extensions")
  /\ Before("tls13", "certificate_verify") =
       Size("server_hello") + Size("encrypted_extensions") + Size("certificate")
  /\ Before("tls13", "finished") =
       Size("server_hello") + Size("encrypted_extensions") + Size("certificate")
       + Size("certificate_verify")
  /\ Before("tls13", "none") =
       Size("server_hello") + Size("encrypted_extensions") + Size("certificate")
       + Size("certificate_verify") + Size("finished")
BY Sizes DEF Before, Said, ServerMessage

LEMMA OffsetsEcdhe ==
  /\ Said("tls12_ecdhe") = {"server_hello", "certificate", "server_key_exchange",
                            "server_hello_done", "finished"}
  /\ Before("tls12_ecdhe", "server_hello") = 0
  /\ Before("tls12_ecdhe", "certificate") = Size("server_hello")
  /\ Before("tls12_ecdhe", "server_key_exchange") = Size("server_hello") + Size("certificate")
  /\ Before("tls12_ecdhe", "server_hello_done") =
       Size("server_hello") + Size("certificate") + Size("server_key_exchange")
  /\ Before("tls12_ecdhe", "finished") =
       Size("server_hello") + Size("certificate") + Size("server_key_exchange")
       + Size("server_hello_done")
  /\ Before("tls12_ecdhe", "none") =
       Size("server_hello") + Size("certificate") + Size("server_key_exchange")
       + Size("server_hello_done") + Size("finished")
BY Sizes DEF Before, Said, ServerMessage

LEMMA OffsetsRsa ==
  /\ Said("tls12_rsa") = {"server_hello", "certificate", "server_hello_done", "finished"}
  /\ Before("tls12_rsa", "server_hello") = 0
  /\ Before("tls12_rsa", "certificate") = Size("server_hello")
  /\ Before("tls12_rsa", "server_hello_done") = Size("server_hello") + Size("certificate")
  /\ Before("tls12_rsa", "finished") =
       Size("server_hello") + Size("certificate") + Size("server_hello_done")
  /\ Before("tls12_rsa", "none") =
       Size("server_hello") + Size("certificate") + Size("server_hello_done") + Size("finished")
BY Sizes DEF Before, Said, ServerMessage

Suite == {"tls12_rsa", "tls12_ecdhe", "tls13"}

LEMMA OffsetsTyped ==
  ASSUME NEW suite \in Suite, NEW m \in Said(suite) \cup {"none"}
  PROVE  Before(suite, m) \in Nat
<1>1. \A k \in ServerMessage : Size(k) \in Nat
  BY Sizes
<1>2. /\ Size("server_hello") \in Nat /\ Size("certificate") \in Nat /\ Size("finished") \in Nat
      /\ Size("encrypted_extensions") \in Nat /\ Size("certificate_verify") \in Nat
      /\ Size("server_key_exchange") \in Nat /\ Size("server_hello_done") \in Nat
  BY <1>1 DEF ServerMessage
<1>3. CASE suite = "tls13"
  BY <1>2, <1>3, Offsets13
<1>4. CASE suite = "tls12_ecdhe"
  BY <1>2, <1>4, OffsetsEcdhe
<1>5. CASE suite = "tls12_rsa"
  BY <1>2, <1>5, OffsetsRsa
<1> QED
  BY <1>3, <1>4, <1>5 DEF Suite

\* A byte has one place, and every place before the end one byte.
LEMMA OnePlace ==
  ASSUME NEW suite \in Suite, NEW m \in Said(suite), NEW i \in 1 .. Size(m)
  PROVE  /\ Before(suite, m) + i <= Before(suite, "none")
         /\ \A k \in Said(suite) : \A j \in 1 .. Size(k) :
              Before(suite, m) + i = Before(suite, k) + j => m = k /\ i = j
<1>1. \A k \in ServerMessage : Size(k) \in Nat /\ Size(k) >= 1
  BY Sizes
<1> DEFINE sh == Size("server_hello")
           ce == Size("certificate")
           fi == Size("finished")
           ee == Size("encrypted_extensions")
           cv == Size("certificate_verify")
           ke == Size("server_key_exchange")
           hd == Size("server_hello_done")
<1>2. /\ sh \in Nat /\ ce \in Nat /\ fi \in Nat /\ ee \in Nat /\ cv \in Nat /\ ke \in Nat /\ hd \in Nat
  BY <1>1 DEF ServerMessage
<1> SUFFICES ASSUME NEW k \in Said(suite), NEW j \in 1 .. Size(k)
             PROVE  /\ Before(suite, m) + i <= Before(suite, "none")
                    /\ Before(suite, m) + i = Before(suite, k) + j => m = k /\ i = j
  OBVIOUS
<1>3. CASE suite = "tls13"
  <2>1. /\ m \in {"server_hello", "encrypted_extensions", "certificate", "certificate_verify", "finished"}
        /\ k \in {"server_hello", "encrypted_extensions", "certificate", "certificate_verify", "finished"}
    BY <1>3, Offsets13
  <2>2. /\ Before(suite, "server_hello") = 0
        /\ Before(suite, "encrypted_extensions") = sh
        /\ Before(suite, "certificate") = sh + ee
        /\ Before(suite, "certificate_verify") = sh + ee + ce
        /\ Before(suite, "finished") = sh + ee + ce + cv
        /\ Before(suite, "none") = sh + ee + ce + cv + fi
    BY <1>3, Offsets13
  <2> QED
    BY <1>2, <2>1, <2>2
<1>4. CASE suite = "tls12_ecdhe"
  <2>1. /\ m \in {"server_hello", "certificate", "server_key_exchange", "server_hello_done", "finished"}
        /\ k \in {"server_hello", "certificate", "server_key_exchange", "server_hello_done", "finished"}
    BY <1>4, OffsetsEcdhe
  <2>2. /\ Before(suite, "server_hello") = 0
        /\ Before(suite, "certificate") = sh
        /\ Before(suite, "server_key_exchange") = sh + ce
        /\ Before(suite, "server_hello_done") = sh + ce + ke
        /\ Before(suite, "finished") = sh + ce + ke + hd
        /\ Before(suite, "none") = sh + ce + ke + hd + fi
    BY <1>4, OffsetsEcdhe
  <2> QED
    BY <1>2, <2>1, <2>2
<1>5. CASE suite = "tls12_rsa"
  <2>1. /\ m \in {"server_hello", "certificate", "server_hello_done", "finished"}
        /\ k \in {"server_hello", "certificate", "server_hello_done", "finished"}
    BY <1>5, OffsetsRsa
  <2>2. /\ Before(suite, "server_hello") = 0
        /\ Before(suite, "certificate") = sh
        /\ Before(suite, "server_hello_done") = sh + ce
        /\ Before(suite, "finished") = sh + ce + hd
        /\ Before(suite, "none") = sh + ce + hd + fi
    BY <1>5, OffsetsRsa
  <2> QED
    BY <1>2, <2>1, <2>2
<1> QED
  BY <1>3, <1>4, <1>5 DEF Suite

\* The keys of the stages are different.
LEMMA KeysDiffer ==
  /\ HsKey("server") # Plain /\ HsKey("client") # Plain
  /\ \A side \in Side : SessionKey12(side) # Plain
  /\ \A suite : DataKey(suite, "server") # Plain /\ DataKey(suite, "client") # Plain
  /\ DataKey("tls13", "server") # HsKey("server")
  /\ \A suite : suite # "tls13" => \A side : DataKey(suite, side) = SessionKey12(side)
<1>1. /\ HsKey("server").stage = "handshake" /\ HsKey("client").stage = "handshake"
      /\ Plain.stage = "plain"
      /\ \A side : SessionKey12(side).stage = "session"
      /\ \A suite, side : DataKey(suite, side).stage \in {"application", "session"}
  BY DEF HsKey, Plain, SessionKey12, DataKey, Key
<1> QED
  BY <1>1 DEF DataKey

LEMMA KeysTyped ==
  /\ \A side \in Side : HsKey(side) \in KeySet /\ SessionKey12(side) \in KeySet
  /\ \A suite : \A side \in Side : DataKey(suite, side) \in KeySet
  /\ Plain \in KeySet
  /\ \A suite, m : MessageKey(suite, m) \in KeySet
<1>1. Hello \in Seq(Message) /\ Heard13 \in Seq(Message)
  BY DEF Hello, Heard13, Message, ServerMessage
<1>2. \A side \in Side : HsKey(side) \in KeySet /\ SessionKey12(side) \in KeySet
  BY <1>1, KeyTyped DEF HsKey, Stage
<1>3. \A suite : \A side \in Side : DataKey(suite, side) \in KeySet
  BY <1>1, <1>2, KeyTyped DEF DataKey, Stage
<1> QED
  BY <1>2, <1>3, KeyTyped DEF MessageKey, Side

LEMMA RunCut ==
  ASSUME NEW suite, NEW key, NEW n \in Nat, NEW bytes \in Seq(Byte), Runs(suite, bytes, n, key),
         NEW k \in Nat, k <= Len(bytes)
  PROVE  /\ Runs(suite, Taken(bytes, k), n, key)
         /\ Runs(suite, Dropped(bytes, k), n + k, key)
<1> DEFINE a == Taken(bytes, k)
           b == Dropped(bytes, k)
<1>1. /\ Len(a) = k /\ Len(b) = Len(bytes) - k /\ Len(bytes) \in Nat
      /\ \A i \in 1 .. k : a[i] = bytes[i]
      /\ \A i \in 1 .. Len(bytes) - k : b[i] = bytes[i + k]
  BY DEF Taken, Dropped
<1> HIDE DEF a, b
<1>2. Runs(suite, a, n, key)
  BY <1>1 DEF Runs
<1>3. ASSUME NEW i \in 1 .. Len(b)
      PROVE  /\ b[i][1] \in Said(suite)
             /\ b[i][2] \in 1 .. Size(b[i][1])
             /\ Before(suite, b[i][1]) + b[i][2] = (n + k) + i
             /\ MessageKey(suite, b[i][1]) = key
  <2>1. i + k \in 1 .. Len(bytes) /\ b[i] = bytes[i + k] /\ n + (i + k) = (n + k) + i
    BY <1>1
  <2> QED
    BY <2>1 DEF Runs
<1> QED
  BY <1>2, <1>3 DEF Runs, a, b

LEMMA RunJoin ==
  ASSUME NEW suite, NEW key, NEW n \in Nat, NEW a \in Seq(Byte), NEW b \in Seq(Byte),
         Runs(suite, a, n, key), Runs(suite, b, n + Len(a), key)
  PROVE  Runs(suite, a \o b, n, key)
<1> DEFINE c == a \o b
<1>1. /\ Len(c) = Len(a) + Len(b) /\ Len(a) \in Nat /\ Len(b) \in Nat
      /\ \A i \in 1 .. Len(a) : c[i] = a[i]
      /\ \A i \in 1 .. Len(b) : c[Len(a) + i] = b[i]
  OBVIOUS
<1> HIDE DEF c
<1>2. ASSUME NEW i \in 1 .. Len(c)
      PROVE  /\ c[i][1] \in Said(suite)
             /\ c[i][2] \in 1 .. Size(c[i][1])
             /\ Before(suite, c[i][1]) + c[i][2] = n + i
             /\ MessageKey(suite, c[i][1]) = key
  <2>1. CASE i <= Len(a)
    <3>1. i \in 1 .. Len(a) /\ c[i] = a[i]
      BY <1>1, <2>1
    <3> QED
      BY <3>1 DEF Runs
  <2>2. CASE i > Len(a)
    <3>1. i - Len(a) \in 1 .. Len(b) /\ Len(a) + (i - Len(a)) = i
          /\ (n + Len(a)) + (i - Len(a)) = n + i
      BY <1>1, <2>2
    <3>2. c[i] = b[i - Len(a)]
      BY <1>1, <3>1
    <3> QED
      BY <3>1, <3>2 DEF Runs
  <2> QED
    BY <1>1, <2>1, <2>2
<1> QED
  BY <1>2 DEF Runs, c

LEMMA BytesFacts ==
  ASSUME NEW m \in ServerMessage
  PROVE  /\ Bytes(m) \in Seq(Byte) /\ Len(Bytes(m)) = Size(m) /\ Bytes(m) # <<>>
         /\ \A i \in 1 .. Size(m) : Bytes(m)[i] = <<m, i>>
<1>1. Size(m) \in Nat /\ Size(m) >= 1 /\ Size(m) = HeaderCb + BodyCb[m]
  BY Sizes
<1>2. Bytes(m) = [i \in 1 .. Size(m) |-> <<m, i>>]
  BY <1>1 DEF Bytes
<1>3. Bytes(m) \in Seq(Byte)
  BY BytesTyped
<1>4. Len(Bytes(m)) = Size(m)
  BY <1>1, <1>2
<1> QED
  BY <1>1, <1>2, <1>3, <1>4, EmptySeq

LEMMA RunBytes ==
  ASSUME NEW suite, NEW m \in Said(suite)
  PROVE  Runs(suite, Bytes(m), Before(suite, m), MessageKey(suite, m))
<1>1. m \in ServerMessage
  BY Sizes
<1>2. /\ Len(Bytes(m)) = Size(m)
      /\ \A i \in 1 .. Size(m) : Bytes(m)[i] = <<m, i>>
  BY <1>1, BytesFacts
<1> QED
  BY <1>2 DEF Runs

\* A byte of a run that goes on inside of a message.
LEMMA RunByte ==
  ASSUME NEW suite \in Suite, NEW key, NEW m \in Said(suite), NEW k \in Nat,
         NEW bytes \in Seq(Byte), NEW n, n = Before(suite, m) + k, Runs(suite, bytes, n, key),
         NEW i \in 1 .. Len(bytes), k + i <= Size(m)
  PROVE  bytes[i] = <<m, k + i>> /\ key = MessageKey(suite, m)
<1>1. m \in ServerMessage /\ Size(m) \in Nat /\ Before(suite, m) \in Nat
  BY Sizes, OffsetsTyped
<1>2. /\ bytes[i][1] \in Said(suite)
      /\ bytes[i][2] \in 1 .. Size(bytes[i][1])
      /\ Before(suite, bytes[i][1]) + bytes[i][2] = (Before(suite, m) + k) + i
      /\ MessageKey(suite, bytes[i][1]) = key
  BY DEF Runs
<1>3. k + i \in 1 .. Size(m) /\ (Before(suite, m) + k) + i = Before(suite, m) + (k + i)
  BY <1>1
<1>4. m = bytes[i][1] /\ k + i = bytes[i][2]
  BY <1>2, <1>3, OnePlace
<1>5. bytes[i] \in Byte
  OBVIOUS
<1>6. bytes[i] = <<bytes[i][1], bytes[i][2]>>
  BY <1>5 DEF Byte
<1> QED
  BY <1>2, <1>4, <1>6

\* Inside of a message a run goes on with it.
LEMMA RunInside ==
  ASSUME NEW suite \in Suite, NEW key, NEW m \in Said(suite), NEW k \in Nat,
         NEW bytes \in Seq(Byte), NEW n, n = Before(suite, m) + k, Runs(suite, bytes, n, key)
  PROVE  \A i \in 1 .. Len(bytes) : k + i <= Size(m) => bytes[i] = <<m, k + i>>
<1> SUFFICES ASSUME NEW i \in 1 .. Len(bytes), k + i <= Size(m)
             PROVE  bytes[i] = <<m, k + i>>
  OBVIOUS
<1> QED
  BY RunByte

\* What goes on inside of a message is written with its key.
LEMMA RunKey ==
  ASSUME NEW suite \in Suite, NEW key, NEW m \in Said(suite), NEW k \in Nat, k < Size(m),
         NEW bytes \in Seq(Byte), bytes # <<>>,
         NEW n, n = Before(suite, m) + k, Runs(suite, bytes, n, key)
  PROVE  key = MessageKey(suite, m)
<1> DEFINE i == 1
<1>1. i \in 1 .. Len(bytes)
  BY EmptySeq
<1>2. k + i <= Size(m)
  <2>1. m \in ServerMessage /\ Size(m) \in Nat
    BY Sizes
  <2> QED
    BY <2>1
<1> HIDE DEF i
<1> QED
  BY <1>1, <1>2, RunByte

\* A run ends where the handshake does at the latest.
LEMMA RunEnds ==
  ASSUME NEW suite \in Suite, NEW key, NEW n \in Nat, NEW bytes \in Seq(Byte), bytes # <<>>,
         Runs(suite, bytes, n, key)
  PROVE  n + Len(bytes) <= Before(suite, "none") /\ n < Before(suite, "none")
<1>1. Len(bytes) \in Nat /\ Len(bytes) > 0 /\ Len(bytes) \in 1 .. Len(bytes)
  BY EmptySeq
<1> DEFINE x == bytes[Len(bytes)]
<1>2. /\ x[1] \in Said(suite) /\ x[2] \in 1 .. Size(x[1])
      /\ Before(suite, x[1]) + x[2] = n + Len(bytes)
  BY <1>1 DEF Runs
<1> HIDE DEF x
<1>3. Before(suite, x[1]) + x[2] <= Before(suite, "none")
  BY <1>2, OnePlace
<1>4. Before(suite, "none") \in Nat
  BY OffsetsTyped
<1> QED
  BY <1>1, <1>2, <1>3, <1>4

\* The end of a message is not inside of a header.
LEMMA CleanEnds ==
  ASSUME NEW suite \in Suite
  PROVE  /\ \A m \in Said(suite) : Clean(suite, Before(suite, m))
         /\ Clean(suite, Before(suite, "none"))
<1>1. ASSUME NEW k \in Said(suite), NEW j \in 1 .. HeaderCb, j < HeaderCb
      PROVE  /\ j \in 1 .. Size(k) /\ j + 1 \in 1 .. Size(k)
             /\ Before(suite, k) \in Nat
             /\ Before(suite, k) + (j + 1) <= Before(suite, "none")
  <2>1. k \in ServerMessage
    BY Sizes
  <2>2. j \in 1 .. Size(k) /\ j + 1 \in 1 .. Size(k)
    BY <1>1, <2>1, Sizes
  <2> QED
    BY <2>2, OnePlace, OffsetsTyped
<1>2. Clean(suite, Before(suite, "none"))
  <2>1. Before(suite, "none") \in Nat
    BY OffsetsTyped
  <2> QED
    BY <1>1, <2>1, Sizes DEF Clean
<1>3. ASSUME NEW m \in Said(suite), NEW k \in Said(suite), NEW j \in 1 .. HeaderCb, j < HeaderCb,
             Before(suite, m) = Before(suite, k) + j
      PROVE  FALSE
  <2>1. j + 1 \in 1 .. Size(k) /\ Before(suite, k) \in Nat /\ Before(suite, m) \in Nat
    BY <1>1, <1>3, OffsetsTyped
  <2>2. 1 \in 1 .. Size(m)
    <3>1. m \in ServerMessage
      BY Sizes
    <3> QED
      BY <3>1, Sizes
  <2>3. Before(suite, m) + 1 = Before(suite, k) + (j + 1)
    BY <1>3, <2>1
  <2>4. 1 = j + 1
    BY <2>1, <2>2, <2>3, OnePlace
  <2> QED
    BY <2>4
<1> QED
  BY <1>2, <1>3 DEF Clean

-----------------------------------------------------------------------------
(* What both know *)

ReadStates ==
  {"EXPECTING_SERVER_HELLO", "TLS1_2_EXPECTING_CERTIFICATE",
   "TLS1_2_EXPECTING_SERVER_KEY_EXCHANGE", "TLS1_2_EXPECTING_SERVER_HELLO_DONE",
   "TLS1_2_EXPECTING_FINISHED", "TLS1_3_EXPECTING_ENCRYPTED_EXTENSIONS",
   "TLS1_3_EXPECTING_CERTIFICATE", "TLS1_3_EXPECTING_CERTIFICATE_VERIFY",
   "TLS1_3_EXPECTING_FINISHED"}

\* The message that the client waits for next, also while it has to answer first.
Awaited(state) ==
  CASE state \in {"SENDING_CLIENT_HELLO", "EXPECTING_SERVER_HELLO"} -> "server_hello"
    [] state \in {"TLS1_2_EXPECTING_CERTIFICATE", "TLS1_3_EXPECTING_CERTIFICATE"} -> "certificate"
    [] state = "TLS1_2_EXPECTING_SERVER_KEY_EXCHANGE" -> "server_key_exchange"
    [] state = "TLS1_2_EXPECTING_SERVER_HELLO_DONE" -> "server_hello_done"
    [] state \in {"TLS1_2_SENDING_CLIENT_KEY_EXCHANGE", "TLS1_2_SENDING_CHANGE_CIPHER_SPEC",
                  "TLS1_2_SENDING_FINISHED", "TLS1_2_EXPECTING_CHANGE_CIPHER_SPEC",
                  "TLS1_2_EXPECTING_FINISHED", "TLS1_3_EXPECTING_FINISHED"} -> "finished"
    [] state = "TLS1_3_EXPECTING_ENCRYPTED_EXTENSIONS" -> "encrypted_extensions"
    [] state = "TLS1_3_EXPECTING_CERTIFICATE_VERIFY" -> "certificate_verify"
    [] OTHER -> "none"

\* The transcript of the client in each state.
Heard(suite, state) ==
  CASE state \in {"TLS1_2_EXPECTING_CERTIFICATE", "TLS1_3_EXPECTING_ENCRYPTED_EXTENSIONS"} -> Hello
    [] state = "TLS1_2_EXPECTING_SERVER_KEY_EXCHANGE" -> Append(Hello, "certificate")
    [] state = "TLS1_2_EXPECTING_SERVER_HELLO_DONE" ->
         IF suite = "tls12_ecdhe" THEN Append(Append(Hello, "certificate"), "server_key_exchange")
         ELSE Append(Hello, "certificate")
    [] state = "TLS1_2_SENDING_CLIENT_KEY_EXCHANGE" -> Flight12(suite)
    [] state \in {"TLS1_2_SENDING_CHANGE_CIPHER_SPEC", "TLS1_2_SENDING_FINISHED"} ->
         Append(Flight12(suite), "client_key_exchange")
    [] state \in {"TLS1_2_EXPECTING_CHANGE_CIPHER_SPEC", "TLS1_2_EXPECTING_FINISHED"} ->
         Append(Append(Flight12(suite), "client_key_exchange"), "finished")
    [] state = "TLS1_3_EXPECTING_CERTIFICATE" -> Append(Hello, "encrypted_extensions")
    [] state = "TLS1_3_EXPECTING_CERTIFICATE_VERIFY" ->
         Append(Append(Hello, "encrypted_extensions"), "certificate")
    [] state = "TLS1_3_EXPECTING_FINISHED" ->
         Append(Append(Append(Hello, "encrypted_extensions"), "certificate"), "certificate_verify")
    [] state \in {"TLS1_3_SENDING_CHANGE_CIPHER_SPEC", "TLS1_3_SENDING_FINISHED"} -> Heard13
    [] OTHER -> <<>>

SendsFinished13(state) ==
  state \in {"TLS1_3_SENDING_CHANGE_CIPHER_SPEC", "TLS1_3_SENDING_FINISHED"}

\* The states before the first record of the client is encrypted, in TLS 1.2.
InTheClear ==
  {"SENDING_CLIENT_HELLO", "EXPECTING_SERVER_HELLO", "TLS1_2_EXPECTING_CERTIFICATE",
   "TLS1_2_EXPECTING_SERVER_KEY_EXCHANGE", "TLS1_2_EXPECTING_SERVER_HELLO_DONE",
   "TLS1_2_SENDING_CLIENT_KEY_EXCHANGE", "TLS1_2_SENDING_CHANGE_CIPHER_SPEC"}

Full12(suite) ==
  srv.verify = Proof(SessionKey12("server"), Heard(suite, "TLS1_2_EXPECTING_FINISHED"))

\* What is kept of a message that goes on in the next record.
FragmentKnown(c) ==
  c.frag # NoFragment =>
    /\ c.state \in ReadStates
    /\ c.frag.type = Awaited(c.state)
    /\ c.frag.need = BodyCb[c.frag.type]
    /\ c.frag.got = Taken(Body(c.frag.type), Len(c.frag.got))

\* What the client knows in its states.
ClientKnows(c) ==
  /\ c.state \in ConnectStates12 \cup ConnectStates13 \cup {"EXPECTING_SERVER_HELLO"}
     => c.transcript = Heard(c.suite, c.state)
  /\ c.state = "EXPECTING_SERVER_HELLO" => c.savedHello
  /\ c.state = "TLS1_2_EXPECTING_SERVER_KEY_EXCHANGE" => c.suite = "tls12_ecdhe"
  /\ c.state \in InTheClear \cup {"TLS1_2_SENDING_FINISHED", "TLS1_2_EXPECTING_CHANGE_CIPHER_SPEC"}
     => ~c.readOn
  /\ c.state \in InTheClear => ~c.writeOn
  /\ c.state \in ConnectStates13 =>
       /\ c.readKey = HsKey("server") /\ c.writeKey = HsKey("client") /\ c.writeSeq = 0
       /\ c.secrets = <<HsKey("client"), HsKey("server")>>
  /\ c.state = "TLS1_2_SENDING_FINISHED" => c.writeSeq = 0
  /\ c.state \in {"HANDSHAKE_COMPLETE", "SENDING_CLOSE_NOTIFY"} =>
       c.writeOn /\ c.writeKey = DataKey(c.suite, "client")
  /\ c.state = "HANDSHAKE_COMPLETE" => c.readKey = DataKey(c.suite, "server")
  /\ c.state = "TLS1_2_EXPECTING_FINISHED" => Full12(c.suite)
  /\ FragmentKnown(c)

ServerKnows13 ==
  /\ srv.transcript = Heard13
  /\ srv.signed = Heard(srv.suite, "TLS1_3_EXPECTING_CERTIFICATE_VERIFY")
  /\ srv.verify = Proof(HsKey("server"), Heard(srv.suite, "TLS1_3_EXPECTING_FINISHED"))
  /\ srv.state = "expecting_finished" => srv.readKey = HsKey("client")

ServerKnows12 ==
  /\ srv.state = "expecting_key_exchange" => srv.transcript = Flight12(srv.suite)
  /\ srv.state \in {"expecting_ccs", "expecting_finished"} =>
       srv.transcript = Append(Flight12(srv.suite), "client_key_exchange")
  /\ srv.state \in {"expecting_key_exchange", "expecting_ccs"} => srv.readKey = Plain
  /\ srv.state = "expecting_finished" => srv.readKey = SessionKey12("client")
  /\ srv.state = "open" => Full12(srv.suite)

ServerKnows ==
  /\ srv.suite = "tls13" => ServerKnows13
  /\ srv.suite # "tls13" => ServerKnows12
  /\ srv.state \notin {"open", "closed"} => srv.readSeq = 0
  /\ srv.state = "open" => srv.readKey = DataKey(srv.suite, "client")

-----------------------------------------------------------------------------
(* Places *)

Place == [n : Nat, key : KeySet]
Position == [n : Nat, key : KeySet, seq : Nat]

\* The key of the server after the first n bytes of its handshake.
KeyAfter(suite, n, key) ==
  IF suite = "tls13" /\ n = Before(suite, "encrypted_extensions") THEN HsKey("server")
  ELSE IF suite = "tls13" /\ n = Before(suite, "none") THEN DataKey(suite, "server")
  ELSE key

\* The place to which bytes up to the n-th of the handshake lead, in one record.
After(suite, p, n) ==
  LET key == KeyAfter(suite, n, p.key)
  IN [n |-> n, key |-> key, seq |-> IF key = p.key THEN p.seq ELSE 0]

\* The place the client has come to in what the server says.
Reached(suite, c) ==
  [n |-> Before(suite, Awaited(c.state))
           + (IF c.frag = NoFragment THEN 0 ELSE HeaderCb + Len(c.frag.got)),
   key |-> IF SendsFinished13(c.state) THEN DataKey(suite, "server")
           ELSE IF c.readOn THEN c.readKey ELSE Plain,
   seq |-> IF SendsFinished13(c.state) THEN 0 ELSE c.readSeq]

\* What the server waits for of a client in this state.
Writes(suite, state) ==
  CASE state = "TLS1_2_SENDING_CHANGE_CIPHER_SPEC" -> "expecting_ccs"
    [] state = "TLS1_2_SENDING_FINISHED" -> "expecting_finished"
    [] state \in {"TLS1_2_EXPECTING_CHANGE_CIPHER_SPEC", "TLS1_2_EXPECTING_FINISHED",
                  "HANDSHAKE_COMPLETE", "SENDING_CLOSE_NOTIFY"} -> "open"
    [] OTHER -> IF suite = "tls13" THEN "expecting_finished" ELSE "expecting_key_exchange"

-----------------------------------------------------------------------------
(* Messages that are accepted *)

\* When one sequence is another with one more element.
LEMMA AppendIs ==
  ASSUME NEW s \in Seq(Message), NEW x \in Message, NEW t \in Seq(Message),
         Len(t) = Len(s) + 1, t[Len(t)] = x, \A i \in 1 .. Len(s) : t[i] = s[i]
  PROVE  Append(s, x) = t
<1> DEFINE u == Append(s, x)
<1>1. /\ u \in Seq(Message) /\ Len(u) = Len(s) + 1 /\ u[Len(s) + 1] = x /\ Len(s) \in Nat
      /\ \A i \in 1 .. Len(s) : u[i] = s[i]
  OBVIOUS
<1> HIDE DEF u
<1>2. \A i \in 1 .. Len(u) : u[i] = t[i]
  BY <1>1
<1>3. u = t
  BY <1>1, <1>2, SeqEqual
<1> QED
  BY <1>3 DEF u

\* The first messages, one after the other.
LEMMA Tuples ==
  /\ Append(<<"client_hello">>, "server_hello") = Hello
  /\ \A suite : Flight12(suite) =
       IF suite = "tls12_ecdhe"
       THEN Append(Append(Append(Hello, "certificate"), "server_key_exchange"), "server_hello_done")
       ELSE Append(Append(Hello, "certificate"), "server_hello_done")
  /\ Heard13 = Append(Append(Append(Append(Hello, "encrypted_extensions"), "certificate"),
                             "certificate_verify"), "finished")
<1> DEFINE t1 == <<"client_hello">>
           t2 == <<"client_hello", "server_hello">>
           c3 == <<"client_hello", "server_hello", "certificate">>
           k4 == <<"client_hello", "server_hello", "certificate", "server_key_exchange">>
           d4 == <<"client_hello", "server_hello", "certificate", "server_hello_done">>
           d5 == <<"client_hello", "server_hello", "certificate", "server_key_exchange",
                   "server_hello_done">>
           e3 == <<"client_hello", "server_hello", "encrypted_extensions">>
           e4 == <<"client_hello", "server_hello", "encrypted_extensions", "certificate">>
           e5 == <<"client_hello", "server_hello", "encrypted_extensions", "certificate",
                   "certificate_verify">>
           e6 == <<"client_hello", "server_hello", "encrypted_extensions", "certificate",
                   "certificate_verify", "finished">>
<1>1. /\ t1 \in Seq(Message) /\ t2 \in Seq(Message) /\ c3 \in Seq(Message) /\ k4 \in Seq(Message)
      /\ d4 \in Seq(Message) /\ d5 \in Seq(Message) /\ e3 \in Seq(Message) /\ e4 \in Seq(Message)
      /\ e5 \in Seq(Message) /\ e6 \in Seq(Message)
  BY DEF Message, ServerMessage
<1>2. /\ Len(t1) = 1 /\ Len(t2) = 2 /\ Len(c3) = 3 /\ Len(k4) = 4 /\ Len(d4) = 4 /\ Len(d5) = 5
      /\ Len(e3) = 3 /\ Len(e4) = 4 /\ Len(e5) = 5 /\ Len(e6) = 6
  OBVIOUS
<1>3. /\ t2[1] = t1[1] /\ t2[2] = "server_hello"
      /\ c3[1] = t2[1] /\ c3[2] = t2[2] /\ c3[3] = "certificate"
      /\ k4[1] = c3[1] /\ k4[2] = c3[2] /\ k4[3] = c3[3] /\ k4[4] = "server_key_exchange"
      /\ d4[1] = c3[1] /\ d4[2] = c3[2] /\ d4[3] = c3[3] /\ d4[4] = "server_hello_done"
      /\ d5[1] = k4[1] /\ d5[2] = k4[2] /\ d5[3] = k4[3] /\ d5[4] = k4[4]
      /\ d5[5] = "server_hello_done"
  OBVIOUS
<1>4. /\ e3[1] = t2[1] /\ e3[2] = t2[2] /\ e3[3] = "encrypted_extensions"
      /\ e4[1] = e3[1] /\ e4[2] = e3[2] /\ e4[3] = e3[3] /\ e4[4] = "certificate"
      /\ e5[1] = e4[1] /\ e5[2] = e4[2] /\ e5[3] = e4[3] /\ e5[4] = e4[4]
      /\ e5[5] = "certificate_verify"
      /\ e6[1] = e5[1] /\ e6[2] = e5[2] /\ e6[3] = e5[3] /\ e6[4] = e5[4] /\ e6[5] = e5[5]
      /\ e6[6] = "finished"
  OBVIOUS
<1>5. Hello = t2 /\ Heard13 = e6 /\ \A suite : Flight12(suite) = IF suite = "tls12_ecdhe" THEN d5 ELSE d4
  BY DEF Hello, Heard13, Flight12
<1>6. /\ "server_hello" \in Message /\ "certificate" \in Message /\ "server_key_exchange" \in Message
      /\ "server_hello_done" \in Message /\ "encrypted_extensions" \in Message
      /\ "certificate_verify" \in Message /\ "finished" \in Message
  BY DEF Message, ServerMessage
<1>7. t1 = <<"client_hello">>
  OBVIOUS
<1> HIDE DEF t1, t2, c3, k4, d4, d5, e3, e4, e5, e6
<1>8. Append(t1, "server_hello") = t2
  <2>1. /\ Len(t2) = Len(t1) + 1 /\ t2[Len(t2)] = "server_hello"
        /\ \A i \in 1 .. Len(t1) : t2[i] = t1[i]
    BY <1>2, <1>3, <1>4
  <2> QED
    BY <1>1, <1>6, <2>1, AppendIs
<1>9. Append(t2, "certificate") = c3
  <2>1. /\ Len(c3) = Len(t2) + 1 /\ c3[Len(c3)] = "certificate"
        /\ \A i \in 1 .. Len(t2) : c3[i] = t2[i]
    BY <1>2, <1>3, <1>4
  <2> QED
    BY <1>1, <1>6, <2>1, AppendIs
<1>10. Append(c3, "server_key_exchange") = k4
  <2>1. /\ Len(k4) = Len(c3) + 1 /\ k4[Len(k4)] = "server_key_exchange"
        /\ \A i \in 1 .. Len(c3) : k4[i] = c3[i]
    BY <1>2, <1>3, <1>4
  <2> QED
    BY <1>1, <1>6, <2>1, AppendIs
<1>11. Append(c3, "server_hello_done") = d4
  <2>1. /\ Len(d4) = Len(c3) + 1 /\ d4[Len(d4)] = "server_hello_done"
        /\ \A i \in 1 .. Len(c3) : d4[i] = c3[i]
    BY <1>2, <1>3, <1>4
  <2> QED
    BY <1>1, <1>6, <2>1, AppendIs
<1>12. Append(k4, "server_hello_done") = d5
  <2>1. /\ Len(d5) = Len(k4) + 1 /\ d5[Len(d5)] = "server_hello_done"
        /\ \A i \in 1 .. Len(k4) : d5[i] = k4[i]
    BY <1>2, <1>3, <1>4
  <2> QED
    BY <1>1, <1>6, <2>1, AppendIs
<1>13. Append(t2, "encrypted_extensions") = e3
  <2>1. /\ Len(e3) = Len(t2) + 1 /\ e3[Len(e3)] = "encrypted_extensions"
        /\ \A i \in 1 .. Len(t2) : e3[i] = t2[i]
    BY <1>2, <1>3, <1>4
  <2> QED
    BY <1>1, <1>6, <2>1, AppendIs
<1>14. Append(e3, "certificate") = e4
  <2>1. /\ Len(e4) = Len(e3) + 1 /\ e4[Len(e4)] = "certificate"
        /\ \A i \in 1 .. Len(e3) : e4[i] = e3[i]
    BY <1>2, <1>3, <1>4
  <2> QED
    BY <1>1, <1>6, <2>1, AppendIs
<1>15. Append(e4, "certificate_verify") = e5
  <2>1. /\ Len(e5) = Len(e4) + 1 /\ e5[Len(e5)] = "certificate_verify"
        /\ \A i \in 1 .. Len(e4) : e5[i] = e4[i]
    BY <1>2, <1>3, <1>4
  <2> QED
    BY <1>1, <1>6, <2>1, AppendIs
<1>16. Append(e5, "finished") = e6
  <2>1. /\ Len(e6) = Len(e5) + 1 /\ e6[Len(e6)] = "finished"
        /\ \A i \in 1 .. Len(e5) : e6[i] = e5[i]
    BY <1>2, <1>3, <1>4
  <2> QED
    BY <1>1, <1>6, <2>1, AppendIs
<1> QED
  BY <1>5, <1>7, <1>8, <1>9, <1>10, <1>11, <1>12, <1>13, <1>14, <1>15, <1>16

\* The transcript before the messages of the server.
LEMMA HeardNext ==
  ASSUME NEW suite
  PROVE  /\ Heard(suite, "EXPECTING_SERVER_HELLO") = <<>>
         /\ Heard(suite, "TLS1_2_EXPECTING_CERTIFICATE") = Hello
         /\ Heard(suite, "TLS1_3_EXPECTING_ENCRYPTED_EXTENSIONS") = Hello
         /\ Heard(suite, "TLS1_2_EXPECTING_SERVER_KEY_EXCHANGE") = Append(Hello, "certificate")
         /\ suite = "tls12_ecdhe" =>
              Heard(suite, "TLS1_2_EXPECTING_SERVER_HELLO_DONE") =
                Append(Append(Hello, "certificate"), "server_key_exchange")
         /\ suite # "tls12_ecdhe" =>
              Heard(suite, "TLS1_2_EXPECTING_SERVER_HELLO_DONE") = Append(Hello, "certificate")
         /\ Heard(suite, "TLS1_2_SENDING_CLIENT_KEY_EXCHANGE") =
              Append(Heard(suite, "TLS1_2_EXPECTING_SERVER_HELLO_DONE"), "server_hello_done")
         /\ Heard(suite, "TLS1_3_EXPECTING_CERTIFICATE") = Append(Hello, "encrypted_extensions")
         /\ Heard(suite, "TLS1_3_EXPECTING_CERTIFICATE_VERIFY") =
              Append(Append(Hello, "encrypted_extensions"), "certificate")
         /\ Heard(suite, "TLS1_3_EXPECTING_FINISHED") =
              Append(Append(Append(Hello, "encrypted_extensions"), "certificate"),
                     "certificate_verify")
         /\ Heard(suite, "TLS1_3_SENDING_CHANGE_CIPHER_SPEC") =
              Append(Append(Append(Append(Hello, "encrypted_extensions"), "certificate"),
                            "certificate_verify"), "finished")
<1>1. Heard(suite, "TLS1_3_SENDING_CHANGE_CIPHER_SPEC") = Heard13
      /\ Heard(suite, "TLS1_2_SENDING_CLIENT_KEY_EXCHANGE") = Flight12(suite)
      /\ Heard(suite, "EXPECTING_SERVER_HELLO") = <<>>
      /\ Heard(suite, "TLS1_2_EXPECTING_CERTIFICATE") = Hello
      /\ Heard(suite, "TLS1_2_EXPECTING_SERVER_KEY_EXCHANGE") = Append(Hello, "certificate")
  BY DEF Heard
<1>2. /\ Heard(suite, "TLS1_3_EXPECTING_ENCRYPTED_EXTENSIONS") = Hello
      /\ Heard(suite, "TLS1_3_EXPECTING_CERTIFICATE") = Append(Hello, "encrypted_extensions")
      /\ Heard(suite, "TLS1_3_EXPECTING_CERTIFICATE_VERIFY") =
           Append(Append(Hello, "encrypted_extensions"), "certificate")
      /\ Heard(suite, "TLS1_3_EXPECTING_FINISHED") =
           Append(Append(Append(Hello, "encrypted_extensions"), "certificate"),
                  "certificate_verify")
  BY DEF Heard
<1>3. Heard(suite, "TLS1_2_EXPECTING_SERVER_HELLO_DONE") =
        IF suite = "tls12_ecdhe" THEN Append(Append(Hello, "certificate"), "server_key_exchange")
        ELSE Append(Hello, "certificate")
  BY DEF Heard
<1>4. Heard(suite, "TLS1_2_SENDING_CLIENT_KEY_EXCHANGE") =
        Append(Heard(suite, "TLS1_2_EXPECTING_SERVER_HELLO_DONE"), "server_hello_done")
  <2>1. CASE suite = "tls12_ecdhe"
    BY <1>1, <1>3, <2>1, Tuples
  <2>2. CASE suite # "tls12_ecdhe"
    BY <1>1, <1>3, <2>2, Tuples
  <2> QED
    BY <2>1, <2>2
<1> QED
  BY <1>1, <1>2, <1>3, <1>4, Tuples

\* Where the client waits for the next message.
LEMMA AwaitedNext ==
  /\ \A suite : Before(suite, "server_hello") = 0
  /\ Before("tls13", "encrypted_extensions") = Before("tls13", "server_hello") + Size("server_hello")
  /\ Before("tls13", "certificate") =
       Before("tls13", "encrypted_extensions") + Size("encrypted_extensions")
  /\ Before("tls13", "certificate_verify") = Before("tls13", "certificate") + Size("certificate")
  /\ Before("tls13", "finished") = Before("tls13", "certificate_verify") + Size("certificate_verify")
  /\ \A suite \in Suite :
       /\ Before(suite, "none") = Before(suite, "finished") + Size("finished")
       /\ suite # "tls13" =>
            /\ Before(suite, "certificate") = Before(suite, "server_hello") + Size("server_hello")
            /\ Before(suite, "finished") = Before(suite, "server_hello_done") + Size("server_hello_done")
       /\ suite = "tls12_rsa" =>
            Before(suite, "server_hello_done") = Before(suite, "certificate") + Size("certificate")
  /\ Before("tls12_ecdhe", "server_key_exchange") =
       Before("tls12_ecdhe", "certificate") + Size("certificate")
  /\ Before("tls12_ecdhe", "server_hello_done") =
       Before("tls12_ecdhe", "server_key_exchange") + Size("server_key_exchange")
<1>1. \A k \in ServerMessage : Size(k) \in Nat
  BY Sizes
<1>2. /\ Size("server_hello") \in Nat /\ Size("certificate") \in Nat /\ Size("finished") \in Nat
      /\ Size("encrypted_extensions") \in Nat /\ Size("certificate_verify") \in Nat
      /\ Size("server_key_exchange") \in Nat /\ Size("server_hello_done") \in Nat
  BY <1>1 DEF ServerMessage
<1>3. \A suite : Before(suite, "server_hello") = 0
  BY Zenon DEF Before
<1>4. ASSUME NEW suite \in Suite
      PROVE  /\ Before(suite, "none") = Before(suite, "finished") + Size("finished")
             /\ suite # "tls13" =>
                 /\ Before(suite, "certificate") = Before(suite, "server_hello") + Size("server_hello")
                 /\ Before(suite, "finished") = Before(suite, "server_hello_done") + Size("server_hello_done")
             /\ suite = "tls12_rsa" =>
                 Before(suite, "server_hello_done") = Before(suite, "certificate") + Size("certificate")
  BY <1>2, Offsets13, OffsetsEcdhe, OffsetsRsa DEF Suite
<1> QED
  BY <1>2, <1>3, <1>4, Offsets13, OffsetsEcdhe

\* The state after the message it waits for.
NextState(suite, state) ==
  CASE state = "EXPECTING_SERVER_HELLO" ->
         IF suite = "tls13" THEN "TLS1_3_EXPECTING_ENCRYPTED_EXTENSIONS"
         ELSE "TLS1_2_EXPECTING_CERTIFICATE"
    [] state = "TLS1_2_EXPECTING_CERTIFICATE" ->
         IF suite = "tls12_rsa" THEN "TLS1_2_EXPECTING_SERVER_HELLO_DONE"
         ELSE "TLS1_2_EXPECTING_SERVER_KEY_EXCHANGE"
    [] state = "TLS1_2_EXPECTING_SERVER_KEY_EXCHANGE" -> "TLS1_2_EXPECTING_SERVER_HELLO_DONE"
    [] state = "TLS1_2_EXPECTING_SERVER_HELLO_DONE" -> "TLS1_2_SENDING_CLIENT_KEY_EXCHANGE"
    [] state = "TLS1_2_EXPECTING_FINISHED" -> "HANDSHAKE_COMPLETE"
    [] state = "TLS1_3_EXPECTING_ENCRYPTED_EXTENSIONS" -> "TLS1_3_EXPECTING_CERTIFICATE"
    [] state = "TLS1_3_EXPECTING_CERTIFICATE" -> "TLS1_3_EXPECTING_CERTIFICATE_VERIFY"
    [] state = "TLS1_3_EXPECTING_CERTIFICATE_VERIFY" -> "TLS1_3_EXPECTING_FINISHED"
    [] OTHER -> "TLS1_3_SENDING_CHANGE_CIPHER_SPEC"

\* The states that go with a suite.
SuiteFits(suite, state) ==
  /\ state \in ReadStates
  /\ state \in ConnectStates12 => suite # "tls13"
  /\ state \in ConnectStates13 => suite = "tls13"
  /\ state = "TLS1_2_EXPECTING_SERVER_KEY_EXCHANGE" => suite = "tls12_ecdhe"

LEMMA SuiteStates ==
  ASSUME NEW suite \in Suite, NEW state, SuiteFits(suite, state)
  PROVE  \/ suite = "tls13" /\ state \in {"EXPECTING_SERVER_HELLO",
              "TLS1_3_EXPECTING_ENCRYPTED_EXTENSIONS", "TLS1_3_EXPECTING_CERTIFICATE",
              "TLS1_3_EXPECTING_CERTIFICATE_VERIFY", "TLS1_3_EXPECTING_FINISHED"}
         \/ suite = "tls12_ecdhe" /\ state \in {"EXPECTING_SERVER_HELLO",
              "TLS1_2_EXPECTING_CERTIFICATE", "TLS1_2_EXPECTING_SERVER_KEY_EXCHANGE",
              "TLS1_2_EXPECTING_SERVER_HELLO_DONE", "TLS1_2_EXPECTING_FINISHED"}
         \/ suite = "tls12_rsa" /\ state \in {"EXPECTING_SERVER_HELLO",
              "TLS1_2_EXPECTING_CERTIFICATE",
              "TLS1_2_EXPECTING_SERVER_HELLO_DONE", "TLS1_2_EXPECTING_FINISHED"}
BY DEF SuiteFits, Suite, ReadStates, ConnectStates12, ConnectStates13

\* What each of them waits for.
LEMMA Waits ==
  /\ Awaited("EXPECTING_SERVER_HELLO") = "server_hello"
  /\ Awaited("TLS1_2_EXPECTING_CERTIFICATE") = "certificate"
  /\ Awaited("TLS1_2_EXPECTING_SERVER_KEY_EXCHANGE") = "server_key_exchange"
  /\ Awaited("TLS1_2_EXPECTING_SERVER_HELLO_DONE") = "server_hello_done"
  /\ Awaited("TLS1_2_SENDING_CLIENT_KEY_EXCHANGE") = "finished"
  /\ Awaited("TLS1_2_SENDING_CHANGE_CIPHER_SPEC") = "finished"
  /\ Awaited("TLS1_2_SENDING_FINISHED") = "finished"
  /\ Awaited("TLS1_2_EXPECTING_CHANGE_CIPHER_SPEC") = "finished"
  /\ Awaited("TLS1_2_EXPECTING_FINISHED") = "finished"
  /\ Awaited("TLS1_3_EXPECTING_ENCRYPTED_EXTENSIONS") = "encrypted_extensions"
  /\ Awaited("TLS1_3_EXPECTING_CERTIFICATE") = "certificate"
  /\ Awaited("TLS1_3_EXPECTING_CERTIFICATE_VERIFY") = "certificate_verify"
  /\ Awaited("TLS1_3_EXPECTING_FINISHED") = "finished"
  /\ Awaited("TLS1_3_SENDING_CHANGE_CIPHER_SPEC") = "none"
  /\ Awaited("TLS1_3_SENDING_FINISHED") = "none"
  /\ Awaited("HANDSHAKE_COMPLETE") = "none"
BY DEF Awaited

\* What comes next, and where.
LEMMA NextPlace ==
  ASSUME NEW suite \in Suite, NEW state, SuiteFits(suite, state)
  PROVE  LET m == Awaited(state)
             next == NextState(suite, state)
             n == Before(suite, m) + Size(m)
         IN /\ m \in Said(suite)
            /\ Before(suite, Awaited(next)) = n
            /\ Writes(suite, next) = Writes(suite, state)
            /\ suite = "tls13" => /\ n = Before(suite, "encrypted_extensions") <=> m = "server_hello"
                                  /\ n = Before(suite, "none") <=> m = "finished"
<1> DEFINE m == Awaited(state)
           next == NextState(suite, state)
           n == Before(suite, m) + Size(m)
<1>1. \A k \in ServerMessage : Size(k) \in Nat /\ Size(k) >= 1
  BY Sizes
<1>2. /\ Size("server_hello") \in Nat /\ Size("certificate") \in Nat /\ Size("finished") \in Nat
      /\ Size("encrypted_extensions") \in Nat /\ Size("certificate_verify") \in Nat
      /\ Size("server_key_exchange") \in Nat /\ Size("server_hello_done") \in Nat
      /\ Size("server_hello") >= 1 /\ Size("certificate") >= 1 /\ Size("finished") >= 1
      /\ Size("encrypted_extensions") >= 1 /\ Size("certificate_verify") >= 1
  BY <1>1 DEF ServerMessage
<1>3. CASE suite = "tls13"
  <2>1. state \in {"EXPECTING_SERVER_HELLO",
              "TLS1_3_EXPECTING_ENCRYPTED_EXTENSIONS", "TLS1_3_EXPECTING_CERTIFICATE",
              "TLS1_3_EXPECTING_CERTIFICATE_VERIFY", "TLS1_3_EXPECTING_FINISHED"}
    BY <1>3, SuiteStates
  <2>2. Writes(suite, next) = Writes(suite, state)
    BY <1>3, <2>1 DEF Writes, NextState
  <2>3. /\ state = "EXPECTING_SERVER_HELLO" => m = "server_hello" /\ Awaited(next) = "encrypted_extensions"
        /\ state = "TLS1_3_EXPECTING_ENCRYPTED_EXTENSIONS" =>
             m = "encrypted_extensions" /\ Awaited(next) = "certificate"
        /\ state = "TLS1_3_EXPECTING_CERTIFICATE" => m = "certificate" /\ Awaited(next) = "certificate_verify"
        /\ state = "TLS1_3_EXPECTING_CERTIFICATE_VERIFY" =>
             m = "certificate_verify" /\ Awaited(next) = "finished"
        /\ state = "TLS1_3_EXPECTING_FINISHED" => m = "finished" /\ Awaited(next) = "none"
    BY <1>3, Waits DEF NextState
  <2> HIDE DEF m, next
  <2>4. /\ m \in Said(suite) /\ Before(suite, Awaited(next)) = n
        /\ n = Before(suite, "encrypted_extensions") <=> m = "server_hello"
        /\ n = Before(suite, "none") <=> m = "finished"
    BY <1>2, <1>3, <2>1, <2>3, Offsets13
  <2> QED
    BY <2>2, <2>4 DEF m, next
<1>4. CASE suite = "tls12_ecdhe"
  <2>1. state \in {"EXPECTING_SERVER_HELLO",
              "TLS1_2_EXPECTING_CERTIFICATE", "TLS1_2_EXPECTING_SERVER_KEY_EXCHANGE",
              "TLS1_2_EXPECTING_SERVER_HELLO_DONE", "TLS1_2_EXPECTING_FINISHED"}
    BY <1>4, SuiteStates
  <2>2. Writes(suite, next) = Writes(suite, state)
    BY <1>4, <2>1 DEF Writes, NextState
  <2>3. /\ state = "EXPECTING_SERVER_HELLO" => m = "server_hello" /\ Awaited(next) = "certificate"
        /\ state = "TLS1_2_EXPECTING_CERTIFICATE" =>
             m = "certificate" /\ Awaited(next) = "server_key_exchange"
        /\ state = "TLS1_2_EXPECTING_SERVER_KEY_EXCHANGE" =>
             m = "server_key_exchange" /\ Awaited(next) = "server_hello_done"
        /\ state = "TLS1_2_EXPECTING_SERVER_HELLO_DONE" =>
             m = "server_hello_done" /\ Awaited(next) = "finished"
        /\ state = "TLS1_2_EXPECTING_FINISHED" => m = "finished" /\ Awaited(next) = "none"
    BY <1>4, Waits DEF NextState
  <2> HIDE DEF m, next
  <2>4. m \in Said(suite) /\ Before(suite, Awaited(next)) = n
    BY <1>2, <1>4, <2>1, <2>3, OffsetsEcdhe
  <2> QED
    BY <1>4, <2>2, <2>4 DEF m, next
<1>5. CASE suite = "tls12_rsa"
  <2>1. state \in {"EXPECTING_SERVER_HELLO", "TLS1_2_EXPECTING_CERTIFICATE",
              "TLS1_2_EXPECTING_SERVER_HELLO_DONE", "TLS1_2_EXPECTING_FINISHED"}
    BY <1>5, SuiteStates
  <2>2. Writes(suite, next) = Writes(suite, state)
    BY <1>5, <2>1 DEF Writes, NextState
  <2>3. /\ state = "EXPECTING_SERVER_HELLO" => m = "server_hello" /\ Awaited(next) = "certificate"
        /\ state = "TLS1_2_EXPECTING_CERTIFICATE" =>
             m = "certificate" /\ Awaited(next) = "server_hello_done"
        /\ state = "TLS1_2_EXPECTING_SERVER_HELLO_DONE" =>
             m = "server_hello_done" /\ Awaited(next) = "finished"
        /\ state = "TLS1_2_EXPECTING_FINISHED" => m = "finished" /\ Awaited(next) = "none"
    BY <1>5, Waits DEF NextState
  <2> HIDE DEF m, next
  <2>4. m \in Said(suite) /\ Before(suite, Awaited(next)) = n
    BY <1>2, <1>5, <2>1, <2>3, OffsetsRsa
  <2> QED
    BY <1>5, <2>2, <2>4 DEF m, next
<1> QED
  BY <1>3, <1>4, <1>5 DEF Suite

\* The handlers, and what is made of the transcript.
HandledBy(c, m) ==
  CASE c.suite = "none" -> When(m = "server_hello", HandleServerHello(c))
    [] Is13(c) -> ProcessHandshakeMessage13(c, m)
    [] OTHER -> ProcessHandshakeMessage12(c, m)

Digested(h, m) ==
  LET hello == IF h.savedHello
               THEN [Hashed(h, <<"client_hello">>) EXCEPT !.savedHello = FALSE]
               ELSE h
  IN Hashed(hello, <<m>>)

Keyed(e) ==
  IF e.state = "TLS1_3_EXPECTING_ENCRYPTED_EXTENSIONS" THEN DeriveHandshakeKeys13(e) ELSE e

LEMMA OneOutcome ==
  ASSUME NEW c, NEW m, NEW h, HandledBy(c, m) = {h}
  PROVE  ProcessHandshakeMessage(c, m) = {Keyed(Digested(h, m))}
<1> DEFINE F(x) == Keyed(Digested(x, m))
           P == ProcessHandshakeMessage(c, m)
<1>1. P = {F(x) : x \in HandledBy(c, m)}
  BY DEF ProcessHandshakeMessage, HandledBy, Digested, Keyed
<1> HIDE DEF F, P
<1>2. P = {F(h)}
  BY <1>1
<1> QED
  BY <1>2 DEF F, P

\* The handler of the message that is waited for.
LEMMA HandlerOf ==
  ASSUME NEW c, c.suite \in Suite, SuiteFits(c.suite, c.state), c.state # "EXPECTING_SERVER_HELLO",
         c.state = "TLS1_2_EXPECTING_FINISHED" => srv.verify = Proof(c.readKey, c.transcript),
         c.state = "TLS1_3_EXPECTING_CERTIFICATE_VERIFY" => srv.signed = c.transcript,
         c.state = "TLS1_3_EXPECTING_FINISHED" => srv.verify = Proof(c.secrets[2], c.transcript)
  PROVE  HandledBy(c, Awaited(c.state)) =
           {IF c.state = "TLS1_2_EXPECTING_SERVER_KEY_EXCHANGE" THEN HandleServerKeyExchangeEcdhe12(c)
            ELSE [c EXCEPT !.state = NextState(c.suite, c.state)]}
<1>1. CASE c.suite = "tls13"
  <2>1. \A m : HandledBy(c, m) = ProcessHandshakeMessage13(c, m)
    BY <1>1 DEF HandledBy, Is13
  <2>2. CASE c.state = "TLS1_3_EXPECTING_ENCRYPTED_EXTENSIONS"
    BY <2>1, <2>2, Waits DEF ProcessHandshakeMessage13, When, HandleEncryptedExtensions13, NextState
  <2>3. CASE c.state = "TLS1_3_EXPECTING_CERTIFICATE"
    BY <2>1, <2>3, Waits DEF ProcessHandshakeMessage13, When, HandleCertificate13, NextState
  <2>4. CASE c.state = "TLS1_3_EXPECTING_CERTIFICATE_VERIFY"
    BY <2>1, <2>4, Waits DEF ProcessHandshakeMessage13, When, HandleCertificateVerify13, NextState
  <2>5. CASE c.state = "TLS1_3_EXPECTING_FINISHED"
    BY <2>1, <2>5, Waits DEF ProcessHandshakeMessage13, When, HandleFinished13, NextState
  <2> QED
    BY <1>1, <2>2, <2>3, <2>4, <2>5, SuiteStates
<1>2. CASE c.suite # "tls13"
  <2>1. \A m : HandledBy(c, m) = ProcessHandshakeMessage12(c, m)
    BY <1>2 DEF HandledBy, Is13, Suite
  <2>2. CASE c.state = "TLS1_2_EXPECTING_CERTIFICATE"
    BY <2>1, <2>2, Waits DEF ProcessHandshakeMessage12, When, HandleCertificate12, NextState
  <2>3. CASE c.state = "TLS1_2_EXPECTING_SERVER_KEY_EXCHANGE"
    BY <2>1, <2>3, Waits DEF ProcessHandshakeMessage12, When
  <2>4. CASE c.state = "TLS1_2_EXPECTING_SERVER_HELLO_DONE"
    BY <2>1, <2>4, Waits DEF ProcessHandshakeMessage12, When, HandleServerHelloDone12, NextState
  <2>5. CASE c.state = "TLS1_2_EXPECTING_FINISHED"
    BY <2>1, <2>5, Waits DEF ProcessHandshakeMessage12, When, HandleFinished12, NextState
  <2> QED
    BY <1>2, <2>2, <2>3, <2>4, <2>5, SuiteStates
<1> QED
  BY <1>1, <1>2

\* What a context keeps when its state changes.
Like(c, d) ==
  /\ d.suite = c.suite /\ d.secrets = c.secrets
  /\ d.readOn = c.readOn /\ d.writeOn = c.writeOn
  /\ d.readSeq = c.readSeq /\ d.writeSeq = c.writeSeq
  /\ d.frag = c.frag

LEMMA DigestedAs ==
  ASSUME NEW h \in Context, NEW m \in Message, ~h.savedHello,
         h.state # "TLS1_3_EXPECTING_ENCRYPTED_EXTENSIONS",
         NEW d, d = Keyed(Digested(h, m))
  PROVE  /\ d \in Context /\ Like(h, d) /\ d.state = h.state
         /\ d.readKey = h.readKey /\ d.writeKey = h.writeKey /\ ~d.savedHello
         /\ h.state = "HANDSHAKE_COMPLETE" => d.transcript = h.transcript
         /\ HandshakeInProgress(h) => d.transcript = Append(h.transcript, m)
<1> DEFINE e == Digested(h, m)
<1>1. /\ e \in Context
      /\ e = [h EXCEPT !.savedHello = FALSE, !.transcript = e.transcript]
      /\ h.state = "HANDSHAKE_COMPLETE" => e.transcript = h.transcript
      /\ ~h.savedHello /\ HandshakeInProgress(h) => e.transcript = Append(h.transcript, m)
  BY Hashing DEF Digested
<1>0. d = Keyed(e)
  OBVIOUS
<1> HIDE DEF e
<1>2. e.state = h.state /\ Like(h, e) /\ e.readKey = h.readKey /\ e.writeKey = h.writeKey /\ ~e.savedHello
  BY <1>1 DEF Context, Like
<1>3. d = e
  BY <1>0, <1>2 DEF Keyed
<1> QED
  BY <1>1, <1>2, <1>3

\* The keys before the Finished of the server in TLS 1.2, where they are not used yet.
LEMMA HandlerKeeps ==
  ASSUME NEW c \in Context, SuiteFits(c.suite, c.state), c.suite \in Suite,
         c.state # "EXPECTING_SERVER_HELLO", ~c.savedHello,
         NEW h, h = IF c.state = "TLS1_2_EXPECTING_SERVER_KEY_EXCHANGE"
                    THEN HandleServerKeyExchangeEcdhe12(c)
                    ELSE [c EXCEPT !.state = NextState(c.suite, c.state)]
  PROVE  /\ h \in Context /\ Like(c, h) /\ ~h.savedHello /\ h.transcript = c.transcript
         /\ h.state = NextState(c.suite, c.state)
         /\ c.state # "TLS1_2_EXPECTING_SERVER_KEY_EXCHANGE" =>
              h.readKey = c.readKey /\ h.writeKey = c.writeKey
<1>1. NextState(c.suite, c.state) \in State
  BY DEF NextState, State, ConnectStates12, ConnectStates13
<1> DEFINE next == NextState(c.suite, c.state)
<1>2. CASE c.state = "TLS1_2_EXPECTING_SERVER_KEY_EXCHANGE"
  <2>1. next = "TLS1_2_EXPECTING_SERVER_HELLO_DONE"
    BY <1>2 DEF NextState
  <2> DEFINE read == SessionKey12("server")
             write == SessionKey12("client")
  <2>2. read \in KeySet /\ write \in KeySet
    BY KeyTyped DEF Side
  <2>3. h = [c EXCEPT !.readKey = read, !.writeKey = write, !.state = next]
    BY <1>2, <2>1 DEF HandleServerKeyExchangeEcdhe12
  <2> HIDE DEF read, write, next
  <2>4. /\ h \in Context /\ Like(c, h) /\ ~h.savedHello /\ h.transcript = c.transcript
        /\ h.state = next
    BY <1>1, <2>2, <2>3 DEF Context, Like, next
  <2> QED
    BY <1>2, <2>4 DEF next
<1>3. CASE c.state # "TLS1_2_EXPECTING_SERVER_KEY_EXCHANGE"
  <2>1. h = [c EXCEPT !.state = next] /\ next \in State
    BY <1>1, <1>3
  <2> HIDE DEF next
  <2>2. /\ h \in Context /\ Like(c, h) /\ ~h.savedHello /\ h.transcript = c.transcript
        /\ h.state = next /\ h.readKey = c.readKey /\ h.writeKey = c.writeKey
    BY <2>1 DEF Context, Like
  <2> QED
    BY <2>2 DEF next
<1> QED
  BY <1>2, <1>3

\* What a message adds to the transcript.
LEMMA HeardAfter ==
  ASSUME NEW suite \in Suite, NEW state, SuiteFits(suite, state),
         state \notin {"EXPECTING_SERVER_HELLO", "TLS1_2_EXPECTING_FINISHED"}
  PROVE  Heard(suite, NextState(suite, state)) = Append(Heard(suite, state), Awaited(state))
<1>1. CASE suite = "tls13"
  <2>1. state \in {"TLS1_3_EXPECTING_ENCRYPTED_EXTENSIONS", "TLS1_3_EXPECTING_CERTIFICATE",
                   "TLS1_3_EXPECTING_CERTIFICATE_VERIFY", "TLS1_3_EXPECTING_FINISHED"}
    BY <1>1, SuiteStates
  <2> QED
    BY <2>1, HeardNext, Waits DEF NextState
<1>2. CASE suite # "tls13"
  <2>1. \/ state = "TLS1_2_EXPECTING_CERTIFICATE"
        \/ state = "TLS1_2_EXPECTING_SERVER_KEY_EXCHANGE" /\ suite = "tls12_ecdhe"
        \/ state = "TLS1_2_EXPECTING_SERVER_HELLO_DONE"
    BY <1>2, SuiteStates
  <2>2. CASE state = "TLS1_2_EXPECTING_CERTIFICATE"
    <3>1. suite = "tls12_rsa" \/ suite = "tls12_ecdhe"
      BY <1>2 DEF Suite
    <3> QED
      BY <2>2, <3>1, HeardNext, Waits DEF NextState
  <2>3. CASE state = "TLS1_2_EXPECTING_SERVER_KEY_EXCHANGE" /\ suite = "tls12_ecdhe"
    BY <2>3, HeardNext, Waits DEF NextState
  <2>4. CASE state = "TLS1_2_EXPECTING_SERVER_HELLO_DONE"
    BY <2>4, HeardNext, Waits DEF NextState
  <2> QED
    BY <2>1, <2>2, <2>3, <2>4
<1> QED
  BY <1>1, <1>2

\* What a context in use is in one of the states that read messages.
LEMMA ReadFits ==
  ASSUME srv \in ServerState, srv.suite # "none", NEW c, InUse(c), ClientKnows(c),
         c.state \in ReadStates
  PROVE  /\ srv.suite \in Suite /\ c \in Context
         /\ SuiteFits(srv.suite, c.state)
         /\ c.state # "EXPECTING_SERVER_HELLO" => c.suite = srv.suite /\ ~c.savedHello
         /\ c.state = "EXPECTING_SERVER_HELLO" => c.suite = "none" /\ c.savedHello
         /\ ~SendsFinished13(c.state)
<1>1. c \in Context /\ StateFits(c)
  BY DEF InUse
<1>2. srv.suite \in Suite
  BY SuiteAssumption DEF ServerState, Suite
<1>3. c.suite = "none" => c.state = "EXPECTING_SERVER_HELLO"
  BY <1>1 DEF StateFits, ReadStates
<1>4. c.state = "EXPECTING_SERVER_HELLO" => c.suite = "none" /\ c.savedHello
  BY <1>1 DEF StateFits, ClientKnows
<1>5. c.state # "EXPECTING_SERVER_HELLO" => c.suite = srv.suite /\ ~c.savedHello
  BY <1>1, <1>3 DEF StateFits
<1>6. SuiteFits(srv.suite, c.state)
  BY <1>1, <1>5 DEF SuiteFits, StateFits, ClientKnows, ConnectStates12, ConnectStates13
<1>7. ~SendsFinished13(c.state)
  BY DEF SendsFinished13, ReadStates
<1> QED
  BY <1>1, <1>2, <1>4, <1>5, <1>6, <1>7

\* A message after ServerHello: what the client knows, and where it has come to.
LEMMA NextKnows ==
  ASSUME NEW c \in Context, ClientKnows(c), StateFits(c), KeysFit(c), c.suite \in Suite, c.frag = NoFragment,
         SuiteFits(c.suite, c.state), c.state # "EXPECTING_SERVER_HELLO",
         NEW d \in Context, Like(c, d), d.state = NextState(c.suite, c.state),
         c.state # "TLS1_2_EXPECTING_SERVER_KEY_EXCHANGE" =>
           d.readKey = c.readKey /\ d.writeKey = c.writeKey,
         c.state # "TLS1_2_EXPECTING_FINISHED" =>
           d.transcript = Append(c.transcript, Awaited(c.state))
  PROVE  /\ ClientKnows(d)
         /\ Reached(c.suite, d) =
              After(c.suite, Reached(c.suite, c),
                    Before(c.suite, Awaited(c.state)) + Size(Awaited(c.state)))
<1> DEFINE suite == c.suite
           n == Before(suite, Awaited(c.state)) + Size(Awaited(c.state))
           p == Reached(suite, c)
<1>1. /\ suite \in Suite
      /\ \/ suite = "tls13" /\ c.state \in {
              "TLS1_3_EXPECTING_ENCRYPTED_EXTENSIONS", "TLS1_3_EXPECTING_CERTIFICATE",
              "TLS1_3_EXPECTING_CERTIFICATE_VERIFY", "TLS1_3_EXPECTING_FINISHED"}
         \/ suite \in {"tls12_ecdhe", "tls12_rsa"} /\ c.state \in {
              "TLS1_2_EXPECTING_CERTIFICATE", "TLS1_2_EXPECTING_SERVER_KEY_EXCHANGE",
              "TLS1_2_EXPECTING_SERVER_HELLO_DONE", "TLS1_2_EXPECTING_FINISHED"}
  BY SuiteStates
<1>2. /\ Before(suite, Awaited(d.state)) = n
      /\ suite = "tls13" => /\ n # Before(suite, "encrypted_extensions")
                            /\ n = Before(suite, "none") <=> c.state = "TLS1_3_EXPECTING_FINISHED"
  <2>1. /\ Before(suite, Awaited(NextState(suite, c.state))) = n
        /\ suite = "tls13" => /\ n = Before(suite, "encrypted_extensions") <=> Awaited(c.state) = "server_hello"
                              /\ n = Before(suite, "none") <=> Awaited(c.state) = "finished"
    BY NextPlace
  <2>2. suite = "tls13" => /\ Awaited(c.state) # "server_hello"
                           /\ Awaited(c.state) = "finished" <=> c.state = "TLS1_3_EXPECTING_FINISHED"
    BY <1>1, Waits
  <2> QED
    BY <2>1, <2>2
<1>3. /\ d.suite = suite /\ d.secrets = c.secrets
      /\ d.readOn = c.readOn /\ d.writeOn = c.writeOn
      /\ d.readSeq = c.readSeq /\ d.writeSeq = c.writeSeq
      /\ d.frag = NoFragment
  BY DEF Like
<1>4. p.key = (IF c.readOn THEN c.readKey ELSE Plain) /\ p.seq = c.readSeq
  <2>1. ~SendsFinished13(c.state)
    BY <1>1 DEF SendsFinished13
  <2> QED
    BY <2>1 DEF Reached
<1> HIDE DEF p, n
<1>5. After(suite, p, n) =
        [n |-> n, key |-> KeyAfter(suite, n, p.key),
         seq |-> IF KeyAfter(suite, n, p.key) = p.key THEN p.seq ELSE 0]
  BY DEF After
<1>6. Reached(suite, d) =
        [n |-> n,
         key |-> IF SendsFinished13(d.state) THEN DataKey(suite, "server")
                 ELSE IF d.readOn THEN d.readKey ELSE Plain,
         seq |-> IF SendsFinished13(d.state) THEN 0 ELSE d.readSeq]
  <2>1. Before(suite, Awaited(d.state)) \in Nat
    <3>1. Awaited(d.state) \in Said(suite) \cup {"none"} /\ suite \in Suite
      <4>1. CASE suite = "tls13"
        BY <1>1, <4>1, Waits, Offsets13 DEF NextState
      <4>2. CASE suite = "tls12_ecdhe"
        BY <1>1, <4>2, Waits, OffsetsEcdhe DEF NextState
      <4>3. CASE suite = "tls12_rsa"
        BY <1>1, <4>3, Waits, OffsetsRsa, SuiteStates DEF NextState
      <4> QED
        BY <1>1, <4>1, <4>2, <4>3
    <3> QED
      BY <3>1, OffsetsTyped
  <2>2. Before(suite, Awaited(d.state)) + 0 = n
    BY <1>2, <2>1
  <2> QED
    BY <1>3, <2>2 DEF Reached
<1>7. CASE suite = "tls13"
  <2>1. c.readOn /\ c.readKey = HsKey("server") /\ c.readKey # DataKey("tls13", "server")
    BY <1>1, <1>7, KeysDiffer DEF KeysFit, ClientKnows, ConnectStates13
  <2>2. d.readKey = c.readKey /\ d.writeKey = c.writeKey
    BY <1>1, <1>7
  <2>3. d.state \in ConnectStates13 /\ d.state \notin ConnectStates12
        /\ d.state \notin InTheClear \cup {"EXPECTING_SERVER_HELLO", "HANDSHAKE_COMPLETE",
             "SENDING_CLOSE_NOTIFY", "TLS1_2_SENDING_FINISHED", "TLS1_2_EXPECTING_CHANGE_CIPHER_SPEC",
             "TLS1_2_EXPECTING_FINISHED", "TLS1_2_EXPECTING_SERVER_KEY_EXCHANGE"}
        /\ c.state \in ConnectStates13
    BY <1>1, <1>7 DEF NextState, ConnectStates12, ConnectStates13, InTheClear
  <2>4. d.transcript = Heard(d.suite, d.state)
    <3>1. c.transcript = Heard(c.suite, c.state)
      BY <2>3 DEF ClientKnows
    <3> QED
      BY <1>1, <1>3, <1>7, <3>1, HeardAfter
  <2>5. ClientKnows(d)
    BY <1>3, <2>2, <2>3, <2>4 DEF ClientKnows, FragmentKnown
  <2>6. SendsFinished13(d.state) <=> c.state = "TLS1_3_EXPECTING_FINISHED"
    BY <1>1, <1>7 DEF SendsFinished13, NextState
  <2>7. Reached(suite, d) = After(suite, p, n)
    BY <1>2, <1>3, <1>4, <1>5, <1>6, <1>7, <2>1, <2>2, <2>6 DEF KeyAfter
  <2> QED
    BY <2>5, <2>7 DEF n, p
<1>8. CASE suite # "tls13"
  <2>1. ~SendsFinished13(d.state)
    BY <1>1, <1>8 DEF SendsFinished13, NextState
  <2>2. c.state # "TLS1_2_EXPECTING_FINISHED" => ~c.readOn
    BY <1>1, <1>8 DEF ClientKnows, InTheClear
  <2>3. Reached(suite, d) = After(suite, p, n)
    BY <1>1, <1>3, <1>4, <1>5, <1>6, <1>8, <2>1, <2>2 DEF KeyAfter
  <2>4. CASE c.state = "TLS1_2_EXPECTING_FINISHED"
    <3>1. d.state = "HANDSHAKE_COMPLETE"
      BY <2>4 DEF NextState
    <3>2. d.readKey = SessionKey12("server") /\ d.writeKey = SessionKey12("client") /\ d.writeOn
      BY <1>3, <2>4 DEF KeysFit
    <3>3. ClientKnows(d)
      BY <1>3, <1>8, <3>1, <3>2
      DEF ClientKnows, FragmentKnown, ConnectStates12, ConnectStates13, InTheClear, DataKey
    <3> QED
      BY <2>3, <3>3 DEF n, p
  <2>5. CASE c.state # "TLS1_2_EXPECTING_FINISHED"
    <3>1. d.state \in {"TLS1_2_EXPECTING_SERVER_KEY_EXCHANGE",
                       "TLS1_2_EXPECTING_SERVER_HELLO_DONE", "TLS1_2_SENDING_CLIENT_KEY_EXCHANGE"}
          /\ c.state \in ConnectStates12 /\ c.state \in InTheClear
          /\ (d.state = "TLS1_2_EXPECTING_SERVER_KEY_EXCHANGE" => suite = "tls12_ecdhe")
      BY <1>1, <1>8, <2>5 DEF NextState, ConnectStates12, InTheClear
    <3>2. c.transcript = Heard(c.suite, c.state)
      BY <3>1 DEF ClientKnows
    <3>3. d.transcript = Heard(d.suite, d.state)
      BY <1>1, <1>3, <1>8, <2>5, <3>2, HeardAfter
    <3>4. ~c.readOn /\ ~c.writeOn
      BY <3>1 DEF ClientKnows
    <3>5. ClientKnows(d)
      BY <1>3, <3>1, <3>3, <3>4
      DEF ClientKnows, FragmentKnown, ConnectStates13, InTheClear
    <3> QED
      BY <2>3, <3>5 DEF n, p
  <2> QED
    BY <2>4, <2>5
<1> QED
  BY <1>7, <1>8

\* ServerHello is hashed after the ClientHello that was kept.
LEMMA HelloDigested ==
  ASSUME NEW h \in Context, h.savedHello, h.transcript = <<>>, HandshakeInProgress(h),
         NEW e, e = Digested(h, "server_hello")
  PROVE  /\ e \in Context /\ Like(h, e) /\ e.state = h.state /\ ~e.savedHello
         /\ e.readKey = h.readKey /\ e.writeKey = h.writeKey
         /\ e.transcript = Hello
<1> DEFINE ms == <<"client_hello">>
           ns == <<"server_hello">>
           g == Hashed(h, ms)
           f == FALSE
           hello == [g EXCEPT !.savedHello = f]
<1>1. ms \in Seq(Message) /\ ns \in Seq(Message)
  BY DEF Message, ServerMessage
<1>2. /\ g \in Context /\ g = [h EXCEPT !.transcript = g.transcript]
      /\ g.transcript = h.transcript \o ms
  BY <1>1, HashedFits
<1>3. h.transcript \o ms = ms
  BY <1>1
<1>4. e = Hashed(hello, ns)
  BY DEF Digested
<1>5. ms \o ns = Hello
  <2>1. Append(ms, "server_hello") = Hello
    BY Tuples
  <2>2. ms \o ns = Append(ms, "server_hello")
    BY <1>1
  <2> QED
    BY <2>1, <2>2
<1>6. f \in BOOLEAN /\ ~f
  OBVIOUS
<1> HIDE DEF g, ms, ns, f
<1>7. g.transcript = ms
  BY <1>2, <1>3
<1>8. /\ hello \in Context /\ hello.transcript = ms /\ hello.state = h.state /\ Like(h, hello)
      /\ hello.readKey = h.readKey /\ hello.writeKey = h.writeKey /\ ~hello.savedHello
  BY <1>1, <1>2, <1>6, <1>7 DEF Context, Like
<1> HIDE DEF hello
<1>9. HandshakeInProgress(hello)
  BY <1>8 DEF HandshakeInProgress
<1>10. /\ e \in Context /\ e = [hello EXCEPT !.transcript = e.transcript]
       /\ e.transcript = hello.transcript \o ns
  <2> DEFINE x == Hashed(hello, ns)
  <2>1. hello \in Context /\ ns \in Seq(Message)
    BY <1>1, <1>8
  <2>2. x \in Context /\ x = [hello EXCEPT !.transcript = x.transcript]
    BY <2>1, HashedFits
  <2>3. x.transcript = hello.transcript \o ns
    BY <1>9, <2>1, HashedFits
  <2>4. e = x
    BY <1>4
  <2> HIDE DEF x
  <2> QED
    BY <2>2, <2>3, <2>4
<1>11. e.transcript = Hello
  BY <1>5, <1>8, <1>10
<1>12. /\ e.state = hello.state /\ Like(hello, e) /\ ~e.savedHello
       /\ e.readKey = hello.readKey /\ e.writeKey = hello.writeKey
  BY <1>8, <1>10 DEF Context, Like
<1> QED
  BY <1>8, <1>10, <1>11, <1>12 DEF Like

LEMMA HelloAccepted ==
  ASSUME srv \in ServerState, srv.suite # "none",
         NEW c \in Context, ClientKnows(c), KeysFit(c), c.suite = "none", c.frag = NoFragment,
         c.state = "EXPECTING_SERVER_HELLO"
  PROVE  \E d : /\ ProcessHandshakeMessage(c, "server_hello") = {d}
                /\ ClientKnows(d) /\ d.suite = srv.suite /\ d.frag = NoFragment
                /\ d.state = NextState(srv.suite, c.state) /\ d.writeSeq = c.writeSeq
                /\ Reached(srv.suite, d) =
                     After(srv.suite, Reached(srv.suite, c), Size("server_hello"))
<1> DEFINE suite == srv.suite
           next == NextState(suite, "EXPECTING_SERVER_HELLO")
           h == [c EXCEPT !.suite = suite, !.state = next]
           e == Digested(h, "server_hello")
           n == Size("server_hello")
<1>1. suite \in Suite /\ suite \in Suites
  BY SuiteAssumption DEF ServerState, Suite
<1>2. /\ suite = "tls13" => next = "TLS1_3_EXPECTING_ENCRYPTED_EXTENSIONS"
      /\ suite # "tls13" => next = "TLS1_2_EXPECTING_CERTIFICATE"
      /\ next \in State
  BY DEF NextState, State, ConnectStates12, ConnectStates13
<1>3. /\ c.savedHello /\ ~c.readOn /\ ~c.writeOn /\ c.readSeq = 0 /\ c.writeSeq = 0
      /\ c.transcript = <<>>
  <2>1. c.savedHello /\ ~c.readOn /\ ~c.writeOn /\ c.transcript = Heard(c.suite, c.state)
    BY DEF ClientKnows, InTheClear
  <2> QED
    BY <2>1, HeardNext DEF KeysFit
<1>4. ProcessHandshakeMessage(c, "server_hello") = {Keyed(e)}
  <2>1. HandleServerHello(c) = h
    BY <1>2 DEF HandleServerHello
  <2>2. HandledBy(c, "server_hello") = When("server_hello" = "server_hello", HandleServerHello(c))
    BY DEF HandledBy, Is13
  <2>3. HandledBy(c, "server_hello") = {HandleServerHello(c)}
    BY <2>2 DEF When
  <2> QED
    BY <2>1, <2>3, OneOutcome
<1> HIDE DEF next, suite
<1>5. /\ h \in Context /\ h.state = next /\ h.suite = suite /\ h.savedHello /\ h.transcript = <<>>
      /\ ~h.readOn /\ ~h.writeOn /\ h.readSeq = 0 /\ h.writeSeq = 0 /\ h.frag = NoFragment
  BY <1>1, <1>2, <1>3 DEF Context
<1> HIDE DEF h
<1>6. HandshakeInProgress(h)
  BY <1>1, <1>2, <1>5, InProgress
<1>7. /\ e \in Context /\ e.state = next /\ ~e.savedHello /\ e.transcript = Hello
      /\ e.suite = suite /\ ~e.readOn /\ ~e.writeOn /\ e.readSeq = 0 /\ e.writeSeq = 0
      /\ e.frag = NoFragment
  BY <1>5, <1>6, HelloDigested DEF Like
<1> HIDE DEF e
<1>8. /\ Reached(suite, c) = [n |-> 0, key |-> Plain, seq |-> 0]
      /\ Before(suite, Awaited(next)) = n
      /\ suite = "tls13" => /\ n = Before(suite, "encrypted_extensions")
      /\ n \in Nat
  <2>1. SuiteFits(suite, "EXPECTING_SERVER_HELLO")
    BY DEF SuiteFits, ReadStates, ConnectStates12, ConnectStates13
  <2>2. Before(suite, "server_hello") = 0
    BY AwaitedNext
  <2>3. n \in Nat
    BY Sizes DEF ServerMessage
  <2>4. /\ Before(suite, Awaited(next)) = 0 + n
        /\ suite = "tls13" => 0 + n = Before(suite, "encrypted_extensions")
    BY <1>1, <2>1, <2>2, NextPlace, Waits DEF next
  <2>5. Reached(suite, c) = [n |-> 0, key |-> Plain, seq |-> 0]
    BY <1>3, <2>2, Waits DEF Reached, SendsFinished13
  <2> QED
    BY <2>3, <2>4, <2>5
<1> HIDE DEF n
<1>9. /\ ~SendsFinished13(next)
      /\ Heard(suite, next) = Hello
  BY <1>2, HeardNext DEF SendsFinished13
<1>10. CASE suite # "tls13"
  <2>1. Keyed(e) = e /\ next = "TLS1_2_EXPECTING_CERTIFICATE"
    BY <1>2, <1>7, <1>10 DEF Keyed
  <2>2. ClientKnows(e)
    BY <1>7, <1>9, <2>1
    DEF ClientKnows, FragmentKnown, ConnectStates12, ConnectStates13, InTheClear
  <2>3. Reached(suite, e) = [n |-> n, key |-> Plain, seq |-> 0]
    BY <1>7, <1>8, <1>9 DEF Reached
  <2>4. After(suite, Reached(suite, c), n) = [n |-> n, key |-> Plain, seq |-> 0]
    BY <1>8, <1>10 DEF After, KeyAfter
  <2> QED
    BY <1>3, <1>4, <1>7, <2>1, <2>2, <2>3, <2>4 DEF next, suite, n
<1>11. CASE suite = "tls13"
  <2> DEFINE d == Keyed(e)
             read == HsKey("server")
             write == HsKey("client")
             both == <<write, read>>
             t == TRUE
  <2>1. next = "TLS1_3_EXPECTING_ENCRYPTED_EXTENSIONS"
    BY <1>2, <1>11
  <2>2. d = [e EXCEPT !.readKey = read, !.writeKey = write, !.readSeq = 0, !.writeSeq = 0,
                      !.secrets = both, !.readOn = t, !.writeOn = t]
    <3>1. Key("handshake", "client", e.transcript) = write
          /\ Key("handshake", "server", e.transcript) = read
      BY <1>7 DEF HsKey
    <3>2. d = DeriveHandshakeKeys13(e)
      BY <1>7, <2>1 DEF Keyed
    <3> HIDE DEF read, write, d
    <3> QED
      BY <1>7, <3>1, <3>2 DEF DeriveHandshakeKeys13, KeysFromSecrets13, Context
  <2>3. read \in KeySet /\ write \in KeySet /\ both \in KeySet \X KeySet /\ t \in BOOLEAN /\ t
    BY KeysTyped DEF Side
  <2> HIDE DEF read, write, both, d, t
  <2>4. /\ d.state = next /\ d.suite = suite /\ d.transcript = Hello /\ d.frag = NoFragment
        /\ d.readOn /\ d.writeOn /\ d.readKey = read /\ d.writeKey = write
        /\ d.readSeq = 0 /\ d.writeSeq = 0 /\ d.secrets = both
    BY <1>7, <2>2, <2>3 DEF Context
  <2>5. ClientKnows(d)
    BY <1>9, <2>1, <2>4 DEF read, write, both, ClientKnows, FragmentKnown, ConnectStates12, ConnectStates13, InTheClear
  <2>6. Reached(suite, d) = [n |-> n, key |-> read, seq |-> 0]
    BY <1>8, <1>9, <2>4 DEF Reached
  <2>7. After(suite, Reached(suite, c), n) = [n |-> n, key |-> read, seq |-> 0]
    BY <1>8, <1>11 DEF After, KeyAfter, read
  <2> QED
    BY <1>3, <1>4, <2>4, <2>5, <2>6, <2>7 DEF next, suite, n, d
<1> QED
  BY <1>10, <1>11

\* What a context that goes on with the next message is.
MovesOn(c, d) ==
  /\ InUse(d) /\ FragmentFits(d) /\ ClientKnows(d)
  /\ d.frag = NoFragment /\ d.suite = srv.suite /\ d.writeSeq = c.writeSeq
  /\ Writes(srv.suite, d.state) = Writes(srv.suite, c.state)

\* The message a client waits for is accepted.
LEMMA Accepted ==
  ASSUME IInv, ServerKnows, srv.suite # "none", NEW c, InUse(c), ClientKnows(c),
         c.state \in ReadStates, c.frag = NoFragment
  PROVE  \E d : /\ ProcessHandshakeMessage(c, Awaited(c.state)) = {d}
                /\ MovesOn(c, d)
                /\ Reached(srv.suite, d) =
                     After(srv.suite, Reached(srv.suite, c),
                           Before(srv.suite, Awaited(c.state)) + Size(Awaited(c.state)))
<1> DEFINE suite == srv.suite
           m == Awaited(c.state)
<1>0. srv \in ServerState /\ srv.state # "expecting_hello"
  BY DEF IInv, Typed, ServerFits
<1>1. /\ suite \in Suite /\ c \in Context /\ SuiteFits(suite, c.state)
      /\ c.state # "EXPECTING_SERVER_HELLO" => c.suite = suite /\ ~c.savedHello
      /\ c.state = "EXPECTING_SERVER_HELLO" => c.suite = "none" /\ c.savedHello
      /\ StateFits(c) /\ KeysFit(c)
  BY <1>0, ReadFits DEF InUse
<1>2. m \in Said(suite) /\ Writes(suite, NextState(suite, c.state)) = Writes(suite, c.state)
  BY <1>1, NextPlace
<1>3. m \in ServerMessage
  BY <1>2, Sizes
<1>4. ASSUME NEW d, ProcessHandshakeMessage(c, m) = {d} PROVE InUse(d) /\ d.frag = c.frag
  <2>1. d \in ProcessHandshakeMessage(c, m)
    BY <1>4
  <2>2. Follows(c, d)
    BY <1>0, <1>3, <2>1, MessageKeeps DEF IInv
  <2> QED
    BY <2>2 DEF Follows
<1>5. CASE c.state = "EXPECTING_SERVER_HELLO"
  <2>1. m = "server_hello" /\ Before(suite, m) = 0 /\ Size("server_hello") \in Nat
    BY <1>5, Waits, AwaitedNext, Sizes DEF ServerMessage
  <2>2. PICK d : /\ ProcessHandshakeMessage(c, "server_hello") = {d}
                 /\ ClientKnows(d) /\ d.suite = suite /\ d.frag = NoFragment
                 /\ d.state = NextState(suite, c.state) /\ d.writeSeq = c.writeSeq
                 /\ Reached(suite, d) = After(suite, Reached(suite, c), Size("server_hello"))
    BY <1>0, <1>1, <1>5, HelloAccepted
  <2>3. Before(suite, m) + Size(m) = Size("server_hello")
    BY <2>1
  <2>4. ProcessHandshakeMessage(c, m) = {d}
    BY <2>1, <2>2
  <2>5. MovesOn(c, d)
    BY <1>2, <1>4, <2>2, <2>4 DEF MovesOn, FragmentFits
  <2> HIDE DEF m, suite
  <2> QED
    BY <2>2, <2>3, <2>4, <2>5 DEF m, suite
<1>6. CASE c.state # "EXPECTING_SERVER_HELLO"
  <2> DEFINE h == IF c.state = "TLS1_2_EXPECTING_SERVER_KEY_EXCHANGE"
                  THEN HandleServerKeyExchangeEcdhe12(c)
                  ELSE [c EXCEPT !.state = NextState(c.suite, c.state)]
             d == Keyed(Digested(h, m))
             next == NextState(c.suite, c.state)
  <2>1. c.suite = suite /\ ~c.savedHello /\ c.suite \in Suite /\ SuiteFits(c.suite, c.state)
    BY <1>1, <1>6
  <2>2. /\ c.state = "TLS1_2_EXPECTING_FINISHED" => srv.verify = Proof(c.readKey, c.transcript)
        /\ c.state = "TLS1_3_EXPECTING_CERTIFICATE_VERIFY" => srv.signed = c.transcript
        /\ c.state = "TLS1_3_EXPECTING_FINISHED" => srv.verify = Proof(c.secrets[2], c.transcript)
    <3>1. c.state = "TLS1_2_EXPECTING_FINISHED" => srv.verify = Proof(c.readKey, c.transcript)
      BY <1>1, <2>1 DEF ClientKnows, ConnectStates12, KeysFit, Full12
    <3>2. c.state \in {"TLS1_3_EXPECTING_CERTIFICATE_VERIFY", "TLS1_3_EXPECTING_FINISHED"} =>
            /\ suite = "tls13" /\ c.transcript = Heard(suite, c.state)
            /\ c.secrets = <<HsKey("client"), HsKey("server")>>
      BY <1>1, <2>1 DEF ClientKnows, ConnectStates13, SuiteFits
    <3>3. c.state = "TLS1_3_EXPECTING_CERTIFICATE_VERIFY" => srv.signed = c.transcript
      BY <3>2 DEF ServerKnows, ServerKnows13
    <3>4. c.state = "TLS1_3_EXPECTING_FINISHED" => srv.verify = Proof(c.secrets[2], c.transcript)
      BY <3>2 DEF ServerKnows, ServerKnows13
    <3> QED
      BY <3>1, <3>3, <3>4
  <2>3. HandledBy(c, m) = {h}
    BY <1>6, <2>1, <2>2, HandlerOf
  <2>4. ProcessHandshakeMessage(c, m) = {d}
    BY <2>3, OneOutcome
  <2>5. /\ h \in Context /\ Like(c, h) /\ ~h.savedHello /\ h.transcript = c.transcript
        /\ h.state = next
        /\ c.state # "TLS1_2_EXPECTING_SERVER_KEY_EXCHANGE" =>
             h.readKey = c.readKey /\ h.writeKey = c.writeKey
    BY <1>1, <1>6, <2>1, HandlerKeeps
  <2>6. next # "TLS1_3_EXPECTING_ENCRYPTED_EXTENSIONS"
        /\ (c.state # "TLS1_2_EXPECTING_FINISHED" =>
              next \notin {"HANDSHAKE_COMPLETE", "SENDING_CLOSE_NOTIFY", "CONNECTION_CLOSED"})
    BY <1>6, <2>1 DEF NextState
  <2> HIDE DEF h, next
  <2>7. /\ d \in Context /\ Like(h, d) /\ d.state = h.state
        /\ d.readKey = h.readKey /\ d.writeKey = h.writeKey
        /\ HandshakeInProgress(h) => d.transcript = Append(h.transcript, m)
    <3>1. m \in Message
      BY <1>3 DEF Message
    <3> HIDE DEF m
    <3> QED
      BY <2>5, <2>6, <3>1, DigestedAs
  <2>8. c.state # "TLS1_2_EXPECTING_FINISHED" => d.transcript = Append(c.transcript, m)
    BY <2>5, <2>6, <2>7, InProgress
  <2>9. Like(c, d) /\ d.state = next /\ (c.state # "TLS1_2_EXPECTING_SERVER_KEY_EXCHANGE" =>
                                           d.readKey = c.readKey /\ d.writeKey = c.writeKey)
    BY <2>5, <2>7 DEF Like
  <2> HIDE DEF d
  <2>10. /\ ClientKnows(d)
         /\ Reached(c.suite, d) =
              After(c.suite, Reached(c.suite, c),
                    Before(c.suite, Awaited(c.state)) + Size(Awaited(c.state)))
    BY <1>1, <1>6, <2>1, <2>7, <2>8, <2>9, NextKnows DEF next
  <2>11. MovesOn(c, d)
    BY <1>2, <1>4, <2>1, <2>4, <2>9, <2>10 DEF MovesOn, FragmentFits, Like, next
  <2> QED
    BY <2>1, <2>4, <2>10, <2>11
<1> QED
  BY <1>5, <1>6

-----------------------------------------------------------------------------
(* Reassembly *)

LEMMA PartOf ==
  ASSUME NEW b \in Seq(Byte), NEW a \in Nat, NEW n \in Nat, a + n <= Len(b),
         NEW u, u = SubSeq(b, a + 1, a + n)
  PROVE  u \in Seq(Byte) /\ Len(u) = n /\ \A i \in 1 .. n : u[i] = b[a + i]
<1>1. u \in Seq(Byte)
  OBVIOUS
<1>2. Len(u) = n
  OBVIOUS
<1>3. ASSUME NEW i \in 1 .. n PROVE u[i] = b[a + i]
  <2>1. u[i] = b[(a + 1) + i - 1] /\ (a + 1) + i - 1 = a + i
    BY <1>2
  <2> QED
    BY <2>1
<1> QED
  BY <1>1, <1>2, <1>3

\* What one sequence followed by another is.
LEMMA JoinIs ==
  ASSUME NEW R, NEW a \in Seq(R), NEW b \in Seq(R), NEW t \in Seq(R), Len(t) = Len(a) + Len(b),
         \A i \in 1 .. Len(a) : t[i] = a[i], \A i \in 1 .. Len(b) : t[Len(a) + i] = b[i]
  PROVE  a \o b = t
<1> DEFINE u == a \o b
<1>1. /\ u \in Seq(R) /\ Len(u) = Len(a) + Len(b) /\ Len(a) \in Nat /\ Len(b) \in Nat
      /\ \A i \in 1 .. Len(a) : u[i] = a[i]
      /\ \A i \in 1 .. Len(b) : u[Len(a) + i] = b[i]
  OBVIOUS
<1> HIDE DEF u
<1>2. ASSUME NEW i \in 1 .. Len(u)
      PROVE  u[i] = t[i]
  <2>1. CASE i <= Len(a)
    BY <1>1, <2>1
  <2>2. CASE i > Len(a)
    <3>1. i - Len(a) \in 1 .. Len(b) /\ Len(a) + (i - Len(a)) = i
      BY <1>1, <2>2
    <3> QED
      BY <1>1, <3>1
  <2> QED
    BY <1>1, <2>1, <2>2
<1>3. u = t
  BY <1>1, <1>2, SeqEqual
<1> QED
  BY <1>3 DEF u

LEMMA HeaderBody ==
  ASSUME NEW m \in ServerMessage
  PROVE  /\ Header(m) \in Seq(Byte) /\ Len(Header(m)) = HeaderCb
         /\ \A i \in 1 .. HeaderCb : Header(m)[i] = <<m, i>>
         /\ Body(m) \in Seq(Byte) /\ Len(Body(m)) = BodyCb[m]
         /\ \A i \in 1 .. BodyCb[m] : Body(m)[i] = <<m, HeaderCb + i>>
<1> DEFINE b == Bytes(m)
<1>1. /\ b \in Seq(Byte) /\ Len(b) = Size(m)
      /\ \A i \in 1 .. Size(m) : b[i] = <<m, i>>
  BY BytesFacts
<1>2. Size(m) = HeaderCb + BodyCb[m] /\ HeaderCb \in Nat /\ HeaderCb >= 1 /\ BodyCb[m] \in Nat
  BY Sizes
<1> HIDE DEF b
<1>3. /\ Header(m) = SubSeq(b, 1, HeaderCb)
      /\ Body(m) = SubSeq(b, HeaderCb + 1, HeaderCb + BodyCb[m])
  BY DEF Header, Body, b
<1> DEFINE h == Header(m)
           c == Body(m)
<1>4. /\ h \in Seq(Byte) /\ Len(h) = HeaderCb
      /\ \A i \in 1 .. HeaderCb : h[i] = b[i]
  BY <1>1, <1>2, <1>3
<1> HIDE DEF h, c
<1>5. /\ c \in Seq(Byte) /\ Len(c) = BodyCb[m]
      /\ \A i \in 1 .. BodyCb[m] : c[i] = b[HeaderCb + i]
  <2>1. HeaderCb + BodyCb[m] <= Len(b)
    BY <1>1, <1>2
  <2> DEFINE a == HeaderCb
             n == BodyCb[m]
  <2>2. c = SubSeq(b, a + 1, a + n) /\ a \in Nat /\ n \in Nat /\ a + n <= Len(b)
    BY <1>2, <1>3, <2>1 DEF c
  <2> HIDE DEF a, n
  <2>3. c \in Seq(Byte) /\ Len(c) = n /\ \A i \in 1 .. n : c[i] = b[a + i]
    BY <1>1, <2>2, PartOf
  <2> QED
    BY <2>3 DEF a, n
<1>6. \A i \in 1 .. HeaderCb : h[i] = <<m, i>>
  <2>1. \A i \in 1 .. HeaderCb : i \in 1 .. Size(m)
    BY <1>2
  <2> QED
    BY <1>1, <1>4, <2>1
<1>7. \A i \in 1 .. BodyCb[m] : c[i] = <<m, HeaderCb + i>>
  <2>1. \A i \in 1 .. BodyCb[m] : HeaderCb + i \in 1 .. Size(m)
    BY <1>2
  <2> QED
    BY <1>1, <1>5, <2>1
<1> QED
  BY <1>4, <1>5, <1>6, <1>7 DEF c, h

\* A header says which message it is of.
LEMMA HeaderReadAs ==
  ASSUME NEW m \in ServerMessage
  PROVE  HeaderRead(Header(m)) = {[type |-> m, need |-> BodyCb[m]]}
<1>1. ASSUME NEW k \in ServerMessage, Header(k) = Header(m) PROVE k = m
  <2>1. 1 \in 1 .. HeaderCb
    BY Sizes
  <2>2. Header(k)[1] = <<k, 1>> /\ Header(m)[1] = <<m, 1>>
    BY <2>1, HeaderBody
  <2> QED
    BY <1>1, <2>2
<1>2. {k \in ServerMessage : Header(m) = Header(k)} = {m}
  BY <1>1
<1>3. HeaderRead(Header(m)) = {[type |-> k, need |-> BodyCb[k]] : k \in {j \in ServerMessage : Header(m) = Header(j)}}
  BY DEF HeaderRead
<1> QED
  BY <1>2, <1>3

\* What the bytes of a message are when they come in pieces.
LEMMA Pieces ==
  ASSUME NEW m \in ServerMessage, NEW g \in Nat, NEW bytes \in Seq(Byte),
         \A i \in 1 .. Len(bytes) : g + i <= BodyCb[m] => bytes[i] = <<m, HeaderCb + (g + i)>>,
         NEW got, got = Taken(Body(m), g), g <= BodyCb[m]
  PROVE  /\ g + Len(bytes) <= BodyCb[m] => got \o bytes = Taken(Body(m), g + Len(bytes))
         /\ g + Len(bytes) >= BodyCb[m] => got \o Taken(bytes, BodyCb[m] - g) = Body(m)
<1> DEFINE b == Body(m)
<1>1. /\ b \in Seq(Byte) /\ Len(b) = BodyCb[m] /\ BodyCb[m] \in Nat /\ Len(bytes) \in Nat
      /\ \A i \in 1 .. BodyCb[m] : b[i] = <<m, HeaderCb + i>>
  <2>1. b \in Seq(Byte) /\ Len(b) = BodyCb[m]
    BY HeaderBody
  <2>2. \A i \in 1 .. BodyCb[m] : b[i] = <<m, HeaderCb + i>>
    BY HeaderBody
  <2>3. BodyCb[m] \in Nat /\ Len(bytes) \in Nat
    BY Sizes
  <2> HIDE DEF b
  <2> QED
    BY <2>1, <2>2, <2>3
<1> HIDE DEF b
<1>2. /\ got \in Seq(Byte) /\ Len(got) = g
      /\ \A i \in 1 .. g : got[i] = b[i]
  <2> DEFINE n == BodyCb[m]
  <2>1. got = SubSeq(b, 1, g)
    BY DEF Taken, b
  <2>2. b \in Seq(Byte) /\ Len(b) = n /\ n \in Nat /\ g <= n
    BY <1>1
  <2> HIDE DEF n
  <2> QED
    BY <2>1, <2>2
<1>3. ASSUME NEW k \in 0 .. Len(bytes), g + k <= BodyCb[m], NEW t \in Seq(Byte), Len(t) = k,
             \A i \in 1 .. k : t[i] = bytes[i],
             NEW u \in Seq(Byte), Len(u) = g + k, \A i \in 1 .. g + k : u[i] = b[i]
      PROVE  got \o t = u
  <2>1. \A i \in 1 .. Len(got) : u[i] = got[i]
    <3>1. \A i \in 1 .. g : i \in 1 .. g + k
      BY <1>3
    <3> QED
      BY <1>2, <1>3, <3>1
  <2>2. ASSUME NEW i \in 1 .. k PROVE u[g + i] = t[i]
    <3>1. g + i \in 1 .. g + k /\ g + i \in 1 .. BodyCb[m] /\ i \in 1 .. Len(bytes) /\ g + i <= BodyCb[m]
      BY <1>1, <1>3
    <3>2. u[g + i] = b[g + i] /\ b[g + i] = <<m, HeaderCb + (g + i)>>
      BY <1>1, <1>3, <3>1
    <3>3. t[i] = bytes[i] /\ bytes[i] = <<m, HeaderCb + (g + i)>>
      BY <1>3, <3>1
    <3> QED
      BY <3>2, <3>3
  <2>3. Len(u) = Len(got) + Len(t) /\ \A i \in 1 .. Len(t) : u[Len(got) + i] = t[i]
    BY <1>2, <1>3, <2>2
  <2>4. got \in Seq(Byte) /\ t \in Seq(Byte) /\ u \in Seq(Byte)
    BY <1>2, <1>3
  <2> QED
    BY <2>1, <2>3, <2>4, JoinIs
<1>4. ASSUME g + Len(bytes) <= BodyCb[m] PROVE got \o bytes = Taken(b, g + Len(bytes))
  <2> DEFINE n == g + Len(bytes)
             u == Taken(b, n)
  <2>1. n \in Nat /\ n <= Len(b)
    BY <1>1, <1>4
  <2>2. u \in Seq(Byte) /\ Len(u) = n /\ \A i \in 1 .. n : u[i] = b[i]
    <3> HIDE DEF n
    <3> QED
      BY <1>1, <2>1 DEF Taken
  <2> HIDE DEF u
  <2>3. Len(bytes) \in 0 .. Len(bytes) /\ \A i \in 1 .. Len(bytes) : bytes[i] = bytes[i]
    BY <1>1
  <2>4. got \o bytes = u
    BY <1>3, <1>4, <2>2, <2>3
  <2> QED
    BY <2>4 DEF u
<1>5. ASSUME g + Len(bytes) >= BodyCb[m] PROVE got \o Taken(bytes, BodyCb[m] - g) = b
  <2> DEFINE k == BodyCb[m] - g
             t == Taken(bytes, k)
  <2>1. k \in Nat /\ k \in 0 .. Len(bytes) /\ g + k = BodyCb[m]
    BY <1>1, <1>5
  <2>2. t \in Seq(Byte) /\ Len(t) = k /\ \A i \in 1 .. k : t[i] = bytes[i]
    <3> HIDE DEF k
    <3> QED
      BY <2>1 DEF Taken
  <2> HIDE DEF t, k
  <2>3. Len(b) = g + k /\ \A i \in 1 .. g + k : b[i] = b[i]
    BY <1>1, <2>1
  <2>4. got \o t = b
    <3>1. g + k <= BodyCb[m] /\ b \in Seq(Byte)
      BY <1>1, <2>1
    <3> QED
      BY <1>3, <2>1, <2>2, <2>3, <3>1
  <2> QED
    BY <2>4 DEF t, k
<1> QED
  BY <1>4, <1>5 DEF b

-----------------------------------------------------------------------------
(* A record is read *)

\* The keys of the server do not change inside of a message.
LEMMA KeyInside ==
  ASSUME NEW suite \in Suite, NEW m \in Said(suite), NEW k \in 1 .. Size(m), k < Size(m), NEW key
  PROVE  KeyAfter(suite, Before(suite, m) + k, key) = key
<1>1. CASE suite = "tls13"
  <2> DEFINE n == Before(suite, m) + k
  <2>1. /\ "server_hello" \in Said(suite) /\ "finished" \in Said(suite)
        /\ Size("server_hello") \in 1 .. Size("server_hello")
        /\ Size("finished") \in 1 .. Size("finished")
    BY <1>1, Offsets13, Sizes DEF ServerMessage
  <2>2. n # Before(suite, "server_hello") + Size("server_hello")
    BY <2>1, OnePlace
  <2>3. n # Before(suite, "finished") + Size("finished")
    BY <2>1, OnePlace
  <2>4. /\ Before(suite, "encrypted_extensions") = Before(suite, "server_hello") + Size("server_hello")
        /\ Before(suite, "none") = Before(suite, "finished") + Size("finished")
    BY <1>1, Offsets13, Sizes DEF ServerMessage
  <2> HIDE DEF n
  <2>5. KeyAfter(suite, n, key) = key
    BY <2>2, <2>3, <2>4 DEF KeyAfter
  <2> QED
    BY <2>5 DEF n
<1> QED
  BY <1>1 DEF KeyAfter

\* What goes on in the same record is written with the same key.
LEMMA KeyBetween ==
  ASSUME NEW suite \in Suite, NEW n \in Nat, NEW key, NEW bytes \in Seq(Byte), bytes # <<>>,
         Runs(suite, bytes, n, key)
  PROVE  KeyAfter(suite, n, key) = key
<1>1. n # Before(suite, "none")
  <2>1. n < Before(suite, "none") /\ Before(suite, "none") \in Nat
    BY RunEnds, OffsetsTyped
  <2> QED
    BY <2>1
<1>2. ASSUME suite = "tls13", n = Before(suite, "encrypted_extensions")
      PROVE  key = HsKey("server")
  <2> DEFINE m == "encrypted_extensions"
             k == 0
  <2>1. m \in Said(suite)
    BY <1>2, Offsets13
  <2>2. k \in Nat /\ k < Size(m)
    BY Sizes DEF ServerMessage
  <2>3. Before(suite, m) + k = n
    BY <1>2
  <2> HIDE DEF m, k
  <2>4. key = MessageKey(suite, m)
    BY <2>1, <2>2, <2>3, RunKey
  <2> QED
    BY <1>2, <2>4 DEF MessageKey, m
<1> QED
  BY <1>1, <1>2 DEF KeyAfter

LEMMA AfterBetween ==
  ASSUME NEW suite, NEW p, NEW k \in Nat, NEW n \in Nat, KeyAfter(suite, k, p.key) = p.key
  PROVE  /\ After(suite, p, k) = [n |-> k, key |-> p.key, seq |-> p.seq]
         /\ After(suite, After(suite, p, k), n) = After(suite, p, n)
<1>1. After(suite, p, k) = [n |-> k, key |-> p.key, seq |-> p.seq]
  BY DEF After
<1> DEFINE q == [n |-> k, key |-> p.key, seq |-> p.seq]
<1>2. q.key = p.key /\ q.seq = p.seq
  OBVIOUS
<1> HIDE DEF q
<1>3. After(suite, q, n) = After(suite, p, n)
  BY <1>2 DEF After
<1> QED
  BY <1>1, <1>3 DEF q

LEMMA FinishedSaid == \A suite : "finished" \in Said(suite)
BY DEF Said

\* A client that is in a record reads messages.
LEMMA RunState ==
  ASSUME IInv, srv.suite # "none", NEW c, InUse(c), ClientKnows(c),
         NEW bytes \in Seq(Byte), bytes # <<>>,
         NEW p, p = Reached(srv.suite, c), Runs(srv.suite, bytes, p.n, p.key)
  PROVE  c.state \in ReadStates
<1> DEFINE suite == srv.suite
<1>1. suite \in Suite
  BY SuiteAssumption DEF IInv, Typed, ServerState, Suite
<1>2. c \in Context /\ c.state \in State /\ StateFits(c)
  BY DEF InUse, Context
<1>3. c.state \notin ReadStates => c.frag = NoFragment
  BY DEF ClientKnows, FragmentKnown
<1>4. CASE c.state \in {"TLS1_2_SENDING_CLIENT_KEY_EXCHANGE", "TLS1_2_SENDING_CHANGE_CIPHER_SPEC",
                        "TLS1_2_SENDING_FINISHED", "TLS1_2_EXPECTING_CHANGE_CIPHER_SPEC"}
  <2>1. c.frag = NoFragment /\ ~c.readOn /\ Awaited(c.state) = "finished" /\ ~SendsFinished13(c.state)
    BY <1>3, <1>4, Waits DEF ReadStates, ClientKnows, InTheClear, SendsFinished13
  <2>2. "finished" \in Said(suite) /\ 0 \in Nat /\ 0 < Size("finished")
        /\ Before(suite, "finished") \in Nat
    <3> HIDE DEF suite
    <3>1. "finished" \in Said(suite)
      BY FinishedSaid
    <3> QED
      BY <1>1, <3>1, Sizes, OffsetsTyped DEF ServerMessage
  <2>3. p.n = Before(suite, "finished") + 0 /\ p.key = Plain
    BY <2>1, <2>2 DEF Reached
  <2>4. Plain = MessageKey(suite, "finished")
    <3> DEFINE m == "finished"
               k == 0
    <3>1. m \in Said(suite) /\ k \in Nat /\ k < Size(m) /\ p.n = Before(suite, m) + k
      BY <2>2, <2>3
    <3>2. suite \in Suite /\ Runs(suite, bytes, p.n, p.key)
      BY <1>1
    <3> HIDE DEF suite, m, k
    <3>3. p.key = MessageKey(suite, m)
      BY <3>1, <3>2, RunKey
    <3> QED
      BY <2>3, <3>3 DEF m
  <2>5. MessageKey(suite, "finished") # Plain
    BY KeysDiffer DEF MessageKey, Side
  <2> QED
    BY <2>4, <2>5
<1>5. CASE c.state \in {"TLS1_3_SENDING_CHANGE_CIPHER_SPEC", "TLS1_3_SENDING_FINISHED",
                        "HANDSHAKE_COMPLETE"}
  <2>1. c.frag = NoFragment /\ Awaited(c.state) = "none"
    BY <1>3, <1>5, Waits DEF ReadStates
  <2>2. Before(suite, "none") \in Nat
    BY <1>1, OffsetsTyped
  <2>3. p.n = Before(suite, "none")
    BY <2>1, <2>2 DEF Reached
  <2>4. p.n < Before(suite, "none")
    BY <1>1, <2>2, <2>3, RunEnds
  <2> QED
    BY <2>2, <2>3, <2>4
<1> QED
  BY <1>2, <1>4, <1>5 DEF InUse, State, ConnectStates12, ConnectStates13, ReadStates

\* What is known of a client does not depend on how its messages are cut.
LEMMA FragmentKnows ==
  ASSUME NEW c \in Context, ClientKnows(c), NEW f, NEW d, d = [c EXCEPT !.frag = f],
         FragmentKnown(d)
  PROVE  /\ ClientKnows(d)
         /\ d.frag = f /\ d.state = c.state /\ d.suite = c.suite /\ d.writeSeq = c.writeSeq
         /\ d.readSeq = c.readSeq /\ d.readOn = c.readOn /\ d.readKey = c.readKey
<1>1. /\ d.frag = f /\ d.state = c.state /\ d.suite = c.suite /\ d.writeSeq = c.writeSeq
      /\ d.readSeq = c.readSeq /\ d.readOn = c.readOn /\ d.readKey = c.readKey
      /\ d.transcript = c.transcript /\ d.savedHello = c.savedHello /\ d.writeOn = c.writeOn
      /\ d.writeKey = c.writeKey /\ d.secrets = c.secrets
  BY DEF Context
<1>2. ClientKnows(d)
  BY <1>1 DEF ClientKnows
<1> QED
  BY <1>1, <1>2

\* A message whose last byte has come.
Finishes(c, m, rest, o) ==
  /\ o.result = "ok" /\ o.rest = rest /\ MovesOn(c, o.ctx)
  /\ Reached(srv.suite, o.ctx) =
       After(srv.suite, Reached(srv.suite, c), Before(srv.suite, m) + Size(m))

LEMMA CompleteReads ==
  ASSUME IInv, ServerKnows, srv.suite # "none", NEW c, InUse(c), ClientKnows(c),
         c.state \in ReadStates, NEW m, m = Awaited(c.state), NEW body, body = Body(m),
         NEW rest, NEW o \in Complete(c, m, body, rest)
  PROVE  Finishes(c, m, rest, o)
<1> DEFINE done == [c EXCEPT !.frag = NoFragment]
           n == Before(srv.suite, m) + Size(m)
<1>0. c \in Context /\ srv \in ServerState
  BY DEF InUse, IInv, Typed
<1>1. InUse(done) /\ FragmentFits(done) /\ done.state = c.state /\ done.frag = NoFragment
  BY FragmentChanged, NoFragmentTyped
<1>2. FragmentKnown(done)
  BY <1>1 DEF FragmentKnown
<1>3. /\ ClientKnows(done)
      /\ done.suite = c.suite /\ done.writeSeq = c.writeSeq
      /\ done.readSeq = c.readSeq /\ done.readOn = c.readOn /\ done.readKey = c.readKey
  BY <1>0, <1>2, FragmentKnows
<1>4. m \in ServerMessage
  <2>1. SuiteFits(srv.suite, c.state) /\ srv.suite \in Suite
    BY <1>0, ReadFits
  <2>2. m \in Said(srv.suite)
    BY <2>1, NextPlace
  <2> QED
    BY <2>2, Sizes
<1>5. o \in IF ProcessHandshakeMessage(done, m) = {} THEN {Outcome("illegal", done, rest)}
            ELSE {Outcome("ok", x, rest) : x \in ProcessHandshakeMessage(done, m)}
  BY <1>4 DEF Complete
<1> HIDE DEF done, n
<1>6. PICK d : /\ ProcessHandshakeMessage(done, m) = {d}
               /\ MovesOn(done, d)
               /\ Reached(srv.suite, d) = After(srv.suite, Reached(srv.suite, done), n)
  BY <1>1, <1>3, Accepted DEF n
<1>7. o = Outcome("ok", d, rest)
  BY <1>5, <1>6
<1>8. o.result = "ok" /\ o.rest = rest /\ o.ctx = d
  BY <1>7 DEF Outcome
<1>9. MovesOn(c, d)
  BY <1>1, <1>3, <1>6 DEF MovesOn
<1>10. After(srv.suite, Reached(srv.suite, done), n) = After(srv.suite, Reached(srv.suite, c), n)
  <2> DEFINE p == Reached(srv.suite, done)
             q == Reached(srv.suite, c)
  <2>1. p.key = q.key /\ p.seq = q.seq
    BY <1>1, <1>3 DEF Reached
  <2> HIDE DEF p, q
  <2>2. After(srv.suite, p, n) = After(srv.suite, q, n)
    BY <2>1 DEF After
  <2> QED
    BY <2>2 DEF p, q
<1> QED
  BY <1>6, <1>8, <1>9, <1>10 DEF Finishes, n

\* A message that goes on in the next record.
LEMMA FragmentReads ==
  ASSUME IInv, srv.suite # "none", NEW c, InUse(c), ClientKnows(c), c.state \in ReadStates,
         NEW m, m = Awaited(c.state), NEW k \in Nat, k < BodyCb[m],
         NEW g, g = Taken(Body(m), k),
         NEW d, d = [c EXCEPT !.frag = [type |-> m, need |-> BodyCb[m], got |-> g]]
  PROVE  /\ ClientKnows(d) /\ d.state = c.state /\ d.suite = c.suite /\ d.writeSeq = c.writeSeq
         /\ Reached(srv.suite, d) =
              After(srv.suite, Reached(srv.suite, c), Before(srv.suite, m) + (HeaderCb + k))
<1> DEFINE f == [type |-> m, need |-> BodyCb[m], got |-> g]
           suite == srv.suite
<1>0. c \in Context /\ srv \in ServerState
  BY DEF InUse, IInv, Typed
<1>1. suite \in Suite /\ SuiteFits(suite, c.state) /\ ~SendsFinished13(c.state)
  BY <1>0, ReadFits
<1>2. m \in Said(suite)
  BY <1>1, NextPlace
<1>3. /\ m \in ServerMessage /\ HeaderCb \in Nat /\ HeaderCb >= 1 /\ BodyCb[m] \in Nat
      /\ Size(m) = HeaderCb + BodyCb[m]
  BY <1>2, Sizes
<1>4. g \in Seq(Byte) /\ Len(g) = k
  <2>1. Body(m) \in Seq(Byte) /\ Len(Body(m)) = BodyCb[m]
    BY <1>3, HeaderBody
  <2> DEFINE b == Body(m)
  <2> HIDE DEF b
  <2>2. k <= Len(b) /\ b \in Seq(Byte)
    BY <1>3, <2>1 DEF b
  <2>3. Taken(b, k) \in Seq(Byte) /\ Len(Taken(b, k)) = k
    BY <2>2, CutTyped
  <2> QED
    BY <2>3 DEF b
<1>5. f.type = m /\ f.need = BodyCb[m] /\ f.got = g
  OBVIOUS
<1>6. f # NoFragment
  <2>1. m # "none"
    BY <1>3 DEF ServerMessage
  <2> QED
    BY <1>5, <2>1 DEF NoFragment
<1> HIDE DEF f
<1>7. d = [c EXCEPT !.frag = f]
  BY DEF f
<1>8. FragmentKnown(d)
  <2>1. d.frag = f /\ d.state = c.state
    BY <1>0, <1>7 DEF Context
  <2> QED
    BY <1>4, <1>5, <2>1 DEF FragmentKnown
<1>9. /\ ClientKnows(d)
      /\ d.frag = f /\ d.state = c.state /\ d.suite = c.suite /\ d.writeSeq = c.writeSeq
      /\ d.readSeq = c.readSeq /\ d.readOn = c.readOn /\ d.readKey = c.readKey
  BY <1>0, <1>7, <1>8, FragmentKnows
<1> DEFINE n == Before(suite, m) + (HeaderCb + k)
           p == Reached(suite, c)
<1>10. KeyAfter(suite, n, p.key) = p.key
  <2>1. HeaderCb + k \in 1 .. Size(m) /\ HeaderCb + k < Size(m)
    BY <1>3
  <2> HIDE DEF suite, p
  <2> QED
    BY <1>1, <1>2, <2>1, KeyInside
<1>11. After(suite, p, n) = [n |-> n, key |-> p.key, seq |-> p.seq]
  BY <1>10 DEF After
<1>12. Reached(suite, d) = [n |-> n, key |-> p.key, seq |-> p.seq]
  BY <1>1, <1>4, <1>5, <1>6, <1>9 DEF Reached
<1> QED
  BY <1>9, <1>11, <1>12

\* What one iteration over the bytes of a record, which ends at place n, may be.
Reading(c, o, n) ==
  LET p == Reached(srv.suite, c)
      q == Reached(srv.suite, o.ctx)
  IN \/ o.result = "no_memory"
     \/ /\ o.result = "incomplete" /\ ClientKnows(o.ctx)
        /\ o.ctx.state = c.state /\ o.ctx.suite = c.suite /\ o.ctx.writeSeq = c.writeSeq
        /\ q = After(srv.suite, p, n)
     \/ /\ o.result = "ok" /\ MovesOn(c, o.ctx)
        /\ o.rest = <<>> => q = After(srv.suite, p, n)
        /\ o.rest # <<>> => /\ o.rest \in Seq(Byte) /\ Runs(srv.suite, o.rest, q.n, q.key)
                            /\ q.n + Len(o.rest) = n
                            /\ After(srv.suite, q, n) = After(srv.suite, p, n)

\* The body of a message, of which g bytes have come before.
LEMMA BodyReads ==
  ASSUME IInv, ServerKnows, srv.suite # "none", NEW c, InUse(c), ClientKnows(c),
         c.state \in ReadStates, NEW m, m = Awaited(c.state),
         NEW g \in Nat, g <= BodyCb[m], NEW got, got = Taken(Body(m), g),
         NEW bytes \in Seq(Byte), NEW b, b = Before(srv.suite, m) + (HeaderCb + g),
         Runs(srv.suite, bytes, b, Reached(srv.suite, c).key),
         NEW o,
         \/ /\ Len(bytes) < BodyCb[m] - g
            /\ o = Outcome("incomplete", [c EXCEPT !.frag =
                     [type |-> m, need |-> BodyCb[m], got |-> got \o bytes]], <<>>)
         \/ /\ Len(bytes) >= BodyCb[m] - g
            /\ o \in Complete(c, m, got \o Taken(bytes, BodyCb[m] - g), Dropped(bytes, BodyCb[m] - g))
  PROVE  Reading(c, o, b + Len(bytes))
<1> DEFINE suite == srv.suite
           p == Reached(suite, c)
           missing == BodyCb[m] - g
<1>0. srv \in ServerState /\ Len(bytes) \in Nat
  BY DEF IInv, Typed
<1>1. suite \in Suite /\ SuiteFits(suite, c.state)
  BY <1>0, ReadFits
<1>2. m \in Said(suite)
  BY <1>1, NextPlace
<1>3. /\ m \in ServerMessage /\ HeaderCb \in Nat /\ HeaderCb >= 1 /\ BodyCb[m] \in Nat
      /\ Size(m) = HeaderCb + BodyCb[m] /\ Size(m) \in Nat
  BY <1>2, Sizes
<1>4. Before(suite, m) \in Nat /\ b \in Nat
  <2>1. Before(suite, m) \in Nat
    <3> HIDE DEF suite
    <3> QED
      BY <1>1, <1>2, OffsetsTyped
  <2> QED
    BY <1>3, <2>1
<1>5. ASSUME NEW i \in 1 .. Len(bytes), g + i <= BodyCb[m]
      PROVE  bytes[i] = <<m, HeaderCb + (g + i)>>
  <2> DEFINE k == HeaderCb + g
  <2>1. CASE g < BodyCb[m]
    <3>1. k \in Nat /\ k < Size(m) /\ b = Before(suite, m) + k
      BY <1>3, <2>1
    <3>2. Runs(suite, bytes, Before(suite, m) + k, p.key)
      BY <3>1
    <3> HIDE DEF k, suite, p
    <3>3. \A j \in 1 .. Len(bytes) : k + j <= Size(m) => bytes[j] = <<m, k + j>>
      BY <1>1, <1>2, <3>1, <3>2, RunInside
    <3>4. k + i <= Size(m) /\ k + i = HeaderCb + (g + i)
      BY <1>0, <1>3, <1>5 DEF k
    <3> QED
      BY <3>3, <3>4
  <2>2. CASE ~(g < BodyCb[m])
    BY <1>0, <1>3, <1>5, <2>2
  <2> QED
    BY <2>1, <2>2
<1>6. /\ g + Len(bytes) <= BodyCb[m] => got \o bytes = Taken(Body(m), g + Len(bytes))
      /\ g + Len(bytes) >= BodyCb[m] => got \o Taken(bytes, BodyCb[m] - g) = Body(m)
  <2>1. \A i \in 1 .. Len(bytes) : g + i <= BodyCb[m] => bytes[i] = <<m, HeaderCb + (g + i)>>
    BY <1>5
  <2>2. m \in ServerMessage
    BY <1>3
  <2> QED
    BY <2>1, <2>2, Pieces
<1>7. CASE /\ Len(bytes) < BodyCb[m] - g
           /\ o = Outcome("incomplete", [c EXCEPT !.frag =
                    [type |-> m, need |-> BodyCb[m], got |-> got \o bytes]], <<>>)
  <2> DEFINE k == g + Len(bytes)
  <2>1. k \in Nat /\ k < BodyCb[m] /\ b + Len(bytes) = Before(suite, m) + (HeaderCb + k)
    <3> DEFINE l == Len(bytes)
               s == BodyCb[m]
               f == Before(suite, m)
    <3>1. /\ l \in Nat /\ s \in Nat /\ f \in Nat /\ HeaderCb \in Nat
          /\ l < s - g /\ b = f + (HeaderCb + g)
      BY <1>0, <1>3, <1>4, <1>7
    <3> HIDE DEF l, s, f
    <3>2. g + l \in Nat /\ g + l < s /\ b + l = f + (HeaderCb + (g + l))
      BY <3>1
    <3> QED
      BY <3>2 DEF l, s, f
  <2>2. got \o bytes = Taken(Body(m), k)
    BY <1>0, <1>3, <1>6, <2>1
  <2> DEFINE all == got \o bytes
             d == [c EXCEPT !.frag = [type |-> m, need |-> BodyCb[m], got |-> all]]
  <2>3. o = Outcome("incomplete", d, <<>>)
    BY <1>7
  <2>4. all = Taken(Body(m), k)
    BY <2>2
  <2> HIDE DEF k, all
  <2>5. /\ ClientKnows(d) /\ d.state = c.state /\ d.suite = c.suite /\ d.writeSeq = c.writeSeq
        /\ Reached(srv.suite, d) =
             After(srv.suite, Reached(srv.suite, c), Before(srv.suite, m) + (HeaderCb + k))
    BY <2>1, <2>4, FragmentReads
  <2>6. o.result = "incomplete" /\ o.ctx = d
    BY <2>3 DEF Outcome
  <2> HIDE DEF d
  <2> QED
    BY <2>1, <2>5, <2>6 DEF Reading
<1>8. CASE /\ Len(bytes) >= BodyCb[m] - g
           /\ o \in Complete(c, m, got \o Taken(bytes, BodyCb[m] - g), Dropped(bytes, BodyCb[m] - g))
  <2> DEFINE rest == Dropped(bytes, missing)
             n == Before(suite, m) + Size(m)
  <2>1. missing \in Nat /\ missing <= Len(bytes) /\ b + missing = n /\ n \in Nat
    <3> DEFINE l == Len(bytes)
               s == BodyCb[m]
               f == Before(suite, m)
               z == Size(m)
    <3>1. /\ l \in Nat /\ s \in Nat /\ f \in Nat /\ HeaderCb \in Nat
          /\ g <= s /\ l >= s - g /\ b = f + (HeaderCb + g) /\ z = HeaderCb + s
      BY <1>0, <1>3, <1>4, <1>8
    <3> HIDE DEF l, s, f, z
    <3>2. s - g \in Nat /\ s - g <= l /\ b + (s - g) = f + z /\ f + z \in Nat
      BY <3>1
    <3> QED
      BY <3>2 DEF l, s, f, z
  <2>2. got \o Taken(bytes, BodyCb[m] - g) = Body(m)
    BY <1>0, <1>3, <1>6, <1>8
  <2>3. o \in Complete(c, m, Body(m), rest)
    BY <1>8, <2>2
  <2>4. rest \in Seq(Byte) /\ Len(rest) = Len(bytes) - missing
    <3> HIDE DEF missing
    <3> QED
      BY <2>1, CutTyped
  <2>5. Runs(suite, rest, n, p.key)
    <3> HIDE DEF missing, suite, p
    <3>1. Runs(suite, bytes, b, p.key)
      BY DEF suite, p
    <3>2. Runs(suite, rest, b + missing, p.key)
      BY <1>4, <2>1, <3>1, RunCut
    <3> QED
      BY <2>1, <3>2
  <2> HIDE DEF rest
  <2>5a. Finishes(c, m, rest, o)
    <3> DEFINE body == Body(m)
    <3>1. o \in Complete(c, m, body, rest) /\ body = Body(m)
      BY <2>3
    <3> HIDE DEF body
    <3> QED
      BY <3>1, CompleteReads
  <2>6. /\ o.result = "ok" /\ o.rest = rest /\ MovesOn(c, o.ctx)
        /\ Reached(srv.suite, o.ctx) =
             After(srv.suite, Reached(srv.suite, c), Before(srv.suite, m) + Size(m))
    BY <2>5a DEF Finishes
  <2> DEFINE q == Reached(suite, o.ctx)
  <2>7. q = After(suite, p, n)
    BY <2>6
  <2>8. ASSUME rest = <<>> PROVE n = b + Len(bytes)
    <3>1. Len(rest) = 0
      BY <2>8
    <3> QED
      BY <1>0, <1>4, <2>1, <2>4, <3>1
  <2>9. ASSUME rest # <<>>
        PROVE  /\ Runs(suite, rest, q.n, q.key) /\ q.n + Len(rest) = b + Len(bytes)
               /\ After(suite, q, b + Len(bytes)) = After(suite, p, b + Len(bytes))
    <3> HIDE DEF suite, p, q, n, missing
    <3>1. KeyAfter(suite, n, p.key) = p.key
      BY <1>1, <2>1, <2>4, <2>5, <2>9, KeyBetween
    <3>2. b + Len(bytes) \in Nat
      BY <1>0, <1>4
    <3>3. q = [n |-> n, key |-> p.key, seq |-> p.seq]
          /\ After(suite, q, b + Len(bytes)) = After(suite, p, b + Len(bytes))
      BY <2>1, <2>7, <3>1, <3>2, AfterBetween
    <3>4. q.n = n /\ q.key = p.key
      BY <3>3
    <3>5. n + Len(rest) = b + Len(bytes)
      BY <1>0, <1>4, <2>1, <2>4
    <3> QED
      BY <2>5, <3>3, <3>4, <3>5
  <2>10. Len(rest) \in Nat
    BY <2>4
  <2> HIDE DEF n
  <2> QED
    BY <2>4, <2>6, <2>7, <2>8, <2>9 DEF Reading
<1> QED
  BY <1>7, <1>8

\* The first bytes of a message are its header.
LEMMA HeaderReads ==
  ASSUME NEW m \in ServerMessage, NEW bytes \in Seq(Byte), HeaderCb <= Len(bytes),
         \A i \in 1 .. Len(bytes) : i <= Size(m) => bytes[i] = <<m, i>>
  PROVE  HeaderRead(Taken(bytes, HeaderCb)) = {[type |-> m, need |-> BodyCb[m]]}
<1> DEFINE t == Taken(bytes, HeaderCb)
           h == Header(m)
<1>1. HeaderCb \in Nat /\ Len(bytes) \in Nat /\ HeaderCb <= Size(m) /\ Size(m) \in Nat
  BY Sizes
<1>2. t \in Seq(Byte) /\ Len(t) = HeaderCb /\ \A i \in 1 .. HeaderCb : t[i] = bytes[i]
  BY <1>1 DEF Taken
<1>3. h \in Seq(Byte) /\ Len(h) = HeaderCb /\ \A i \in 1 .. HeaderCb : h[i] = <<m, i>>
  BY HeaderBody
<1> HIDE DEF t, h
<1>4. ASSUME NEW i \in 1 .. Len(t) PROVE t[i] = h[i]
  <2>1. i \in 1 .. HeaderCb /\ i \in 1 .. Len(bytes) /\ i <= Size(m)
    BY <1>1, <1>2, <1>4
  <2> QED
    BY <1>2, <1>3, <2>1
<1>5. t = h
  BY <1>2, <1>3, <1>4, SeqEqual
<1> QED
  BY <1>5, HeaderReadAs DEF t, h

\* One iteration over the bytes of a record.
LEMMA RecordReads ==
  ASSUME IInv, ServerKnows, srv.suite # "none", NEW c, InUse(c), FragmentFits(c), ClientKnows(c),
         NEW bytes \in Seq(Byte), bytes # <<>>,
         NEW p, p = Reached(srv.suite, c), Runs(srv.suite, bytes, p.n, p.key),
         NEW n, n = p.n + Len(bytes), Clean(srv.suite, n),
         NEW o \in ProcessFragment(c, bytes)
  PROVE  Reading(c, o, n)
<1> DEFINE suite == srv.suite
           m == Awaited(c.state)
<1>0. srv \in ServerState /\ Len(bytes) \in Nat /\ Len(bytes) > 0 /\ c \in Context
      /\ c.frag \in Fragment
  BY EmptySeq DEF IInv, Typed, InUse, Context
<1>1. c.state \in ReadStates
  BY RunState
<1>2. suite \in Suite /\ SuiteFits(suite, c.state)
  BY <1>0, <1>1, ReadFits
<1>3. m \in Said(suite)
  BY <1>2, NextPlace
<1>4. /\ m \in ServerMessage /\ HeaderCb \in Nat /\ HeaderCb >= 1 /\ BodyCb[m] \in Nat
      /\ Size(m) = HeaderCb + BodyCb[m] /\ Size(m) \in Nat /\ Size(m) >= 1
  BY <1>3, Sizes
<1>5. Before(suite, m) \in Nat
  <2> HIDE DEF suite, m
  <2> QED
    BY <1>2, <1>3, OffsetsTyped
<1>6. CASE c.frag = NoFragment
  <2>1. p.n = Before(suite, m)
    BY <1>5, <1>6 DEF Reached
  <2>2. \A i \in 1 .. Len(bytes) : i <= Size(m) => bytes[i] = <<m, i>>
    <3>1. 0 \in Nat /\ 0 < Size(m) /\ p.n = Before(suite, m) + 0
      BY <1>4, <1>5, <2>1
    <3>2. Runs(suite, bytes, Before(suite, m) + 0, p.key)
      BY <3>1
    <3> HIDE DEF suite, m
    <3>3. \A i \in 1 .. Len(bytes) : 0 + i <= Size(m) => bytes[i] = <<m, 0 + i>>
      BY <1>2, <1>3, <3>1, <3>2, RunInside
    <3>4. \A i \in 1 .. Len(bytes) : 0 + i = i
      BY <1>0
    <3> QED
      BY <3>3, <3>4
  <2>3. HeaderCb <= Len(bytes)
    <3>1. SUFFICES ASSUME Len(bytes) < HeaderCb PROVE FALSE
      BY <1>0, <1>4
    <3>2. Len(bytes) \in 1 .. HeaderCb
      BY <1>0, <1>4, <3>1
    <3>3. n # Before(suite, m) + Len(bytes)
      BY <1>3, <3>1, <3>2 DEF Clean
    <3> QED
      BY <2>1, <3>3
  <2> DEFINE rest == Dropped(bytes, HeaderCb)
             got == Taken(Body(m), 0)
  <2>4. rest \in Seq(Byte) /\ Len(rest) = Len(bytes) - HeaderCb
    BY <1>4, <2>3, CutTyped
  <2>5. Runs(suite, rest, p.n + HeaderCb, p.key)
    <3>1. p.n \in Nat
      BY <1>5, <2>1
    <3> HIDE DEF rest, suite
    <3>2. Runs(suite, bytes, p.n, p.key)
      BY DEF suite
    <3> QED
      BY <1>4, <2>3, <3>1, <3>2, RunCut DEF rest
  <2>6. got = <<>>
    <3>1. Body(m) \in Seq(Byte) /\ Len(Body(m)) = BodyCb[m]
      BY <1>4, HeaderBody
    <3> DEFINE body == Body(m)
    <3> HIDE DEF body
    <3>2. 0 \in Nat /\ 0 <= Len(body) /\ body \in Seq(Byte)
      BY <1>4, <3>1 DEF body
    <3>3. Taken(body, 0) \in Seq(Byte) /\ Len(Taken(body, 0)) = 0
      BY <3>2, CutTyped
    <3>4. Taken(body, 0) = <<>>
      BY <3>3, EmptySeq
    <3> QED
      BY <3>4 DEF body
  <2>7. o \in StartMessage(c, [type |-> m, need |-> BodyCb[m]], rest)
    <3>1. HeaderRead(Taken(bytes, HeaderCb)) = {[type |-> m, need |-> BodyCb[m]]}
      BY <1>4, <2>2, <2>3, HeaderReads
    <3>2. PICK h \in HeaderRead(Taken(bytes, HeaderCb)) : o \in StartMessage(c, h, rest)
      BY <1>0, <1>4, <1>6, <2>3 DEF ProcessFragment
    <3> QED
      BY <3>1, <3>2
  <2> HIDE DEF rest
  <2>8. \A t \in Seq(Byte) : got \o t = t
    BY <2>6
  <2>9. /\ Len(rest) < BodyCb[m] - 0 =>
             \/ o = Outcome("incomplete", [c EXCEPT !.frag =
                       [type |-> m, need |-> BodyCb[m], got |-> rest]], <<>>)
             \/ o = Outcome("no_memory", c, rest)
        /\ Len(rest) >= BodyCb[m] - 0 =>
             o \in Complete(c, m, Taken(rest, BodyCb[m]), Dropped(rest, BodyCb[m]))
    <3> DEFINE header == [type |-> m, need |-> BodyCb[m]]
    <3>1. header.type = m /\ header.need = BodyCb[m]
      OBVIOUS
    <3>2. o \in StartMessage(c, header, rest)
      BY <2>7
    <3> HIDE DEF header
    <3>3. Split(header.need, rest) <=> Len(rest) < BodyCb[m] - 0
      BY <1>0, <1>4, <2>4, <3>1 DEF Split
    <3>4. Len(rest) >= BodyCb[m] - 0 <=> ~(Len(rest) < BodyCb[m] - 0)
      BY <1>0, <1>4, <2>4
    <3> QED
      BY <3>1, <3>2, <3>3, <3>4, Zenon DEF StartMessage
  <2>10. BodyCb[m] - 0 = BodyCb[m]
    BY <1>4
  <2>11. CASE o = Outcome("no_memory", c, rest)
    BY <2>11 DEF Reading, Outcome
  <2>12. CASE o # Outcome("no_memory", c, rest)
    <3> DEFINE b == Before(suite, m) + (HeaderCb + 0)
               all == got \o rest
               body == got \o Taken(rest, BodyCb[m] - 0)
    <3>1. b = p.n + HeaderCb /\ b + Len(rest) = n
      BY <1>0, <1>4, <1>5, <2>1, <2>4
    <3>2. Runs(suite, rest, b, Reached(suite, c).key)
      BY <2>5, <3>1
    <3>3. all = rest
      BY <2>4, <2>8
    <3>4. Len(rest) >= BodyCb[m] - 0 => body = Taken(rest, BodyCb[m])
      <4>1. ASSUME Len(rest) >= BodyCb[m] - 0 PROVE Taken(rest, BodyCb[m]) \in Seq(Byte)
        <5>1. BodyCb[m] \in Nat /\ BodyCb[m] <= Len(rest)
          BY <1>4, <2>10, <2>4, <4>1
        <5> QED
          BY <2>4, <5>1, CutTyped
      <4> QED
        BY <2>8, <2>10, <4>1
    <3> HIDE DEF got, all, body
    <3>5. \/ /\ Len(rest) < BodyCb[m] - 0
             /\ o = Outcome("incomplete", [c EXCEPT !.frag =
                      [type |-> m, need |-> BodyCb[m], got |-> all]], <<>>)
          \/ /\ Len(rest) >= BodyCb[m] - 0
             /\ o \in Complete(c, m, body, Dropped(rest, BodyCb[m] - 0))
      <4>1. Len(rest) < BodyCb[m] - 0 \/ Len(rest) >= BodyCb[m] - 0
        BY <1>0, <1>4, <2>4
      <4> QED
        BY <2>9, <2>10, <2>12, <3>3, <3>4, <4>1
    <3>6. 0 \in Nat /\ 0 <= BodyCb[m] /\ got = Taken(Body(m), 0)
      BY <1>4 DEF got
    <3>7. Reading(c, o, b + Len(rest))
      BY <1>1, <2>4, <3>2, <3>5, <3>6, BodyReads DEF all, body
    <3> QED
      BY <3>1, <3>7
  <2> QED
    BY <2>11, <2>12
<1>7. CASE c.frag # NoFragment
  <2> DEFINE got == c.frag.got
             g == Len(got)
  <2>1. /\ c.frag.type = m /\ c.frag.need = BodyCb[m]
        /\ got = Taken(Body(m), g)
        /\ got \in Seq(Byte) /\ g \in Nat /\ g < BodyCb[m]
    BY <1>0, <1>7 DEF ClientKnows, FragmentKnown, FragmentFits, Fragment
  <2> DEFINE b == Before(suite, m) + (HeaderCb + g)
  <2>2. p.n = b
    BY <1>7 DEF Reached
  <2>3. o \in ContinueFragment(c, bytes)
    BY <1>7 DEF ProcessFragment
  <2>4. \/ /\ Len(bytes) < BodyCb[m] - g
           /\ o = Outcome("incomplete", [c EXCEPT !.frag =
                    [type |-> m, need |-> BodyCb[m], got |-> got \o bytes]], <<>>)
        \/ /\ Len(bytes) >= BodyCb[m] - g
           /\ o \in Complete(c, m, got \o Taken(bytes, BodyCb[m] - g), Dropped(bytes, BodyCb[m] - g))
    <3>1. CASE Split(c.frag.need - Len(c.frag.got), bytes)
      <4>1. o = Outcome("incomplete", [c EXCEPT !.frag.got = c.frag.got \o bytes], <<>>)
        BY <2>3, <3>1 DEF ContinueFragment
      <4>2. [c EXCEPT !.frag.got = c.frag.got \o bytes]
              = [c EXCEPT !.frag = [c.frag EXCEPT !.got = c.frag.got \o bytes]]
        BY <1>0 DEF Context
      <4> DEFINE all == got \o bytes
      <4>3. [c.frag EXCEPT !.got = all] = [type |-> m, need |-> BodyCb[m], got |-> all]
        <5> HIDE DEF all, m
        <5> QED
          BY <1>0, <2>1 DEF Fragment
      <4>4. Len(bytes) < BodyCb[m] - g
        BY <1>0, <1>4, <2>1, <3>1 DEF Split
      <4>5. o = Outcome("incomplete", [c EXCEPT !.frag = [type |-> m, need |-> BodyCb[m], got |-> all]], <<>>)
        BY <4>1, <4>2, <4>3
      <4> QED
        BY <4>4, <4>5
    <3>2. CASE ~Split(c.frag.need - Len(c.frag.got), bytes)
      <4>1. o \in Complete(c, c.frag.type, c.frag.got \o Taken(bytes, c.frag.need - Len(c.frag.got)),
                           Dropped(bytes, c.frag.need - Len(c.frag.got)))
        BY <2>3, <3>2 DEF ContinueFragment
      <4>2. Len(bytes) >= BodyCb[m] - g
        BY <1>0, <1>4, <2>1, <3>2 DEF Split
      <4> QED
        BY <2>1, <4>1, <4>2
    <3> QED
      BY <3>1, <3>2
  <2>5. Runs(suite, bytes, b, Reached(suite, c).key) /\ g <= BodyCb[m] /\ n = b + Len(bytes)
    BY <1>4, <2>1, <2>2
  <2> DEFINE l == Len(got)
  <2> HIDE DEF l
  <2>6. l \in Nat /\ l = g
    BY <2>1 DEF l
  <2> HIDE DEF b, m
  <2>7. Reading(c, o, b + Len(bytes))
    BY <1>1, <2>1, <2>4, <2>5, BodyReads DEF b, m
  <2> QED
    BY <2>5, <2>7
<1> QED
  BY <1>6, <1>7

-----------------------------------------------------------------------------
(* What is under way to the client *)

\* The message that comes after the handshake.
Later(suite) == IF suite = "tls13" THEN "new_session_ticket" ELSE "hello_request"

\* What is at place p and leads to place q.
Moves(suite, type, key, bytes, p, q) ==
  \/ /\ type = "handshake" /\ bytes # <<>> /\ key = p.key
     /\ Runs(suite, bytes, p.n, p.key)
     /\ q.n = p.n + Len(bytes) /\ Clean(suite, q.n)
     /\ q.key = KeyAfter(suite, q.n, p.key)
  \/ /\ \/ type = "handshake" /\ bytes = Bytes(Later(suite)) /\ p.n = Before(suite, "none")
        \/ type = "data" /\ bytes = <<>> /\ p.n = Before(suite, "none")
        \/ type = "close_notify" /\ bytes = <<>>
     /\ key = p.key /\ q.n = p.n /\ q.key = p.key
  \/ /\ type = "change_cipher_spec" /\ bytes = <<>> /\ q.n = p.n
     /\ \/ /\ suite # "tls13" /\ p.n = Before(suite, "finished")
           /\ p.key = Plain /\ q.key = SessionKey12("server")
        \/ /\ suite = "tls13" /\ p.n = Before(suite, "encrypted_extensions")
           /\ p.key = HsKey("server") /\ q.key = p.key

NextSeq(type, p, q) ==
  IF q.key # p.key THEN 0
  ELSE IF type = "change_cipher_spec" \/ p.key = Plain THEN p.seq ELSE p.seq + 1

RecordMoves(suite, r, p, q) ==
  /\ Moves(suite, r.type, r.key, r.body, p, q)
  /\ r.type # "change_cipher_spec" => r.seq = p.seq
  /\ q.seq = NextSeq(r.type, p, q)

RecordLinks(suite) ==
  {l \in Arriving \X Position \X Position : RecordMoves(suite, l[1], l[2], l[3])}
ItemLinks(suite) ==
  {l \in Item \X Place \X Place : Moves(suite, l[1].type, l[1].key, l[1].bytes, l[2], l[3])}

\* Where the server of s goes on, and where it has said all that it has to say.
WriterAt(s, p) ==
  /\ p.seq = IF p.key # Plain /\ p.key = s.writeKey THEN s.writeSeq ELSE 0
  /\ p.key = Plain => s.writeKey = Plain
PlaceOf(p) == [n |-> p.n, key |-> p.key]
EndPlace(s) ==
  IF s.suite = "tls13" \/ s.state = "open"
  THEN [n |-> Before(s.suite, "none"), key |-> DataKey(s.suite, "server")]
  ELSE [n |-> Before(s.suite, "finished"), key |-> Plain]

\* The records q lead from place a to where the server goes on with the rest.
Coming(s, a, q) ==
  \E p \in Position, e \in Place :
    /\ Chain(q, a, p, RecordLinks(s.suite)) /\ WriterAt(s, p)
    /\ Chain(s.unsent, PlaceOf(p), e, ItemLinks(s.suite))
    /\ s.state # "closed" => e = EndPlace(s)

\* Nothing is closed, and in TLS 1.2 no cipher changed, too early.
NotEarly(s, x) ==
  /\ x.type = "close_notify" => s.state = "closed"
  /\ x.type = "change_cipher_spec" /\ s.suite # "tls13" =>
       s.verify = Proof(SessionKey12("server"), Heard(s.suite, "TLS1_2_EXPECTING_FINISHED"))

\* The place after the rest of the record that the client reads.
AheadOf(suite, c, where, bytes) ==
  LET p == Reached(suite, c)
  IN IF where = "record" THEN After(suite, p, p.n + Len(bytes)) ELSE p

\* The rest of the record goes on where the client has come to.
RecordFits(suite, c, bytes) ==
  LET p == Reached(suite, c)
  IN /\ bytes # <<>> /\ Runs(suite, bytes, p.n, p.key)
     /\ Clean(suite, p.n + Len(bytes))

LEMMA RecordLink ==
  ASSUME NEW suite, NEW r, NEW p, NEW q
  PROVE  <<r, p, q>> \in RecordLinks(suite) <=>
           r \in Arriving /\ p \in Position /\ q \in Position /\ RecordMoves(suite, r, p, q)
<1> DEFINE l == <<r, p, q>>
<1>1. l[1] = r /\ l[2] = p /\ l[3] = q
  OBVIOUS
<1>2. l \in Arriving \X Position \X Position <=> r \in Arriving /\ p \in Position /\ q \in Position
  OBVIOUS
<1> HIDE DEF l
<1>3. l \in RecordLinks(suite) <=>
        l \in Arriving \X Position \X Position /\ RecordMoves(suite, l[1], l[2], l[3])
  BY DEF RecordLinks
<1>4. l \in RecordLinks(suite) <=>
        r \in Arriving /\ p \in Position /\ q \in Position /\ RecordMoves(suite, r, p, q)
  BY <1>1, <1>2, <1>3
<1> QED
  BY <1>4 DEF l

LEMMA ItemLink ==
  ASSUME NEW suite, NEW i, NEW p, NEW q
  PROVE  <<i, p, q>> \in ItemLinks(suite) <=>
           i \in Item /\ p \in Place /\ q \in Place /\ Moves(suite, i.type, i.key, i.bytes, p, q)
<1> DEFINE l == <<i, p, q>>
<1>1. l[1] = i /\ l[2] = p /\ l[3] = q
  OBVIOUS
<1>2. l \in Item \X Place \X Place <=> i \in Item /\ p \in Place /\ q \in Place
  OBVIOUS
<1> HIDE DEF l
<1>3. l \in ItemLinks(suite) <=>
        l \in Item \X Place \X Place /\ Moves(suite, l[1].type, l[1].key, l[1].bytes, l[2], l[3])
  BY DEF ItemLinks
<1>4. l \in ItemLinks(suite) <=>
        i \in Item /\ p \in Place /\ q \in Place /\ Moves(suite, i.type, i.key, i.bytes, p, q)
  BY <1>1, <1>2, <1>3
<1> QED
  BY <1>4 DEF l

\* The first record under way goes on from where the client has come to.
LEMMA ComingHead ==
  ASSUME NEW s, NEW a, NEW q \in Seq(Arriving), q # <<>>, Coming(s, a, q)
  PROVE  \E m \in Position : /\ a \in Position /\ Head(q) \in Arriving
                             /\ RecordMoves(s.suite, Head(q), a, m)
                             /\ Coming(s, m, Tail(q))
<1>1. PICK p \in Position, e \in Place :
        /\ Chain(q, a, p, RecordLinks(s.suite)) /\ WriterAt(s, p)
        /\ Chain(s.unsent, PlaceOf(p), e, ItemLinks(s.suite))
        /\ s.state # "closed" => e = EndPlace(s)
  BY DEF Coming
<1>2. PICK m : <<Head(q), a, m>> \in RecordLinks(s.suite) /\ Chain(Tail(q), m, p, RecordLinks(s.suite))
  BY <1>1, ChainHead
<1>3. /\ Head(q) \in Arriving /\ a \in Position /\ m \in Position
      /\ RecordMoves(s.suite, Head(q), a, m)
  BY <1>2, RecordLink
<1>4. Coming(s, m, Tail(q))
  BY <1>1, <1>2 DEF Coming
<1> QED
  BY <1>3, <1>4

\* Where a client that waits for a record can be.
LEMMA InputPlace ==
  ASSUME IInv, srv.suite # "none", NEW c, InUse(c), FragmentFits(c), ClientKnows(c),
         IsInputState(c), NEW p, p = Reached(srv.suite, c)
  PROVE  /\ p.n < Before(srv.suite, "none") /\ p.n \in Nat /\ Before(srv.suite, "none") \in Nat
         /\ p.key = (IF c.readOn THEN c.readKey ELSE Plain) /\ p.seq = c.readSeq
         /\ c.readOn => c.readKey # Plain
         /\ srv.suite # "tls13" /\ p.n = Before(srv.suite, "finished") /\ p.key = Plain =>
              c.state = "TLS1_2_EXPECTING_CHANGE_CIPHER_SPEC"
         /\ srv.suite = "tls13" /\ p.key = HsKey("server") => Is13(c)
<1> DEFINE suite == srv.suite
           m == Awaited(c.state)
<1>0. /\ srv \in ServerState /\ c \in Context /\ c.frag \in Fragment /\ StateFits(c) /\ KeysFit(c)
      /\ srv.suite \in Suite
  BY SuiteAssumption DEF IInv, Typed, InUse, Context, ServerState, Suite
<1>1. c.state \in ReadStates \/ c.state = "TLS1_2_EXPECTING_CHANGE_CIPHER_SPEC"
  BY DEF IsInputState, IsInputState12, IsInputState13, ReadStates
<1>2. p.key = (IF c.readOn THEN c.readKey ELSE Plain) /\ p.seq = c.readSeq
  BY <1>1 DEF Reached, SendsFinished13, ReadStates
<1>3. c.readOn => c.readKey # Plain
  BY <1>0, <1>1, KeysDiffer DEF ReadStates, ClientKnows, InTheClear, KeysFit, ConnectStates13, Side
<1>4. Before(suite, "none") \in Nat /\ Before(suite, "finished") \in Nat
      /\ "finished" \in Said(suite)
  <2> HIDE DEF suite
  <2>1. "finished" \in Said(suite)
    BY FinishedSaid
  <2> QED
    BY <1>0, <2>1, OffsetsTyped DEF suite
<1>5. suite = "tls13" /\ p.key = HsKey("server") => Is13(c)
  <2>1. SUFFICES ASSUME suite = "tls13", p.key = HsKey("server") PROVE c.suite = "tls13"
    BY DEF Is13
  <2>2. c.readOn
    BY <1>2, <2>1, KeysDiffer
  <2>3. c.state \notin InTheClear
    BY <2>2 DEF ClientKnows
  <2>4. c.suite # "none"
    BY <1>0, <1>1, <2>3 DEF StateFits, InTheClear, ReadStates
  <2> QED
    BY <1>0, <2>1, <2>4 DEF StateFits
<1>6. CASE c.state \in ReadStates
  <2>1. SuiteFits(suite, c.state)
    BY <1>0, <1>6, ReadFits
  <2>2. m \in Said(suite)
    BY <1>0, <2>1, NextPlace
  <2>3. /\ m \in ServerMessage /\ HeaderCb \in Nat /\ HeaderCb >= 1 /\ BodyCb[m] \in Nat
        /\ Size(m) = HeaderCb + BodyCb[m] /\ Size(m) \in Nat
        /\ 1 \in 1 .. Size("finished")
    BY <2>2, Sizes DEF ServerMessage
  <2>4. Before(suite, m) \in Nat
    <3> HIDE DEF suite, m
    <3> QED
      BY <1>0, <2>2, OffsetsTyped DEF suite
  <2> DEFINE g == IF c.frag = NoFragment THEN 0 ELSE HeaderCb + Len(c.frag.got)
  <2>5. g \in Nat /\ g < Size(m) /\ p.n = Before(suite, m) + g
    <3>1. CASE c.frag = NoFragment
      BY <2>3, <2>4, <3>1 DEF Reached
    <3>2. CASE c.frag # NoFragment
      <4>1. Len(c.frag.got) \in Nat /\ Len(c.frag.got) < BodyCb[m]
        BY <1>0, <3>2 DEF ClientKnows, FragmentKnown, FragmentFits, Fragment
      <4> QED
        BY <2>3, <2>4, <3>2, <4>1 DEF Reached
    <3> QED
      BY <3>1, <3>2
  <2> HIDE DEF g
  <2>6. g + 1 \in 1 .. Size(m) /\ Before(suite, m) + (g + 1) = p.n + 1
    BY <2>3, <2>4, <2>5
  <2>7. /\ p.n + 1 <= Before(suite, "none")
        /\ p.n + 1 = Before(suite, "finished") + 1 => m = "finished"
    <3> HIDE DEF suite, m
    <3>1. /\ Before(suite, m) + (g + 1) <= Before(suite, "none")
          /\ Before(suite, m) + (g + 1) = Before(suite, "finished") + 1 => m = "finished"
      BY <1>0, <1>4, <2>2, <2>3, <2>6, OnePlace DEF suite
    <3> QED
      BY <2>6, <3>1
  <2>8. suite # "tls13" /\ p.n = Before(suite, "finished") /\ p.key = Plain => FALSE
    <3>1. SUFFICES ASSUME suite # "tls13", p.n = Before(suite, "finished"), p.key = Plain
                   PROVE FALSE
      OBVIOUS
    <3>2. Awaited(c.state) = "finished"
      BY <2>7, <3>1
    <3>3. c.state = "TLS1_2_EXPECTING_FINISHED"
      BY <1>6, <2>1, <3>1, <3>2, Waits DEF ReadStates, SuiteFits, ConnectStates13
    <3>4. c.readOn
      BY <1>0, <3>3 DEF KeysFit
    <3> QED
      BY <1>2, <1>3, <3>1, <3>4
  <2> QED
    BY <1>2, <1>3, <1>4, <1>5, <2>5, <2>4, <2>7, <2>8
<1>7. CASE c.state = "TLS1_2_EXPECTING_CHANGE_CIPHER_SPEC"
  <2>1. c.frag = NoFragment /\ m = "finished"
    BY <1>7, Waits DEF ClientKnows, FragmentKnown, ReadStates
  <2>2. p.n = Before(suite, "finished")
    BY <1>4, <2>1 DEF Reached
  <2>3. Before(suite, "finished") + 1 <= Before(suite, "none")
    <3>1. 1 \in 1 .. Size("finished")
      BY Sizes DEF ServerMessage
    <3> HIDE DEF suite, m
    <3> QED
      BY <1>0, <1>4, <3>1, OnePlace DEF suite
  <2> QED
    BY <1>2, <1>3, <1>4, <1>5, <1>7, <2>2, <2>3
<1> QED
  BY <1>1, <1>6, <1>7

-----------------------------------------------------------------------------
(* What is under way to the server, and the invariant of both directions *)

ClientBody ==
  {<<>>, <<"client_hello">>, <<"client_key_exchange">>}
  \cup {<<"finished", Proof(key, over)>> : key \in KeySet, over \in Seq(Message)}
Asked == [type : RecordType, key : KeySet, seq : Nat, body : ClientBody]
Turn == [state : {"expecting_key_exchange", "expecting_ccs", "expecting_finished", "open", "closed"},
         seq : Nat]

ClientKey(suite) == IF suite = "tls13" THEN HsKey("client") ELSE SessionKey12("client")
ClientProof(suite) ==
  Proof(ClientKey(suite),
        IF suite = "tls13" THEN Heard13 ELSE Append(Flight12(suite), "client_key_exchange"))

\* What takes the server from waiting for p to waiting for q.
Asks(suite, r, p, q) ==
  \/ /\ r = Record("handshake", Plain, 0, <<"client_key_exchange">>)
     /\ p.state = "expecting_key_exchange" /\ p.seq = 0
     /\ q.state = "expecting_ccs" /\ q.seq = 0
  \/ /\ r = Record("change_cipher_spec", Plain, 0, <<>>)
     /\ p.state = (IF suite = "tls13" THEN "expecting_finished" ELSE "expecting_ccs") /\ p.seq = 0
     /\ q.state = "expecting_finished" /\ q.seq = 0
  \/ /\ r = Record("handshake", ClientKey(suite), 0, <<"finished", ClientProof(suite)>>)
     /\ p.state = "expecting_finished" /\ p.seq = 0
     /\ q.state = "open" /\ q.seq = IF suite = "tls13" THEN 0 ELSE 1
  \/ /\ r.key = DataKey(suite, "client") /\ r.seq = p.seq /\ r.body = <<>>
     /\ p.state = "open"
     /\ \/ r.type = "data" /\ q.state = "open" /\ q.seq = p.seq + 1
        \/ r.type = "close_notify" /\ q.state = "closed" /\ q.seq = 0

AskLinks(suite) == {l \in Asked \X Turn \X Turn : Asks(suite, l[1], l[2], l[3])}

IsFinished(r) == Len(r.body) = 2

\* A client that will still write, and one that will still read.
Sends(c, result) == result \notin Failures /\ c.state # "CONNECTION_CLOSED"
Reads(c, result) ==
  result \notin Failures /\ c.state \notin {"SENDING_CLOSE_NOTIFY", "CONNECTION_CLOSED"}

AwaitedTurn(s) == [state |-> s.state, seq |-> s.readSeq]
NextTurn(suite, c) == [state |-> Writes(suite, c.state), seq |-> c.writeSeq]

Outgoing(s, c, result, q) ==
  /\ q \in Seq(Asked)
  /\ c.state = "SENDING_CLIENT_HELLO" => s.state = "expecting_hello" /\ q = <<>>
  /\ s.state = "expecting_hello" => Len(q) <= 1 /\ (Sends(c, result) => c.writeSeq = 0)
  /\ s.state \notin {"expecting_hello", "closed"} =>
       \E e \in Turn : /\ Chain(q, AwaitedTurn(s), e, AskLinks(s.suite))
                       /\ Sends(c, result) => e = NextTurn(s.suite, c)
  /\ Sends(c, result) /\ s.suite # "tls13" /\ Writes(s.suite, c.state) # "open" =>
       \A i \in 1 .. Len(q) : ~IsFinished(q[i])

PayloadFits(suite, c, where, bytes) ==
  /\ where = "record" => RecordFits(suite, c, bytes)
  /\ where = "post" => bytes = Bytes(Later(suite))

\* The invariant, for one value of what the client's steps change.
FlowsFor(c, where, bytes, result, out, in) ==
  /\ where \in {"input", "record", "post"} => result \notin Failures
  /\ result \in {"illegal", "incomplete"} => srv.state = "closed"
  /\ c.state = "SENDING_CLIENT_HELLO" => c = NewContext /\ result = "none"
  /\ Sends(c, result) => ClientKnows(c)
  /\ Reads(c, result) => PayloadFits(srv.suite, c, where, bytes)
  /\ Reads(c, result) /\ srv.suite = "none" => c.frag = NoFragment
  /\ \A i \in 1 .. Len(in) : NotEarly(srv, in[i])
  /\ Reads(c, result) /\ srv.suite # "none" =>
       Coming(srv, AheadOf(srv.suite, c, where, bytes), in)
  /\ Outgoing(srv, c, result, out)

Fresh(s) == s.suite = "none" => s.writeKey = Plain /\ s.readKey = Plain
UnsentOnTime(s) ==
  \A i \in 1 .. Len(s.unsent) :
    /\ NotEarly(s, s.unsent[i])
    /\ s.unsent[i].type = "change_cipher_spec" => i + 1 = Len(s.unsent)

Flows ==
  /\ FlowsFor(ctx, call, payload, status, toServer, toClient)
  /\ Fresh(srv) /\ ServerKnows /\ UnsentOnTime(srv)

LEMMA AskLink ==
  ASSUME NEW suite, NEW r, NEW p, NEW q
  PROVE  <<r, p, q>> \in AskLinks(suite) <=>
           r \in Asked /\ p \in Turn /\ q \in Turn /\ Asks(suite, r, p, q)
<1> DEFINE l == <<r, p, q>>
<1>1. l[1] = r /\ l[2] = p /\ l[3] = q
  OBVIOUS
<1>2. l \in Asked \X Turn \X Turn <=> r \in Asked /\ p \in Turn /\ q \in Turn
  OBVIOUS
<1> HIDE DEF l
<1>3. l \in AskLinks(suite) <=>
        l \in Asked \X Turn \X Turn /\ Asks(suite, l[1], l[2], l[3])
  BY DEF AskLinks
<1>4. l \in AskLinks(suite) <=> r \in Asked /\ p \in Turn /\ q \in Turn /\ Asks(suite, r, p, q)
  BY <1>1, <1>2, <1>3
<1> QED
  BY <1>4 DEF l

LEMMA ReadsSends ==
  \A c, result : Reads(c, result) => Sends(c, result)
BY DEF Reads, Sends

\* A step of the client leaves the server alone.
LEMMA ClientStepFlows ==
  ASSUME Flows, UNCHANGED srv,
         FlowsFor(ctx', call', payload', status', toServer', toClient')
  PROVE  Flows'
<1>1. ClientKnows(ctx') => ClientKnows(ctx)'
  BY DEF ClientKnows, FragmentKnown, Full12
<1>2. Coming(srv, AheadOf(srv.suite, ctx', call', payload'), toClient') =>
        Coming(srv, AheadOf(srv.suite, ctx, call, payload), toClient)'
  OBVIOUS
<1>3. FlowsFor(ctx, call, payload, status, toServer, toClient)'
  BY <1>1, <1>2 DEF FlowsFor
<1>4. ServerKnows'
  BY DEF Flows, ServerKnows, ServerKnows12, ServerKnows13, Full12
<1>5. Fresh(srv)' /\ UnsentOnTime(srv)'
  BY DEF Flows
<1> QED
  BY <1>3, <1>4, <1>5 DEF Flows

\* What the first record under way is followed by was not too early either.
LEMMA OnTimeTail ==
  ASSUME NEW s, NEW q \in Seq(Arriving), q # <<>>, \A i \in 1 .. Len(q) : NotEarly(s, q[i])
  PROVE  NotEarly(s, Head(q)) /\ \A i \in 1 .. Len(Tail(q)) : NotEarly(s, Tail(q)[i])
<1>1. /\ Len(q) \in Nat /\ Len(q) > 0 /\ Head(q) = q[1] /\ Len(Tail(q)) = Len(q) - 1
      /\ \A i \in 1 .. Len(q) - 1 : Tail(q)[i] = q[i + 1]
  BY EmptySeq
<1>2. ASSUME NEW i \in 1 .. Len(Tail(q)) PROVE NotEarly(s, Tail(q)[i])
  <2>1. i \in 1 .. Len(q) - 1 /\ i + 1 \in 1 .. Len(q)
    BY <1>1
  <2> QED
    BY <1>1, <2>1
<1>3. 1 \in 1 .. Len(q)
  BY <1>1
<1> QED
  BY <1>1, <1>2, <1>3

\* What is on its way to the server stays right when the client sends nothing.
LEMMA OutgoingSame ==
  ASSUME NEW s, NEW c, NEW result, NEW q, Outgoing(s, c, result, q),
         NEW d, NEW new, d.state # "SENDING_CLIENT_HELLO",
         Sends(d, new) => /\ Sends(c, result) /\ Writes(s.suite, d.state) = Writes(s.suite, c.state)
                          /\ d.writeSeq = c.writeSeq
  PROVE  Outgoing(s, d, new, q)
<1>1. Sends(d, new) => Sends(c, result) /\ NextTurn(s.suite, d) = NextTurn(s.suite, c)
                       /\ d.writeSeq = c.writeSeq /\ Writes(s.suite, d.state) = Writes(s.suite, c.state)
  BY DEF NextTurn
<1> QED
  BY <1>1 DEF Outgoing

\* A client that neither reads nor sends any more.
LEMMA Dead ==
  ASSUME Flows, NEW c, NEW where, NEW bytes, NEW result, NEW in,
         ~Sends(c, result), c.state # "SENDING_CLIENT_HELLO",
         where \in {"input", "record", "post"} => result \notin Failures,
         result \in {"illegal", "incomplete"} => srv.state = "closed",
         \A i \in 1 .. Len(in) : NotEarly(srv, in[i])
  PROVE  FlowsFor(c, where, bytes, result, toServer, in)
<1>1. ~Reads(c, result)
  BY ReadsSends
<1>2. Outgoing(srv, c, result, toServer)
  <2>1. Outgoing(srv, ctx, status, toServer)
    BY DEF Flows, FlowsFor
  <2> QED
    BY <2>1, OutgoingSame
<1> QED
  BY <1>1, <1>2 DEF FlowsFor

-----------------------------------------------------------------------------
(* What the steps of the client make of what is under way *)

\* A call that begins or ends and leaves the context alone.
LEMMA SameContext ==
  ASSUME Flows, call # "record", NEW where \in {"idle", "input"}, NEW bytes, NEW result,
         result \notin Failures, status \notin Failures, ctx.state # "SENDING_CLIENT_HELLO"
  PROVE  FlowsFor(ctx, where, bytes, result, toServer, toClient)
<1>1. (Sends(ctx, result) <=> Sends(ctx, status)) /\ (Reads(ctx, result) <=> Reads(ctx, status))
  BY DEF Sends, Reads
<1>2. Outgoing(srv, ctx, result, toServer)
  <2>1. Outgoing(srv, ctx, status, toServer)
    BY DEF Flows, FlowsFor
  <2> QED
    BY <1>1, <2>1, OutgoingSame
<1>3. AheadOf(srv.suite, ctx, where, bytes) = AheadOf(srv.suite, ctx, call, payload)
  BY DEF AheadOf
<1>4. result \notin {"illegal", "incomplete"}
  BY DEF Failures
<1> QED
  BY <1>1, <1>2, <1>3, <1>4 DEF Flows, FlowsFor, PayloadFits

LEMMA DeleteFlows ==
  ASSUME Flows, Delete, UNCHANGED <<srv, toServer, toClient>>,
         status' \in {"illegal", "incomplete"} => srv.state = "closed"
  PROVE  Flows'
<1>1. ctx'.state = "CONNECTION_CLOSED" /\ call' = "deleted"
  BY DEF Delete, NewContext
<1>2. ~Sends(ctx', status')
  BY <1>1 DEF Sends
<1>3. \A i \in 1 .. Len(toClient') : NotEarly(srv, toClient'[i])
  BY DEF Flows, FlowsFor
<1>4. FlowsFor(ctx', call', payload', status', toServer', toClient')
  BY <1>1, <1>2, <1>3, Dead
<1> QED
  BY <1>4, ClientStepFlows

LEMMA WriteClientHelloFlows ==
  ASSUME IInv, Flows, WriteClientHello
  PROVE  Flows'
<1>1. CASE Delete /\ status' = "no_memory" /\ UNCHANGED toServer
  BY <1>1, DeleteFlows DEF WriteClientHello
<1>2. CASE /\ ctx' = [ctx EXCEPT !.savedHello = TRUE, !.state = "EXPECTING_SERVER_HELLO"]
           /\ toServer' = Append(toServer, Record("handshake", Plain, 0, <<"client_hello">>))
           /\ Return("continue")
  <2>1. /\ ctx.state = "SENDING_CLIENT_HELLO" /\ ctx = NewContext
        /\ srv.state = "expecting_hello" /\ toServer = <<>> /\ UNCHANGED <<srv, toClient>>
        /\ srv.suite = "none" /\ toClient = <<>> /\ srv \in ServerState
    BY DEF WriteClientHello, IInv, Typed, CallFits, Flows, FlowsFor, Outgoing, ServerFits
  <2> DEFINE t == TRUE
  <2>2. ctx' = [ctx EXCEPT !.savedHello = t, !.state = "EXPECTING_SERVER_HELLO"]
    BY <1>2
  <2>3. t
    OBVIOUS
  <2>n. /\ NewContext = [ state |-> "SENDING_CLIENT_HELLO", suite |-> "none", savedHello |-> ~t,
             transcript |-> <<>>, secrets |-> <<Plain, Plain>>, readKey |-> Plain,
             writeKey |-> Plain, readOn |-> ~t, writeOn |-> ~t, readSeq |-> 0, writeSeq |-> 0,
             frag |-> NoFragment ]
    BY DEF NewContext
  <2> HIDE DEF t
  <2>4. /\ ctx'.savedHello = t /\ ctx'.state = "EXPECTING_SERVER_HELLO" /\ ctx'.suite = "none"
        /\ ctx'.transcript = <<>> /\ ctx'.readOn = ~t /\ ctx'.writeOn = ~t
        /\ ctx'.writeSeq = 0 /\ ctx'.frag = NoFragment
    BY <2>1, <2>2, <2>n
  <2>5. ClientKnows(ctx')
    <3>1. Heard("none", "EXPECTING_SERVER_HELLO") = <<>>
      BY HeardNext
    <3>2. ctx'.transcript = Heard(ctx'.suite, ctx'.state)
      BY <2>4, <3>1
    <3> QED
      BY <2>3, <2>4, <3>2 DEF ClientKnows, FragmentKnown, ConnectStates12, ConnectStates13
  <2> DEFINE r == Record("handshake", Plain, 0, <<"client_hello">>)
  <2>6. r \in Asked /\ ~IsFinished(r)
    <3>1. r.body = <<"client_hello">> /\ Len(<<"client_hello">>) = 1
      BY DEF Record
    <3> QED
      BY <3>1, KeysTyped DEF Asked, ClientBody, Record, RecordType, IsFinished
  <2>7. /\ toServer' \in Seq(Asked) /\ Len(toServer') = 1 /\ toServer'[1] = r
    <3> HIDE DEF r
    <3>1. toServer \in Seq(Asked) /\ Len(toServer) = 0
      BY <2>1
    <3> QED
      BY <1>2, <2>6, <3>1 DEF r
  <2>8. Outgoing(srv, ctx', status', toServer')
    <3> HIDE DEF r
    <3>1. \A i \in 1 .. Len(toServer') : ~IsFinished(toServer'[i])
      BY <2>6, <2>7
    <3> QED
      BY <2>1, <2>4, <2>7, <3>1 DEF Outgoing
  <2>9. call' = "idle" /\ status' = "continue" /\ payload' = <<>>
    BY <1>2 DEF Return
  <2>10. \A i \in 1 .. Len(toClient') : NotEarly(srv, toClient'[i])
    BY <2>1 DEF Flows, FlowsFor
  <2>11. FlowsFor(ctx', call', payload', status', toServer', toClient')
    BY <2>1, <2>4, <2>5, <2>8, <2>9, <2>10 DEF FlowsFor, PayloadFits
  <2> QED
    BY <2>1, <2>11, ClientStepFlows
<1> QED
  BY <1>1, <1>2 DEF WriteClientHello

LEMMA BeginConnectFlows ==
  ASSUME IInv, Flows, BeginConnect
  PROVE  Flows'
<1>1. /\ UNCHANGED <<ctx, payload, status, srv, toServer, toClient>>
      /\ call = "idle" /\ call' = "input" /\ status \notin Failures
  BY DEF BeginConnect, Usable
<1>2. ctx.state # "SENDING_CLIENT_HELLO"
  BY <1>1 DEF IInv, CallFits
<1>3. FlowsFor(ctx, "input", payload, status, toServer, toClient)
  BY <1>1, <1>2, SameContext
<1>4. FlowsFor(ctx', call', payload', status', toServer', toClient')
  BY <1>1, <1>3
<1> QED
  BY <1>1, <1>4, ClientStepFlows

LEMMA EndConnectFlows ==
  ASSUME IInv, Flows, EndConnect
  PROVE  Flows'
<1>1. /\ UNCHANGED <<ctx, srv, toServer, toClient>> /\ call = "input" /\ call' = "idle"
      /\ status' \in {"continue", "ok"} /\ status' \notin Failures
  BY DEF EndConnect, Return, Failures
<1>2. ctx.state # "SENDING_CLIENT_HELLO" /\ status \notin Failures
  BY <1>1 DEF IInv, CallFits, Flows, FlowsFor
<1>3. FlowsFor(ctx, "idle", payload', status', toServer, toClient)
  BY <1>1, <1>2, SameContext
<1>4. FlowsFor(ctx', call', payload', status', toServer', toClient')
  BY <1>1, <1>3
<1> QED
  BY <1>1, <1>4, ClientStepFlows

LEMMA DeleteSecurityContextFlows ==
  ASSUME IInv, Flows, DeleteSecurityContext
  PROVE  Flows'
<1>1. Delete /\ UNCHANGED <<status, srv, toServer, toClient>>
  BY DEF DeleteSecurityContext
<1>2. status' \in {"illegal", "incomplete"} => srv.state = "closed"
  BY <1>1 DEF Flows, FlowsFor
<1> QED
  BY <1>1, <1>2, DeleteFlows

LEMMA ApplyControlTokenFlows ==
  ASSUME IInv, Flows, ApplyControlToken
  PROVE  Flows'
<1>1. /\ call = "idle" /\ status \notin Failures /\ ctx.state = "HANDSHAKE_COMPLETE"
      /\ ctx' = [ctx EXCEPT !.state = "SENDING_CLOSE_NOTIFY"]
      /\ UNCHANGED <<call, avail, payload, status, srv, toServer, toClient>>
  BY DEF ApplyControlToken, Usable
<1>2. /\ ctx'.state = "SENDING_CLOSE_NOTIFY" /\ ctx'.suite = ctx.suite
      /\ ctx'.writeOn = ctx.writeOn /\ ctx'.writeKey = ctx.writeKey
      /\ ctx'.writeSeq = ctx.writeSeq /\ ctx'.frag = ctx.frag
  BY <1>1 DEF IInv, Typed, Context
<1>3. Sends(ctx, status) /\ ~Reads(ctx', status) /\ ClientKnows(ctx)
  BY <1>1, <1>2 DEF Sends, Reads, Flows, FlowsFor
<1>4. ctx.frag = NoFragment
  BY <1>1, <1>3 DEF ClientKnows, FragmentKnown, ReadStates
<1>5. ClientKnows(ctx')
  BY <1>1, <1>2, <1>3, <1>4 DEF ClientKnows, FragmentKnown, ConnectStates12, ConnectStates13, InTheClear
<1>6. Outgoing(srv, ctx', status, toServer)
  <2>1. Outgoing(srv, ctx, status, toServer)
    BY DEF Flows, FlowsFor
  <2>2. Writes(srv.suite, ctx'.state) = Writes(srv.suite, ctx.state)
    BY <1>1, <1>2 DEF Writes
  <2>3. ctx'.state # "SENDING_CLIENT_HELLO"
    BY <1>2
  <2> QED
    BY <1>2, <1>3, <2>1, <2>2, <2>3, OutgoingSame
<1>7. FlowsFor(ctx', call, payload, status, toServer, toClient)
  BY <1>1, <1>2, <1>3, <1>5, <1>6 DEF Flows, FlowsFor
<1>8. FlowsFor(ctx', call', payload', status', toServer', toClient')
  BY <1>1, <1>7
<1> QED
  BY <1>1, <1>8, ClientStepFlows

\* The client sends one more record, which takes the server from the turn the
\* client is at to its next one.
LEMMA OutgoingMore ==
  ASSUME NEW s, NEW c, NEW result, NEW q, Outgoing(s, c, result, q), Sends(c, result),
         s.state # "expecting_hello", NEW d, NEW new, d.state # "SENDING_CLIENT_HELLO",
         NEW r \in Asked, NEW e \in Turn, NextTurn(s.suite, c) \in Turn,
         Asks(s.suite, r, NextTurn(s.suite, c), e),
         Sends(d, new) => e = NextTurn(s.suite, d),
         Sends(d, new) /\ s.suite # "tls13" /\ Writes(s.suite, d.state) # "open" =>
           Writes(s.suite, c.state) # "open" /\ ~IsFinished(r),
         NEW u, u = Append(q, r)
  PROVE  Outgoing(s, d, new, u)
<1>1. /\ q \in Seq(Asked)
      /\ s.state \notin {"expecting_hello", "closed"} =>
           \E x \in Turn : Chain(q, AwaitedTurn(s), x, AskLinks(s.suite)) /\ x = NextTurn(s.suite, c)
      /\ s.suite # "tls13" /\ Writes(s.suite, c.state) # "open" =>
           \A i \in 1 .. Len(q) : ~IsFinished(q[i])
  BY DEF Outgoing
<1>2. /\ u \in Seq(Asked) /\ Len(q) \in Nat /\ Len(u) = Len(q) + 1 /\ u[Len(u)] = r
      /\ \A i \in 1 .. Len(q) : u[i] = q[i]
  BY <1>1
<1>3. <<r, NextTurn(s.suite, c), e>> \in AskLinks(s.suite)
  BY AskLink
<1>4. s.state \notin {"expecting_hello", "closed"} =>
        Chain(u, AwaitedTurn(s), e, AskLinks(s.suite))
  BY <1>1, <1>3, ChainAppend
<1>5. ASSUME Sends(d, new), s.suite # "tls13", Writes(s.suite, d.state) # "open",
             NEW i \in 1 .. Len(u)
      PROVE  ~IsFinished(u[i])
  <2>1. (\A k \in 1 .. Len(q) : ~IsFinished(q[k])) /\ ~IsFinished(r)
    BY <1>1, <1>5
  <2>2. i \in 1 .. Len(q) \/ i = Len(u)
    BY <1>2
  <2> QED
    BY <1>2, <2>1, <2>2
<1> QED
  BY <1>2, <1>4, <1>5 DEF Outgoing

\* What a record of the client is sealed with.
IsSealed(c, type, body, r) ==
  /\ r.type = type /\ r.body = body /\ r.seq = c.writeSeq
  /\ r.key = IF c.writeOn THEN c.writeKey ELSE Plain
  /\ r = Record(type, r.key, r.seq, body)
  /\ type \in RecordType /\ body \in ClientBody => r \in Asked

LEMMA SealedAs ==
  ASSUME NEW c \in Context, ~c.writeOn => c.writeSeq = 0, NEW type, NEW body,
         NEW r, r = Sealed(c, type, body)
  PROVE  IsSealed(c, type, body, r)
<1>1. r = Record(type, IF c.writeOn THEN c.writeKey ELSE Plain, c.writeSeq, body)
  BY DEF Sealed
<1>2. c.writeKey \in KeySet /\ c.writeSeq \in Nat /\ Plain \in KeySet
  BY KeysTyped DEF Context
<1> QED
  BY <1>1, <1>2 DEF Record, Asked, IsSealed

\* Nothing but the number of records sent.
Written(c, d) ==
  /\ d \in Context /\ d.state = c.state /\ d.suite = c.suite /\ d.transcript = c.transcript
  /\ d.savedHello = c.savedHello /\ d.secrets = c.secrets
  /\ d.readKey = c.readKey /\ d.writeKey = c.writeKey
  /\ d.readOn = c.readOn /\ d.writeOn = c.writeOn
  /\ d.readSeq = c.readSeq /\ d.frag = c.frag
  /\ d.writeSeq = IF c.writeOn THEN c.writeSeq + 1 ELSE c.writeSeq

LEMMA AfterWriteAs ==
  ASSUME NEW c \in Context
  PROVE  Written(c, AfterWrite(c))
<1> DEFINE d == AfterWrite(c)
<1>1. CASE ~c.writeOn
  BY <1>1 DEF AfterWrite, Written
<1>2. CASE c.writeOn
  <2> DEFINE n == c.writeSeq + 1
  <2>1. d = [c EXCEPT !.writeSeq = n]
    BY <1>2 DEF AfterWrite, Context
  <2>2. n \in Nat
    BY DEF Context
  <2> HIDE DEF n, d
  <2>3. /\ d \in Context /\ d.state = c.state /\ d.suite = c.suite /\ d.transcript = c.transcript
        /\ d.savedHello = c.savedHello /\ d.secrets = c.secrets
        /\ d.readKey = c.readKey /\ d.writeKey = c.writeKey
        /\ d.readOn = c.readOn /\ d.writeOn = c.writeOn
        /\ d.readSeq = c.readSeq /\ d.frag = c.frag /\ d.writeSeq = n
    BY <2>1, <2>2 DEF Context
  <2> QED
    BY <1>2, <2>3 DEF n, d, Written
<1> QED
  BY <1>1, <1>2

\* What is known of the client does not depend on how many records it has sent
\* when its handshake is over.
LEMMA CompleteKnows ==
  ASSUME NEW c \in Context, ClientKnows(c), c.state \in {"HANDSHAKE_COMPLETE", "SENDING_CLOSE_NOTIFY"},
         NEW d, d.state = c.state, d.suite = c.suite, d.readKey = c.readKey, d.writeKey = c.writeKey,
         d.writeOn = c.writeOn, d.frag = c.frag
  PROVE  ClientKnows(d) /\ c.frag = NoFragment /\ d.frag = NoFragment
<1>1. c.frag = NoFragment
  BY DEF ClientKnows, FragmentKnown, ReadStates
<1> QED
  BY <1>1 DEF ClientKnows, FragmentKnown, ConnectStates12, ConnectStates13, InTheClear

\* Once the handshake is over for the client, it sends with the key and the
\* number that the server waits for.
LEMMA SealedData ==
  ASSUME IInv, Flows, Sends(ctx, status), ctx.state \in {"HANDSHAKE_COMPLETE", "SENDING_CLOSE_NOTIFY"},
         NEW type \in {"data", "close_notify"}, NEW r, r = Sealed(ctx, type, <<>>)
  PROVE  /\ r \in Asked /\ ~IsFinished(r) /\ srv.state # "expecting_hello"
         /\ NextTurn(srv.suite, ctx) \in Turn
         /\ NextTurn(srv.suite, ctx) = [state |-> "open", seq |-> ctx.writeSeq]
         /\ r.type = type /\ r.body = <<>> /\ r.seq = ctx.writeSeq
         /\ r.key = DataKey(srv.suite, "client") /\ ctx.writeOn /\ ClientKnows(ctx)
<1>1. /\ ctx \in Context /\ StateFits(ctx)
      /\ ~ctx.writeOn => ctx.writeSeq = 0
      /\ srv.state = "expecting_hello" <=> srv.suite = "none"
  BY DEF IInv, Typed, ClientFits, KeysFit, ServerFits
<1>2. ClientKnows(ctx)
  BY DEF Flows, FlowsFor
<1>3. ctx.suite # "none" /\ ctx.suite = srv.suite /\ srv.state # "expecting_hello"
  BY <1>1 DEF StateFits
<1>4. ctx.writeOn /\ ctx.writeKey = DataKey(srv.suite, "client")
  BY <1>2, <1>3 DEF ClientKnows
<1>5. ctx.writeOn \in BOOLEAN /\ ctx.writeSeq \in Nat
  BY <1>1 DEF Context
<1>6. r.type = type /\ r.body = <<>> /\ r.key = ctx.writeKey /\ r.seq = ctx.writeSeq /\ r \in Asked
  <2>1. IsSealed(ctx, type, <<>>, r)
    BY <1>1, SealedAs
  <2>2. type \in RecordType /\ <<>> \in ClientBody
    BY DEF RecordType, ClientBody
  <2> QED
    BY <1>4, <2>1, <2>2 DEF IsSealed
<1>7. NextTurn(srv.suite, ctx) = [state |-> "open", seq |-> ctx.writeSeq]
  BY DEF NextTurn, Writes
<1>8. NextTurn(srv.suite, ctx) \in Turn
  BY <1>5, <1>7 DEF Turn
<1>9. ~IsFinished(r)
  <2> DEFINE body == r.body
  <2>1. body = <<>>
    BY <1>6
  <2> HIDE DEF body
  <2>2. Len(body) = 0
    BY <2>1
  <2> QED
    BY <2>2 DEF IsFinished, body
<1> QED
  BY <1>2, <1>3, <1>4, <1>6, <1>7, <1>8, <1>9

LEMMA EncryptMessageFlows ==
  ASSUME IInv, Flows, EncryptMessage
  PROVE  Flows'
<1> DEFINE r == Sealed(ctx, "data", <<>>)
<1>1. /\ call = "idle" /\ status \notin Failures /\ ctx.state = "HANDSHAKE_COMPLETE"
      /\ toServer' = Append(toServer, r) /\ ctx' = AfterWrite(ctx)
      /\ UNCHANGED <<call, avail, payload, status, srv, toClient>>
  BY DEF EncryptMessage, Usable
<1> HIDE DEF r
<1>2. /\ ctx \in Context /\ Sends(ctx, status) /\ Reads(ctx, status)
      /\ Outgoing(srv, ctx, status, toServer)
  BY <1>1 DEF IInv, Typed, Sends, Reads, Flows, FlowsFor
<1>3. /\ r \in Asked /\ ~IsFinished(r) /\ srv.state # "expecting_hello"
      /\ NextTurn(srv.suite, ctx) \in Turn
      /\ NextTurn(srv.suite, ctx) = [state |-> "open", seq |-> ctx.writeSeq]
      /\ r.type = "data" /\ r.body = <<>> /\ r.seq = ctx.writeSeq
      /\ r.key = DataKey(srv.suite, "client") /\ ctx.writeOn /\ ClientKnows(ctx)
  BY <1>1, <1>2, SealedData DEF r
<1>4. /\ ctx'.state = ctx.state /\ ctx'.suite = ctx.suite
      /\ ctx'.readKey = ctx.readKey /\ ctx'.writeKey = ctx.writeKey
      /\ ctx'.readOn = ctx.readOn /\ ctx'.writeOn = ctx.writeOn
      /\ ctx'.readSeq = ctx.readSeq /\ ctx'.frag = ctx.frag
      /\ ctx'.writeSeq = ctx.writeSeq + 1 /\ ctx.writeSeq \in Nat
  <2>1. Written(ctx, ctx') /\ ctx.writeSeq \in Nat
    BY <1>1, <1>2, AfterWriteAs DEF Context
  <2> QED
    BY <1>3, <2>1 DEF Written
<1>5. ClientKnows(ctx') /\ ctx.frag = NoFragment
  BY <1>1, <1>2, <1>3, <1>4, CompleteKnows
<1> DEFINE e == [state |-> "open", seq |-> ctx.writeSeq + 1]
<1>6. e \in Turn /\ Asks(srv.suite, r, NextTurn(srv.suite, ctx), e)
  BY <1>3, <1>4 DEF Asks, Turn
<1>7. e = NextTurn(srv.suite, ctx') /\ Writes(srv.suite, ctx'.state) = "open"
      /\ ctx'.state # "SENDING_CLIENT_HELLO"
  BY <1>1, <1>4 DEF NextTurn, Writes
<1> HIDE DEF e
<1>8. Outgoing(srv, ctx', status, toServer')
  BY <1>1, <1>2, <1>3, <1>6, <1>7, OutgoingMore
<1>9. Reached(srv.suite, ctx') = Reached(srv.suite, ctx)
  BY <1>4 DEF Reached
<1>10. AheadOf(srv.suite, ctx', call, payload) = AheadOf(srv.suite, ctx, call, payload)
  BY <1>9 DEF AheadOf
<1>11. PayloadFits(srv.suite, ctx', call, payload)
  BY <1>1 DEF PayloadFits
<1>12. FlowsFor(ctx', call, payload, status, toServer', toClient)
  BY <1>1, <1>2, <1>4, <1>5, <1>7, <1>8, <1>10, <1>11 DEF Flows, FlowsFor
<1>13. FlowsFor(ctx', call', payload', status', toServer', toClient')
  BY <1>1, <1>12
<1> QED
  BY <1>1, <1>13, ClientStepFlows

LEMMA ShutdownFlows ==
  ASSUME IInv, Flows, Shutdown
  PROVE  Flows'
<1> DEFINE r == Sealed(ctx, "close_notify", <<>>)
<1>1. /\ call = "idle" /\ status \notin Failures /\ ctx.state = "SENDING_CLOSE_NOTIFY"
      /\ toServer' = Append(toServer, r)
      /\ ctx' = [AfterWrite(ctx) EXCEPT !.state = "CONNECTION_CLOSED"]
      /\ call' = "idle" /\ status' = "ok" /\ payload' = <<>>
      /\ UNCHANGED <<srv, toClient>>
  BY DEF Shutdown, Usable, Return
<1> HIDE DEF r
<1>2. /\ ctx \in Context /\ Sends(ctx, status) /\ Outgoing(srv, ctx, status, toServer)
  BY <1>1 DEF IInv, Typed, Sends, Reads, Flows, FlowsFor
<1>3. /\ r \in Asked /\ ~IsFinished(r) /\ srv.state # "expecting_hello"
      /\ NextTurn(srv.suite, ctx) \in Turn
      /\ NextTurn(srv.suite, ctx) = [state |-> "open", seq |-> ctx.writeSeq]
      /\ r.type = "close_notify" /\ r.body = <<>> /\ r.seq = ctx.writeSeq
      /\ r.key = DataKey(srv.suite, "client") /\ ctx.writeOn /\ ClientKnows(ctx)
  BY <1>1, <1>2, SealedData DEF r
<1>4. ctx'.state = "CONNECTION_CLOSED"
  <2> DEFINE a == AfterWrite(ctx)
  <2>1. a \in Context
    BY <1>2, AfterWriteAs DEF Written
  <2>2. ctx' = [a EXCEPT !.state = "CONNECTION_CLOSED"]
    BY <1>1
  <2> HIDE DEF a
  <2> QED
    BY <2>1, <2>2 DEF Context
<1>5. ~Sends(ctx', status') /\ ~Reads(ctx', status')
  BY <1>4 DEF Sends, Reads
<1> DEFINE e == [state |-> "closed", seq |-> 0]
<1>6. e \in Turn /\ Asks(srv.suite, r, NextTurn(srv.suite, ctx), e)
  BY <1>3 DEF Asks, Turn
<1>7. ctx'.state # "SENDING_CLIENT_HELLO"
  BY <1>4
<1> HIDE DEF e
<1>8. Outgoing(srv, ctx', status', toServer')
  BY <1>1, <1>2, <1>3, <1>5, <1>6, <1>7, OutgoingMore
<1>9. FlowsFor(ctx', call', payload', status', toServer', toClient')
  BY <1>1, <1>5, <1>7, <1>8 DEF Flows, FlowsFor
<1> QED
  BY <1>1, <1>9, ClientStepFlows

-----------------------------------------------------------------------------
(* The answers of the client *)

\* An answer, with the record it is: the client stays where it is in what the
\* server says, and the record is what the server waits for.
Answer(c, d, r) ==
  /\ ClientKnows(d) /\ d.frag = NoFragment
  /\ d.state \notin {"SENDING_CLIENT_HELLO", "SENDING_CLOSE_NOTIFY", "CONNECTION_CLOSED"}
  /\ Reached(srv.suite, d) = Reached(srv.suite, c)
  /\ r \in Asked /\ NextTurn(srv.suite, c) \in Turn /\ NextTurn(srv.suite, d) \in Turn
  /\ Asks(srv.suite, r, NextTurn(srv.suite, c), NextTurn(srv.suite, d))
  /\ srv.suite # "tls13" /\ Writes(srv.suite, d.state) # "open" =>
       Writes(srv.suite, c.state) # "open" /\ ~IsFinished(r)

\* A client that answers.
Answering(c) ==
  /\ InUse(c) /\ ClientKnows(c)
  /\ c.suite = srv.suite /\ c.frag = NoFragment

LEMMA AnswerFlows ==
  ASSUME IInv, Flows, call = "input", srv.suite # "none",
         UNCHANGED <<call, payload, status, srv, toClient>>,
         NEW r, Answer(ctx, ctx', r), toServer' = Append(toServer, r)
  PROVE  Flows'
<1>1. status \notin Failures /\ ctx.state \notin {"SENDING_CLOSE_NOTIFY", "CONNECTION_CLOSED"}
      /\ srv.state # "expecting_hello"
  BY DEF IInv, CallFits, ServerFits, Flows, FlowsFor
<1>2. /\ Sends(ctx, status) /\ Reads(ctx, status) /\ Outgoing(srv, ctx, status, toServer)
  BY <1>1 DEF Sends, Reads, Flows, FlowsFor
<1> DEFINE e == NextTurn(srv.suite, ctx')
<1>3. /\ r \in Asked /\ NextTurn(srv.suite, ctx) \in Turn /\ e \in Turn
      /\ Asks(srv.suite, r, NextTurn(srv.suite, ctx), e)
      /\ ctx'.state # "SENDING_CLIENT_HELLO"
      /\ srv.suite # "tls13" /\ Writes(srv.suite, ctx'.state) # "open" =>
           Writes(srv.suite, ctx.state) # "open" /\ ~IsFinished(r)
  BY DEF Answer
<1>4. Outgoing(srv, ctx', status', toServer')
  <2>1. Sends(ctx', status') => e = NextTurn(srv.suite, ctx')
    OBVIOUS
  <2> HIDE DEF e
  <2> QED
    BY <1>1, <1>2, <1>3, <2>1, OutgoingMore
<1>5. AheadOf(srv.suite, ctx', call, payload) = AheadOf(srv.suite, ctx, call, payload)
  BY DEF Answer, AheadOf
<1>6. FlowsFor(ctx', call, payload, status, toServer', toClient)
  BY <1>1, <1>2, <1>3, <1>4, <1>5 DEF Flows, FlowsFor, Answer, PayloadFits
<1>7. FlowsFor(ctx', call', payload', status', toServer', toClient')
  BY <1>6
<1> QED
  BY <1>7, ClientStepFlows

LEMMA ChangeCipherSpecRecord ==
  LET r == Record("change_cipher_spec", Plain, 0, <<>>)
  IN r \in Asked /\ ~IsFinished(r)
BY KeysTyped DEF Record, Asked, RecordType, ClientBody, IsFinished

LEMMA ChangeCipherSpecAnswers13 ==
  ASSUME NEW c, Answering(c), c.state = "TLS1_3_SENDING_CHANGE_CIPHER_SPEC"
  PROVE  Answer(c, ChangeCipherSpec(c), Record("change_cipher_spec", Plain, 0, <<>>))
<1> DEFINE d == ChangeCipherSpec(c)
           r == Record("change_cipher_spec", Plain, 0, <<>>)
<1>0. c \in Context /\ StateFits(c) /\ ClientKnows(c) /\ c.suite = srv.suite /\ c.frag = NoFragment
  BY DEF Answering, InUse
<1>1. c.suite = "tls13"
  BY <1>0 DEF StateFits, ConnectStates13
<1>2. d = [c EXCEPT !.state = "TLS1_3_SENDING_FINISHED"]
  BY <1>1 DEF ChangeCipherSpec, Is13
<1> HIDE DEF d
<1>3. /\ d.state = "TLS1_3_SENDING_FINISHED" /\ d.suite = c.suite
      /\ d.readKey = c.readKey /\ d.writeKey = c.writeKey /\ d.secrets = c.secrets
      /\ d.transcript = c.transcript /\ d.writeSeq = c.writeSeq /\ d.frag = c.frag
  BY <1>0, <1>2 DEF Context
<1>4. ClientKnows(d)
  <2>1. Heard(c.suite, c.state) = Heard(d.suite, d.state)
    BY <1>3 DEF Heard
  <2> QED
    BY <1>0, <1>3, <2>1 DEF ClientKnows, FragmentKnown, ConnectStates12, ConnectStates13, InTheClear
<1>5. Reached(srv.suite, d) = Reached(srv.suite, c)
  BY <1>0, <1>3, Waits DEF Reached, SendsFinished13
<1>6. c.writeSeq = 0
  BY <1>0 DEF ClientKnows, ConnectStates13
<1>7. /\ NextTurn(srv.suite, c) = [state |-> "expecting_finished", seq |-> 0]
      /\ NextTurn(srv.suite, d) = [state |-> "expecting_finished", seq |-> 0]
  BY <1>0, <1>1, <1>3, <1>6 DEF NextTurn, Writes
<1>8. r \in Asked
  BY ChangeCipherSpecRecord
<1>9. Asks(srv.suite, r, NextTurn(srv.suite, c), NextTurn(srv.suite, d))
  BY <1>0, <1>1, <1>7 DEF Asks
<1>10. NextTurn(srv.suite, c) \in Turn /\ NextTurn(srv.suite, d) \in Turn
  BY <1>7 DEF Turn
<1> HIDE DEF r
<1>11. Answer(c, d, r)
  BY <1>0, <1>1, <1>3, <1>4, <1>5, <1>8, <1>9, <1>10 DEF Answer
<1> QED
  BY <1>11 DEF d, r

LEMMA ChangeCipherSpecAnswers12 ==
  ASSUME NEW c, Answering(c), c.state = "TLS1_2_SENDING_CHANGE_CIPHER_SPEC"
  PROVE  Answer(c, ChangeCipherSpec(c), Record("change_cipher_spec", Plain, 0, <<>>))
<1> DEFINE d == ChangeCipherSpec(c)
           r == Record("change_cipher_spec", Plain, 0, <<>>)
           t == TRUE
<1>0. c \in Context /\ StateFits(c) /\ KeysFit(c) /\ ClientKnows(c) /\ c.suite = srv.suite
      /\ c.frag = NoFragment
  BY DEF Answering, InUse
<1>1. c.suite # "tls13"
  BY <1>0 DEF StateFits, ConnectStates12
<1>2. d = [c EXCEPT !.state = "TLS1_2_SENDING_FINISHED", !.writeOn = t]
  BY <1>1 DEF ChangeCipherSpec, Is13
<1>t. t
  OBVIOUS
<1> HIDE DEF d, t
<1>3. /\ d.state = "TLS1_2_SENDING_FINISHED" /\ d.suite = c.suite
      /\ d.readKey = c.readKey /\ d.writeKey = c.writeKey
      /\ d.transcript = c.transcript /\ d.writeSeq = c.writeSeq /\ d.readSeq = c.readSeq
      /\ d.readOn = c.readOn /\ d.frag = c.frag
  BY <1>0, <1>2 DEF Context
<1>6. c.writeSeq = 0 /\ ~c.readOn
  BY <1>0 DEF ClientKnows, KeysFit, InTheClear
<1>4. ClientKnows(d)
  <2>1. Heard(c.suite, c.state) = Heard(d.suite, d.state)
    BY <1>3 DEF Heard
  <2> QED
    BY <1>0, <1>3, <1>6, <2>1 DEF ClientKnows, FragmentKnown, ConnectStates12, ConnectStates13, InTheClear
<1>5. Reached(srv.suite, d) = Reached(srv.suite, c)
  BY <1>0, <1>3, Waits DEF Reached, SendsFinished13
<1>7. /\ NextTurn(srv.suite, c) = [state |-> "expecting_ccs", seq |-> 0]
      /\ NextTurn(srv.suite, d) = [state |-> "expecting_finished", seq |-> 0]
      /\ Writes(srv.suite, c.state) # "open"
  BY <1>0, <1>1, <1>3, <1>6 DEF NextTurn, Writes
<1>8. r \in Asked /\ ~IsFinished(r)
  BY ChangeCipherSpecRecord
<1>9. Asks(srv.suite, r, NextTurn(srv.suite, c), NextTurn(srv.suite, d))
  BY <1>0, <1>1, <1>7 DEF Asks
<1>10. NextTurn(srv.suite, c) \in Turn /\ NextTurn(srv.suite, d) \in Turn
  BY <1>7 DEF Turn
<1> HIDE DEF r
<1>11. Answer(c, d, r)
  BY <1>0, <1>1, <1>3, <1>4, <1>5, <1>7, <1>8, <1>9, <1>10 DEF Answer
<1> QED
  BY <1>11 DEF d, r

\* Hashing in a handshake.
LEMMA HashedAs ==
  ASSUME NEW c \in Context, HandshakeInProgress(c), NEW m \in Message
  PROVE  /\ Hashed(c, <<m>>) \in Context
         /\ Hashed(c, <<m>>) = [c EXCEPT !.transcript = Append(c.transcript, m)]
<1> DEFINE ms == <<m>>
           d == Hashed(c, ms)
<1>1. ms \in Seq(Message) /\ c.transcript \in Seq(Message)
  BY DEF Context
<1>2. c.transcript \o ms = Append(c.transcript, m)
  BY <1>1, AppendProperties, ConcatProperties
<1> HIDE DEF ms
<1>3. /\ d \in Context /\ d = [c EXCEPT !.transcript = d.transcript]
      /\ d.transcript = c.transcript \o ms
  BY <1>1, HashedFits
<1>4. d \in Context /\ d = [c EXCEPT !.transcript = Append(c.transcript, m)]
  BY <1>2, <1>3
<1> QED
  BY <1>4 DEF ms

LEMMA ClientKeyExchangeAnswers ==
  ASSUME srv.suite # "none", NEW c, Answering(c), c.state = "TLS1_2_SENDING_CLIENT_KEY_EXCHANGE"
  PROVE  Answer(c, AfterWrite(ClientKeyExchange12(c)),
                Sealed(c, "handshake", <<"client_key_exchange">>))
<1> DEFINE e == [c EXCEPT !.readKey = SessionKey12("server"), !.writeKey = SessionKey12("client"),
                          !.state = "TLS1_2_SENDING_CHANGE_CIPHER_SPEC"]
           h == Hashed(e, <<"client_key_exchange">>)
           d == AfterWrite(h)
           r == Sealed(c, "handshake", <<"client_key_exchange">>)
<1>0. c \in Context /\ StateFits(c) /\ KeysFit(c) /\ ClientKnows(c) /\ c.suite = srv.suite
      /\ c.frag = NoFragment
  BY DEF Answering, InUse
<1>1. c.suite # "tls13"
  BY <1>0 DEF StateFits, ConnectStates12
<1>2. /\ ~c.writeOn /\ ~c.readOn /\ c.writeSeq = 0
      /\ c.transcript = Heard(c.suite, "TLS1_2_SENDING_CLIENT_KEY_EXCHANGE")
  BY <1>0 DEF ClientKnows, KeysFit, InTheClear, ConnectStates12
<1>3. /\ e \in Context /\ e.state = "TLS1_2_SENDING_CHANGE_CIPHER_SPEC" /\ e.suite = c.suite
      /\ e.transcript = c.transcript /\ e.readOn = c.readOn /\ e.writeOn = c.writeOn
      /\ e.readSeq = c.readSeq /\ e.writeSeq = c.writeSeq /\ e.frag = c.frag
  BY <1>0, KeyTyped DEF Context, State, ConnectStates12, Side
<1> HIDE DEF e
<1>4. h \in Context /\ h = [e EXCEPT !.transcript = Append(e.transcript, "client_key_exchange")]
  <2>1. HandshakeInProgress(e)
    BY <1>3, InProgress
  <2>2. "client_key_exchange" \in Message
    BY DEF Message
  <2> QED
    BY <1>3, <2>1, <2>2, HashedAs
<1> HIDE DEF h
<1>5. /\ h.state = e.state /\ h.suite = e.suite
      /\ h.transcript = Append(e.transcript, "client_key_exchange")
      /\ h.readOn = e.readOn /\ h.writeOn = e.writeOn
      /\ h.readSeq = e.readSeq /\ h.writeSeq = e.writeSeq /\ h.frag = e.frag
  BY <1>3, <1>4 DEF Context
<1>6. d = h
  BY <1>2, <1>3, <1>5 DEF AfterWrite
<1> HIDE DEF d
<1>7. /\ d.state = "TLS1_2_SENDING_CHANGE_CIPHER_SPEC" /\ d.suite = c.suite
      /\ d.transcript = Append(c.transcript, "client_key_exchange")
      /\ ~d.readOn /\ ~d.writeOn
      /\ d.readSeq = c.readSeq /\ d.writeSeq = 0 /\ d.frag = NoFragment
  BY <1>0, <1>2, <1>3, <1>5, <1>6
<1>8. ClientKnows(d)
  <2>1. d.transcript = Heard(d.suite, d.state)
    BY <1>2, <1>7 DEF Heard
  <2> QED
    BY <1>7, <2>1 DEF ClientKnows, FragmentKnown, ConnectStates12, ConnectStates13, InTheClear
<1>9. Reached(srv.suite, d) = Reached(srv.suite, c)
  BY <1>0, <1>2, <1>7, Waits DEF Reached, SendsFinished13
<1>10. /\ NextTurn(srv.suite, c) = [state |-> "expecting_key_exchange", seq |-> 0]
       /\ NextTurn(srv.suite, d) = [state |-> "expecting_ccs", seq |-> 0]
       /\ Writes(srv.suite, c.state) # "open"
  BY <1>0, <1>1, <1>2, <1>7 DEF NextTurn, Writes
<1>11. r = Record("handshake", Plain, 0, <<"client_key_exchange">>)
  BY <1>2 DEF Sealed
<1>12. r \in Asked /\ ~IsFinished(r)
  <2>1. Len(<<"client_key_exchange">>) = 1
    OBVIOUS
  <2> QED
    BY <1>11, <2>1, KeysTyped DEF Asked, Record, RecordType, ClientBody, IsFinished
<1> HIDE DEF r
<1>13. Asks(srv.suite, r, NextTurn(srv.suite, c), NextTurn(srv.suite, d))
  BY <1>10, <1>11 DEF Asks
<1>14. NextTurn(srv.suite, c) \in Turn /\ NextTurn(srv.suite, d) \in Turn
  BY <1>10 DEF Turn
<1>15. Answer(c, d, r)
  BY <1>7, <1>8, <1>9, <1>10, <1>12, <1>13, <1>14 DEF Answer
<1> QED
  BY <1>15 DEF d, h, e, r, ClientKeyExchange12

LEMMA FinishedAnswers12 ==
  ASSUME srv.suite # "none", NEW c, Answering(c), c.state = "TLS1_2_SENDING_FINISHED"
  PROVE  Answer(c, AfterWrite(Finished12(c)),
                Sealed(c, "handshake", <<"finished", Proof(c.writeKey, c.transcript)>>))
<1> DEFINE e == [c EXCEPT !.state = "TLS1_2_EXPECTING_CHANGE_CIPHER_SPEC"]
           h == Hashed(e, <<"finished">>)
           d == AfterWrite(h)
           body == <<"finished", Proof(c.writeKey, c.transcript)>>
           r == Sealed(c, "handshake", body)
<1>0. c \in Context /\ StateFits(c) /\ KeysFit(c) /\ ClientKnows(c) /\ c.suite = srv.suite
      /\ c.frag = NoFragment
  BY DEF Answering, InUse
<1>1. c.suite # "tls13"
  BY <1>0 DEF StateFits, ConnectStates12
<1>2. /\ c.writeOn /\ ~c.readOn /\ c.writeSeq = 0 /\ c.writeKey = SessionKey12("client")
      /\ c.transcript = Append(Flight12(c.suite), "client_key_exchange")
  BY <1>0 DEF ClientKnows, KeysFit, InTheClear, ConnectStates12, ConnectStates13, Heard
<1>3. /\ e \in Context /\ e.state = "TLS1_2_EXPECTING_CHANGE_CIPHER_SPEC" /\ e.suite = c.suite
      /\ e.transcript = c.transcript /\ e.readOn = c.readOn /\ e.writeOn = c.writeOn
      /\ e.readSeq = c.readSeq /\ e.writeSeq = c.writeSeq /\ e.frag = c.frag
  BY <1>0 DEF Context, State, ConnectStates12
<1> HIDE DEF e
<1>4. h \in Context /\ h = [e EXCEPT !.transcript = Append(e.transcript, "finished")]
  <2>1. HandshakeInProgress(e)
    BY <1>3, InProgress
  <2>2. "finished" \in Message
    BY DEF Message, ServerMessage
  <2> QED
    BY <1>3, <2>1, <2>2, HashedAs
<1> HIDE DEF h
<1>5. /\ h.state = e.state /\ h.suite = e.suite
      /\ h.transcript = Append(e.transcript, "finished")
      /\ h.readOn = e.readOn /\ h.writeOn = e.writeOn
      /\ h.readSeq = e.readSeq /\ h.writeSeq = e.writeSeq /\ h.frag = e.frag
  BY <1>3, <1>4 DEF Context
<1>6. Written(h, d)
  BY <1>4, AfterWriteAs
<1> HIDE DEF d
<1>7. /\ d.state = "TLS1_2_EXPECTING_CHANGE_CIPHER_SPEC" /\ d.suite = c.suite
      /\ d.transcript = Append(c.transcript, "finished")
      /\ ~d.readOn
      /\ d.readSeq = c.readSeq /\ d.writeSeq = 1 /\ d.frag = NoFragment
  BY <1>0, <1>2, <1>3, <1>5, <1>6 DEF Written
<1>8. ClientKnows(d)
  <2>1. d.transcript = Heard(d.suite, d.state)
    BY <1>2, <1>7 DEF Heard
  <2> QED
    BY <1>7, <2>1 DEF ClientKnows, FragmentKnown, ConnectStates12, ConnectStates13, InTheClear
<1>9. Reached(srv.suite, d) = Reached(srv.suite, c)
  BY <1>0, <1>2, <1>7, Waits DEF Reached, SendsFinished13
<1>10. /\ NextTurn(srv.suite, c) = [state |-> "expecting_finished", seq |-> 0]
       /\ NextTurn(srv.suite, d) = [state |-> "open", seq |-> 1]
       /\ Writes(srv.suite, d.state) = "open"
  BY <1>0, <1>1, <1>2, <1>7 DEF NextTurn, Writes
<1>11. body = <<"finished", ClientProof(srv.suite)>> /\ c.writeKey = ClientKey(srv.suite)
  BY <1>0, <1>1, <1>2 DEF ClientProof, ClientKey
<1>12. body \in ClientBody
  BY <1>0 DEF Context, ClientBody
<1> HIDE DEF body, r
<1>13. r = Record("handshake", ClientKey(srv.suite), 0, body) /\ r \in Asked
  <2>1. r = Record("handshake", ClientKey(srv.suite), 0, body)
    BY <1>2, <1>11 DEF r, Sealed
  <2>2. ClientKey(srv.suite) \in KeySet
    BY <1>0, <1>11 DEF Context
  <2> QED
    BY <1>12, <2>1, <2>2 DEF Asked, Record, RecordType
<1>14. Asks(srv.suite, r, NextTurn(srv.suite, c), NextTurn(srv.suite, d))
  BY <1>0, <1>1, <1>10, <1>11, <1>13 DEF Asks
<1>15. NextTurn(srv.suite, c) \in Turn /\ NextTurn(srv.suite, d) \in Turn
  BY <1>10 DEF Turn
<1>16. Answer(c, d, r)
  BY <1>7, <1>8, <1>9, <1>10, <1>13, <1>14, <1>15 DEF Answer
<1> QED
  BY <1>16 DEF d, h, e, r, body, Finished12

LEMMA FinishedAnswers13 ==
  ASSUME srv.suite # "none", NEW c, Answering(c), c.state = "TLS1_3_SENDING_FINISHED"
  PROVE  Answer(c, DeriveApplicationKeys13(AfterWrite(Finished13(c))),
                Sealed(c, "handshake", <<"finished", Proof(c.secrets[1], c.transcript)>>))
<1> DEFINE ours == Key("application", "client", c.transcript)
           theirs == Key("application", "server", c.transcript)
           e == Finished13(c)
           f == AfterWrite(e)
           d == DeriveApplicationKeys13(f)
           body == <<"finished", Proof(c.secrets[1], c.transcript)>>
           r == Sealed(c, "handshake", body)
<1>0. c \in Context /\ StateFits(c) /\ KeysFit(c) /\ ClientKnows(c) /\ c.suite = srv.suite
      /\ c.frag = NoFragment
  BY DEF Answering, InUse
<1>1. c.suite = "tls13" /\ c.readOn /\ c.writeOn
  BY <1>0 DEF StateFits, KeysFit, ConnectStates13
<1>2. /\ c.writeSeq = 0 /\ c.writeKey = HsKey("client") /\ c.transcript = Heard13
      /\ c.secrets = <<HsKey("client"), HsKey("server")>>
  BY <1>0 DEF ClientKnows, ConnectStates13, Heard
<1>3. /\ ours \in KeySet /\ theirs \in KeySet
      /\ ours = DataKey("tls13", "client") /\ theirs = DataKey("tls13", "server")
  BY <1>2, KeysTyped DEF DataKey, Side
<1>4. e = [c EXCEPT !.secrets = <<theirs, ours>>, !.state = "HANDSHAKE_COMPLETE"]
  BY DEF Finished13
<1> HIDE DEF e, ours, theirs
<1>5. /\ e \in Context /\ e.secrets = <<theirs, ours>>
      /\ e.state = "HANDSHAKE_COMPLETE" /\ e.suite = c.suite
      /\ e.readOn = c.readOn /\ e.writeOn = c.writeOn /\ e.frag = c.frag
  BY <1>0, <1>3, <1>4 DEF Context, State
<1>6. Written(e, f)
  BY <1>5, AfterWriteAs
<1> HIDE DEF f
<1>7. d = [f EXCEPT !.readKey = theirs, !.writeKey = ours, !.readSeq = 0, !.writeSeq = 0]
  BY <1>5, <1>6 DEF Written, DeriveApplicationKeys13, KeysFromSecrets13
<1> HIDE DEF d
<1>8. /\ d.state = "HANDSHAKE_COMPLETE" /\ d.suite = "tls13"
      /\ d.readOn /\ d.writeOn /\ d.readKey = theirs /\ d.writeKey = ours
      /\ d.readSeq = 0 /\ d.writeSeq = 0 /\ d.frag = NoFragment
  BY <1>0, <1>1, <1>5, <1>6, <1>7 DEF Context, Written
<1>9. ClientKnows(d)
  BY <1>3, <1>8 DEF ClientKnows, FragmentKnown, ConnectStates12, ConnectStates13, InTheClear
<1>10. Reached(srv.suite, d) = Reached(srv.suite, c)
  BY <1>0, <1>1, <1>3, <1>8, Waits DEF Reached, SendsFinished13
<1>11. /\ NextTurn(srv.suite, c) = [state |-> "expecting_finished", seq |-> 0]
       /\ NextTurn(srv.suite, d) = [state |-> "open", seq |-> 0]
  BY <1>0, <1>1, <1>2, <1>8 DEF NextTurn, Writes
<1>12. body = <<"finished", ClientProof(srv.suite)>> /\ c.writeKey = ClientKey(srv.suite)
  BY <1>0, <1>1, <1>2 DEF ClientProof, ClientKey
<1>13. body \in ClientBody
  <2>1. c.secrets[1] \in KeySet /\ c.transcript \in Seq(Message)
    BY <1>0 DEF Context
  <2> QED
    BY <2>1 DEF ClientBody
<1> HIDE DEF body, r
<1>14. r = Record("handshake", ClientKey(srv.suite), 0, body) /\ r \in Asked
  <2>1. r = Record("handshake", ClientKey(srv.suite), 0, body)
    BY <1>1, <1>2, <1>12 DEF r, Sealed
  <2>2. ClientKey(srv.suite) \in KeySet
    BY <1>0, <1>12 DEF Context
  <2> QED
    BY <1>13, <2>1, <2>2 DEF Asked, Record, RecordType
<1>15. Asks(srv.suite, r, NextTurn(srv.suite, c), NextTurn(srv.suite, d))
  <2>1. srv.suite = "tls13"
    BY <1>0, <1>1
  <2>2. /\ NextTurn(srv.suite, c).state = "expecting_finished" /\ NextTurn(srv.suite, c).seq = 0
        /\ NextTurn(srv.suite, d).state = "open" /\ NextTurn(srv.suite, d).seq = 0
    BY <1>11
  <2>3. r = Record("handshake", ClientKey(srv.suite), 0, <<"finished", ClientProof(srv.suite)>>)
    BY <1>12, <1>14
  <2> QED
    BY <2>1, <2>2, <2>3 DEF Asks
<1>16. NextTurn(srv.suite, c) \in Turn /\ NextTurn(srv.suite, d) \in Turn
  BY <1>11 DEF Turn
<1>17. Answer(c, d, r)
  BY <1>0, <1>1, <1>8, <1>9, <1>10, <1>14, <1>15, <1>16 DEF Answer
<1> QED
  BY <1>17 DEF d, f, e, r, body

LEMMA GenerateOutgoingRecordFlows ==
  ASSUME IInv, Flows, GenerateOutgoingRecord
  PROVE  Flows'
<1>1. /\ call = "input"
      /\ UNCHANGED <<call, payload, status, srv, toClient>>
      /\ \/ /\ ctx.state \in {"TLS1_2_SENDING_CHANGE_CIPHER_SPEC", "TLS1_3_SENDING_CHANGE_CIPHER_SPEC"}
            /\ ctx' = ChangeCipherSpec(ctx)
            /\ toServer' = Append(toServer, Record("change_cipher_spec", Plain, 0, <<>>))
         \/ /\ ctx.state = "TLS1_2_SENDING_CLIENT_KEY_EXCHANGE"
            /\ toServer' = Append(toServer, Sealed(ctx, "handshake", <<"client_key_exchange">>))
            /\ ctx' = AfterWrite(ClientKeyExchange12(ctx))
         \/ /\ ctx.state = "TLS1_2_SENDING_FINISHED"
            /\ toServer' = Append(toServer, Sealed(ctx, "handshake",
                             <<"finished", Proof(ctx.writeKey, ctx.transcript)>>))
            /\ ctx' = AfterWrite(Finished12(ctx))
         \/ /\ ctx.state = "TLS1_3_SENDING_FINISHED"
            /\ toServer' = Append(toServer, Sealed(ctx, "handshake",
                             <<"finished", Proof(ctx.secrets[1], ctx.transcript)>>))
            /\ ctx' = DeriveApplicationKeys13(AfterWrite(Finished13(ctx)))
  <2> HIDE DEF IInv, Flows
  <2> QED
    BY Zenon DEF GenerateOutgoingRecord
<1>2. /\ ctx.state \in {"TLS1_2_SENDING_CHANGE_CIPHER_SPEC", "TLS1_3_SENDING_CHANGE_CIPHER_SPEC",
                        "TLS1_2_SENDING_CLIENT_KEY_EXCHANGE", "TLS1_2_SENDING_FINISHED",
                        "TLS1_3_SENDING_FINISHED"}
      /\ status \notin Failures
  BY <1>1 DEF Flows, FlowsFor
<1>3. InUse(ctx) /\ ClientKnows(ctx) /\ ctx.suite \in {"none", srv.suite} /\ ctx.suite # "none"
  BY <1>2, InUseFits DEF Flows, FlowsFor, Sends, InUse, StateFits
<1>4. Answering(ctx) /\ srv.suite # "none"
  BY <1>2, <1>3 DEF Answering, ClientKnows, FragmentKnown, ReadStates
<1>5. PICK r : Answer(ctx, ctx', r) /\ toServer' = Append(toServer, r)
  <2>1. CASE ctx.state = "TLS1_3_SENDING_CHANGE_CIPHER_SPEC"
    BY <1>1, <1>4, <2>1, ChangeCipherSpecAnswers13
  <2>2. CASE ctx.state = "TLS1_2_SENDING_CHANGE_CIPHER_SPEC"
    BY <1>1, <1>4, <2>2, ChangeCipherSpecAnswers12
  <2>3. CASE ctx.state = "TLS1_2_SENDING_CLIENT_KEY_EXCHANGE"
    BY <1>1, <1>4, <2>3, ClientKeyExchangeAnswers
  <2>4. CASE ctx.state = "TLS1_2_SENDING_FINISHED"
    BY <1>1, <1>4, <2>4, FinishedAnswers12
  <2>5. CASE ctx.state = "TLS1_3_SENDING_FINISHED"
    BY <1>1, <1>4, <2>5, FinishedAnswers13
  <2> QED
    BY <1>2, <2>1, <2>2, <2>3, <2>4, <2>5
<1> QED
  BY <1>1, <1>4, <1>5, AnswerFlows

-----------------------------------------------------------------------------
(* The client reads *)

\* The client goes on where it can read the next record.
LEMMA ClientReads ==
  ASSUME Flows, status \notin Failures, srv.suite # "none",
         ctx.state \notin {"SENDING_CLOSE_NOTIFY", "CONNECTION_CLOSED"},
         NEW d, d.state \notin {"SENDING_CLIENT_HELLO", "SENDING_CLOSE_NOTIFY", "CONNECTION_CLOSED"},
         ClientKnows(d), d.writeSeq = ctx.writeSeq,
         Writes(srv.suite, d.state) = Writes(srv.suite, ctx.state),
         NEW where, NEW bytes, PayloadFits(srv.suite, d, where, bytes),
         NEW result, result \notin Failures, NEW in,
         \A i \in 1 .. Len(in) : NotEarly(srv, in[i]),
         Coming(srv, AheadOf(srv.suite, d, where, bytes), in)
  PROVE  FlowsFor(d, where, bytes, result, toServer, in)
<1>1. Sends(ctx, status) /\ Sends(d, result) /\ Reads(d, result)
  BY DEF Sends, Reads
<1>2. Outgoing(srv, d, result, toServer)
  <2>1. Outgoing(srv, ctx, status, toServer)
    BY DEF Flows, FlowsFor
  <2> QED
    BY <1>1, <2>1, OutgoingSame
<1>3. result \notin {"illegal", "incomplete"}
  BY DEF Failures
<1> QED
  BY <1>1, <1>2, <1>3 DEF FlowsFor

\* Nothing but the number of records read.
Counted(c, d) ==
  /\ d \in Context /\ d.state = c.state /\ d.suite = c.suite /\ d.transcript = c.transcript
  /\ d.savedHello = c.savedHello /\ d.secrets = c.secrets
  /\ d.readKey = c.readKey /\ d.writeKey = c.writeKey
  /\ d.readOn = c.readOn /\ d.writeOn = c.writeOn
  /\ d.writeSeq = c.writeSeq /\ d.frag = c.frag
  /\ d.readSeq = c.readSeq + 1

LEMMA AfterReadAs ==
  ASSUME NEW c \in Context
  PROVE  Counted(c, AfterRead(c))
<1> DEFINE d == AfterRead(c)
           n == c.readSeq + 1
<1>1. d = [c EXCEPT !.readSeq = n]
  BY DEF AfterRead, Context
<1>2. n \in Nat
  BY DEF Context
<1> HIDE DEF n, d
<1>3. /\ d \in Context /\ d.state = c.state /\ d.suite = c.suite /\ d.transcript = c.transcript
      /\ d.savedHello = c.savedHello /\ d.secrets = c.secrets
      /\ d.readKey = c.readKey /\ d.writeKey = c.writeKey
      /\ d.readOn = c.readOn /\ d.writeOn = c.writeOn
      /\ d.writeSeq = c.writeSeq /\ d.frag = c.frag /\ d.readSeq = n
  BY <1>1, <1>2 DEF Context
<1> QED
  BY <1>3 DEF n, d, Counted

LEMMA CountedKnows ==
  ASSUME NEW c, ClientKnows(c), NEW d, Counted(c, d)
  PROVE  /\ ClientKnows(d)
         /\ \A suite : /\ Reached(suite, d).n = Reached(suite, c).n
                       /\ Reached(suite, d).key = Reached(suite, c).key
<1>1. ClientKnows(d)
  BY DEF ClientKnows, FragmentKnown, Counted
<1>2. \A suite : /\ Reached(suite, d).n = Reached(suite, c).n
                 /\ Reached(suite, d).key = Reached(suite, c).key
  BY DEF Reached, Counted
<1> QED
  BY <1>1, <1>2

\* Two positions are the same if their parts are.
LEMMA SamePosition ==
  ASSUME NEW p \in Position, NEW n, NEW key, NEW seq, p.n = n, p.key = key, p.seq = seq
  PROVE  p = [n |-> n, key |-> key, seq |-> seq]
BY DEF Position

\* The record that a client in the handshake is to read.
Incoming(suite, r, p, m) ==
  /\ r.type # "data"
  /\ r.type = "handshake" =>
       /\ r.body # <<>> /\ Runs(suite, r.body, p.n, p.key) /\ r.key = p.key /\ r.seq = p.seq
       /\ m.n = p.n + Len(r.body) /\ Clean(suite, m.n)
       /\ m.key = KeyAfter(suite, m.n, p.key)
       /\ m.seq = IF m.key # p.key THEN 0 ELSE IF p.key = Plain THEN p.seq ELSE p.seq + 1
  /\ r.type = "close_notify" => r.key = p.key /\ r.seq = p.seq
  /\ r.type = "change_cipher_spec" =>
       /\ m.n = p.n /\ m.seq = IF m.key # p.key THEN 0 ELSE p.seq
       /\ \/ /\ suite # "tls13" /\ p.n = Before(suite, "finished")
             /\ p.key = Plain /\ m.key = SessionKey12("server")
          \/ /\ suite = "tls13" /\ p.n = Before(suite, "encrypted_extensions")
             /\ p.key = HsKey("server") /\ m.key = p.key

LEMMA IncomingRun ==
  ASSUME NEW suite, NEW p, NEW m, p.n < Before(suite, "none"), p.n \in Nat,
         Before(suite, "none") \in Nat, NEW r, RecordMoves(suite, r, p, m)
  PROVE  Incoming(suite, r, p, m)
<1>1. p.n # Before(suite, "none")
  OBVIOUS
<1>2. Moves(suite, r.type, r.key, r.body, p, m) /\ m.seq = NextSeq(r.type, p, m)
      /\ (r.type # "change_cipher_spec" => r.seq = p.seq)
  BY DEF RecordMoves
<1>3. r.type # "data" /\ (r.type = "close_notify" => r.key = p.key /\ r.seq = p.seq)
  BY <1>1, <1>2 DEF Moves
<1>4. ASSUME r.type = "handshake"
      PROVE  /\ r.body # <<>> /\ Runs(suite, r.body, p.n, p.key) /\ r.key = p.key /\ r.seq = p.seq
             /\ m.n = p.n + Len(r.body) /\ Clean(suite, m.n)
             /\ m.key = KeyAfter(suite, m.n, p.key)
             /\ m.seq = IF m.key # p.key THEN 0 ELSE IF p.key = Plain THEN p.seq ELSE p.seq + 1
  BY <1>1, <1>2, <1>4 DEF Moves, NextSeq
<1>5. ASSUME r.type = "change_cipher_spec"
      PROVE  /\ m.n = p.n /\ m.seq = IF m.key # p.key THEN 0 ELSE p.seq
             /\ \/ /\ suite # "tls13" /\ p.n = Before(suite, "finished")
                   /\ p.key = Plain /\ m.key = SessionKey12("server")
                \/ /\ suite = "tls13" /\ p.n = Before(suite, "encrypted_extensions")
                   /\ p.key = HsKey("server") /\ m.key = p.key
  BY <1>2, <1>5 DEF Moves, NextSeq
<1> QED
  BY <1>3, <1>4, <1>5 DEF Incoming

\* A close_notify that is read.
LEMMA CloseFlows ==
  ASSUME IInv, Flows, UNCHANGED <<srv, toServer>>, srv.state = "closed",
         ctx'.state = "CONNECTION_CLOSED", call' = "idle",
         \A i \in 1 .. Len(toClient') : NotEarly(srv, toClient'[i])
  PROVE  Flows'
<1>1. ~Sends(ctx', status') /\ ctx'.state # "SENDING_CLIENT_HELLO"
  BY DEF Sends
<1>2. FlowsFor(ctx', call', payload', status', toServer, toClient')
  BY <1>1, Dead
<1>3. FlowsFor(ctx', call', payload', status', toServer', toClient')
  BY <1>2
<1> QED
  BY <1>3, ClientStepFlows

\* A record of the handshake is opened, and its messages are read next.
LEMMA RunOpened ==
  ASSUME IInv, Flows, status \notin Failures, srv.suite # "none", call = "input",
         InUse(ctx), FragmentFits(ctx), ClientKnows(ctx), IsInputState(ctx),
         NEW m \in Position, NEW r \in Arriving, r.type = "handshake",
         NEW p, p = Reached(srv.suite, ctx), p \in Position, RecordMoves(srv.suite, r, p, m),
         NEW in, Coming(srv, m, in), \A i \in 1 .. Len(in) : NotEarly(srv, in[i]),
         NEW d, d = IF ctx.readOn THEN AfterRead(ctx) ELSE ctx
  PROVE  /\ ctx.readOn => Opens(ctx, r)
         /\ ~ctx.readOn => r.key = Plain
         /\ FlowsFor(d, "record", r.body, status, toServer, in)
<1> DEFINE suite == srv.suite
           bytes == r.body
<1>1. /\ p.n < Before(suite, "none") /\ p.n \in Nat /\ Before(suite, "none") \in Nat
      /\ p.key = (IF ctx.readOn THEN ctx.readKey ELSE Plain) /\ p.seq = ctx.readSeq
      /\ ctx.readOn => ctx.readKey # Plain
  BY InputPlace
<1>2. /\ bytes # <<>> /\ Runs(suite, bytes, p.n, p.key) /\ r.key = p.key /\ r.seq = p.seq
      /\ m.n = p.n + Len(bytes) /\ Clean(suite, m.n)
      /\ m.key = KeyAfter(suite, m.n, p.key)
      /\ m.seq = IF m.key # p.key THEN 0 ELSE IF p.key = Plain THEN p.seq ELSE p.seq + 1
  <2>1. Incoming(suite, r, p, m)
    BY <1>1, IncomingRun
  <2> QED
    BY <2>1 DEF Incoming
<1>3. (ctx.readOn => Opens(ctx, r)) /\ (~ctx.readOn => r.key = Plain)
  BY <1>1, <1>2 DEF Opens
<1> DEFINE q == Reached(suite, d)
<1>4. /\ ClientKnows(d) /\ d.state = ctx.state /\ d.writeSeq = ctx.writeSeq
      /\ q.n = p.n /\ q.key = p.key
      /\ q.seq = IF p.key = Plain THEN p.seq ELSE p.seq + 1
  <2>1. CASE ~ctx.readOn
    BY <1>1, <2>1
  <2>2. CASE ctx.readOn
    <3>1. Counted(ctx, d) /\ d = AfterRead(ctx)
      BY <2>2, AfterReadAs DEF InUse
    <3>2. ClientKnows(d) /\ q.n = p.n /\ q.key = p.key
      BY <3>1, CountedKnows
    <3>3. ~SendsFinished13(ctx.state)
      BY DEF SendsFinished13, IsInputState, IsInputState12, IsInputState13
    <3>4. q.seq = d.readSeq /\ d.readSeq = ctx.readSeq + 1
      BY <3>1, <3>3 DEF Reached, Counted
    <3> QED
      BY <1>1, <2>2, <3>1, <3>2, <3>4 DEF Counted
  <2> QED
    BY <2>1, <2>2
<1> HIDE DEF bytes
<1>5. PayloadFits(suite, d, "record", bytes)
  BY <1>2, <1>4 DEF PayloadFits, RecordFits
<1>6. AheadOf(suite, d, "record", bytes) = m
  <2> DEFINE n == q.n + Len(bytes)
  <2>1. n = m.n
    BY <1>2, <1>4
  <2>2. AheadOf(suite, d, "record", bytes) = After(suite, q, n)
    BY DEF AheadOf
  <2> HIDE DEF q, n
  <2>3. After(suite, q, n) =
          [n |-> n, key |-> KeyAfter(suite, n, q.key),
           seq |-> IF KeyAfter(suite, n, q.key) = q.key THEN q.seq ELSE 0]
    BY DEF After
  <2>4. KeyAfter(suite, n, q.key) = m.key
    BY <1>2, <1>4, <2>1
  <2>5. m.seq = IF KeyAfter(suite, n, q.key) = q.key THEN q.seq ELSE 0
    BY <1>2, <1>4, <2>1, <2>4
  <2>6. m = [n |-> n, key |-> KeyAfter(suite, n, q.key),
             seq |-> IF KeyAfter(suite, n, q.key) = q.key THEN q.seq ELSE 0]
    BY <2>1, <2>4, <2>5, SamePosition
  <2> QED
    BY <2>2, <2>3, <2>6
<1>7. /\ ctx.state \notin {"SENDING_CLIENT_HELLO", "SENDING_CLOSE_NOTIFY", "CONNECTION_CLOSED"}
      /\ Writes(suite, d.state) = Writes(suite, ctx.state)
      /\ Coming(srv, AheadOf(suite, d, "record", bytes), in)
  BY <1>4, <1>6 DEF InUse
<1>8. FlowsFor(d, "record", bytes, status, toServer, in)
  BY <1>4, <1>5, <1>7, ClientReads
<1> QED
  BY <1>3, <1>8 DEF bytes

\* The change of ciphers comes when the client waits for it, and in TLS 1.3 it
\* changes nothing.
LEMMA CipherChanged ==
  ASSUME IInv, Flows, status \notin Failures, srv.suite # "none", call = "input",
         InUse(ctx), FragmentFits(ctx), ClientKnows(ctx), IsInputState(ctx),
         NEW m \in Position, NEW r \in Arriving, r.type = "change_cipher_spec", NotEarly(srv, r),
         NEW p, p = Reached(srv.suite, ctx), p \in Position, RecordMoves(srv.suite, r, p, m),
         NEW in, Coming(srv, m, in), \A i \in 1 .. Len(in) : NotEarly(srv, in[i])
  PROVE  \E d : /\ ProcessChangeCipherSpec(ctx) = {d}
                /\ FlowsFor(d, "input", payload, status, toServer, in)
<1> DEFINE suite == srv.suite
<1>0. /\ ctx \in Context /\ StateFits(ctx) /\ KeysFit(ctx)
      /\ ctx.state \notin {"SENDING_CLIENT_HELLO", "SENDING_CLOSE_NOTIFY", "CONNECTION_CLOSED"}
  BY DEF InUse
<1>1. /\ p.n < Before(suite, "none") /\ p.n \in Nat /\ Before(suite, "none") \in Nat
      /\ p.key = (IF ctx.readOn THEN ctx.readKey ELSE Plain) /\ p.seq = ctx.readSeq
      /\ suite # "tls13" /\ p.n = Before(suite, "finished") /\ p.key = Plain =>
           ctx.state = "TLS1_2_EXPECTING_CHANGE_CIPHER_SPEC"
      /\ suite = "tls13" /\ p.key = HsKey("server") => Is13(ctx)
  BY InputPlace
<1>2. /\ m.n = p.n /\ m.seq = IF m.key # p.key THEN 0 ELSE p.seq
      /\ \/ /\ suite # "tls13" /\ p.n = Before(suite, "finished")
            /\ p.key = Plain /\ m.key = SessionKey12("server")
         \/ /\ suite = "tls13" /\ p.n = Before(suite, "encrypted_extensions")
            /\ p.key = HsKey("server") /\ m.key = p.key
  <2>1. Incoming(suite, r, p, m)
    BY <1>1, IncomingRun
  <2> QED
    BY <2>1 DEF Incoming
<1>3. ASSUME NEW d, d.state \notin {"SENDING_CLIENT_HELLO", "SENDING_CLOSE_NOTIFY", "CONNECTION_CLOSED"},
             ClientKnows(d), d.writeSeq = ctx.writeSeq,
             Writes(suite, d.state) = Writes(suite, ctx.state), Reached(suite, d) = m
      PROVE  FlowsFor(d, "input", payload, status, toServer, in)
  <2>1. PayloadFits(suite, d, "input", payload) /\ AheadOf(suite, d, "input", payload) = m
    BY <1>3 DEF PayloadFits, AheadOf
  <2>2. Coming(srv, AheadOf(suite, d, "input", payload), in)
    BY <2>1
  <2> QED
    BY <1>0, <1>3, <2>1, <2>2, ClientReads
<1>4. CASE suite = "tls13"
  <2>1. Is13(ctx) /\ HandshakeInProgress(ctx)
    <3>1. ctx.state # "HANDSHAKE_COMPLETE"
      BY DEF IsInputState, IsInputState12, IsInputState13
    <3> QED
      BY <1>0, <1>1, <1>2, <1>4, <3>1, InProgress
  <2>2. ProcessChangeCipherSpec(ctx) = {ctx}
    BY <2>1 DEF ProcessChangeCipherSpec, When
  <2>3. m.n = p.n /\ m.key = p.key /\ m.seq = p.seq
    BY <1>2, <1>4
  <2>4. m = p
    BY <2>3 DEF Position
  <2> QED
    BY <1>0, <1>3, <2>2, <2>4
<1>5. CASE suite # "tls13"
  <2>1. /\ ctx.state = "TLS1_2_EXPECTING_CHANGE_CIPHER_SPEC" /\ ~Is13(ctx)
        /\ p.n = Before(suite, "finished") /\ p.key = Plain /\ m.key = SessionKey12("server")
        /\ ctx.suite = suite
    BY <1>0, <1>1, <1>2, <1>5 DEF StateFits, ConnectStates12, Is13
  <2> DEFINE t == TRUE
             d == [ctx EXCEPT !.state = "TLS1_2_EXPECTING_FINISHED", !.readOn = t]
  <2>2. ProcessChangeCipherSpec(ctx) = {d}
    BY <2>1 DEF ProcessChangeCipherSpec, When
  <2>t. t
    OBVIOUS
  <2> HIDE DEF t
  <2>3. /\ d.state = "TLS1_2_EXPECTING_FINISHED" /\ d.suite = ctx.suite
        /\ d.transcript = ctx.transcript /\ d.readOn = t /\ d.writeOn = ctx.writeOn
        /\ d.readKey = ctx.readKey /\ d.writeKey = ctx.writeKey
        /\ d.readSeq = ctx.readSeq /\ d.writeSeq = ctx.writeSeq /\ d.frag = ctx.frag
    BY <1>0 DEF Context
  <2> HIDE DEF d
  <2>4. ctx.frag = NoFragment /\ ~ctx.readOn /\ ctx.readSeq = 0
    BY <1>0, <2>1 DEF ClientKnows, FragmentKnown, ReadStates, KeysFit
  <2>5. ClientKnows(d)
    <3>1. Heard(ctx.suite, ctx.state) = Heard(d.suite, d.state)
      BY <2>1, <2>3 DEF Heard
    <3>2. Full12(d.suite)
      BY <1>5, <2>1, <2>3 DEF NotEarly, Full12
    <3> QED
      BY <2>1, <2>3, <2>4, <3>1, <3>2
      DEF ClientKnows, FragmentKnown, ConnectStates12, ConnectStates13, InTheClear
  <2>6. ctx.readKey = SessionKey12("server")
    BY <1>0, <2>1 DEF KeysFit
  <2>7. Reached(suite, d) = m
    <3>1. m.n = Before(suite, "finished") /\ m.seq = 0
      <4>1. m.key # p.key
        BY <2>1, KeysDiffer DEF Side
      <4> QED
        BY <1>2, <2>1, <4>1
    <3>2. m = [n |-> Before(suite, "finished"), key |-> SessionKey12("server"), seq |-> 0]
      BY <2>1, <3>1, SamePosition
    <3>3. Before(suite, "finished") + 0 = Before(suite, "finished")
      BY <1>1, <2>1
    <3>4. Reached(suite, d) =
            [n |-> Before(suite, "finished") + 0, key |-> SessionKey12("server"), seq |-> 0]
      BY <2>3, <2>t, <2>4, <2>6, Waits DEF Reached, SendsFinished13
    <3> QED
      BY <3>2, <3>3, <3>4
  <2>8. Writes(suite, d.state) = Writes(suite, ctx.state)
    BY <2>1, <2>3 DEF Writes
  <2>9. FlowsFor(d, "input", payload, status, toServer, in)
    BY <1>3, <2>3, <2>5, <2>7, <2>8
  <2> QED
    BY <2>2, <2>9
<1> QED
  BY <1>4, <1>5

LEMMA ProcessIncomingRecordFlows ==
  ASSUME IInv, Flows, ProcessIncomingRecord
  PROVE  Flows'
<1> DEFINE r == Head(toClient)
           sealed == ctx.readOn /\ r.type # "change_cipher_spec"
           opened == IF sealed THEN AfterRead(ctx) ELSE ctx
<1>1. /\ call = "input" /\ avail > 0 /\ IsInputState(ctx) /\ toClient' = Tail(toClient)
      /\ UNCHANGED <<srv, toServer>>
      /\ IF (sealed /\ ~Opens(ctx, r)) \/ (~sealed /\ r.key # Plain) \/ r.type = "data"
         THEN /\ ctx' = IF sealed /\ Opens(ctx, r) THEN opened ELSE ctx
              /\ Return("illegal")
         ELSE CASE r.type = "handshake" ->
                     /\ ctx' = opened
                     /\ payload' = r.body /\ call' = "record"
                     /\ UNCHANGED <<status, avail>>
                [] r.type = "change_cipher_spec" ->
                     IF ProcessChangeCipherSpec(opened) = {} THEN UNCHANGED ctx /\ Return("illegal")
                     ELSE /\ ctx' \in ProcessChangeCipherSpec(opened)
                          /\ avail' = avail - 1
                          /\ UNCHANGED <<call, payload, status>>
                [] r.type = "close_notify" ->
                     /\ ctx' = [opened EXCEPT !.state = "CONNECTION_CLOSED"]
                     /\ Return(IF sealed THEN "illegal" ELSE "expired")
  <2> HIDE DEF IInv, Flows
  <2> QED
    BY Zenon DEF ProcessIncomingRecord
<1>2. /\ avail \in Nat /\ avail <= Len(toClient) /\ status \notin Failures
      /\ ctx.state \notin {"SENDING_CLIENT_HELLO", "SENDING_CLOSE_NOTIFY", "CONNECTION_CLOSED"}
  BY <1>1 DEF IInv, Typed, CallFits, Flows, FlowsFor
<1>3. /\ toClient # <<>> /\ r \in Arriving /\ toClient \in Seq(Arriving)
      /\ Tail(toClient) \in Seq(Arriving) /\ srv.suite # "none"
  BY <1>1, <1>2, BufferFacts DEF IInv, Typed, ServerFits
<1>4. InUse(ctx) /\ FragmentFits(ctx) /\ ctx.readOn \in BOOLEAN /\ ctx \in Context
  BY <1>2, InUseFits DEF IInv, Typed, Context
<1>5. Sends(ctx, status) /\ Reads(ctx, status)
  BY <1>2 DEF Sends, Reads
<1> DEFINE p == Reached(srv.suite, ctx)
<1>6. /\ ClientKnows(ctx) /\ Coming(srv, p, toClient)
      /\ \A i \in 1 .. Len(toClient) : NotEarly(srv, toClient[i])
  BY <1>1, <1>3, <1>5 DEF Flows, FlowsFor, AheadOf
<1> HIDE DEF p
<1>7. PICK m \in Position : /\ p \in Position
                            /\ RecordMoves(srv.suite, Head(toClient), p, m)
                            /\ Coming(srv, m, Tail(toClient))
  BY <1>3, <1>6, ComingHead
<1>m. m \in Position
  BY <1>7
<1>8. /\ NotEarly(srv, r)
      /\ \A i \in 1 .. Len(Tail(toClient)) : NotEarly(srv, Tail(toClient)[i])
  BY <1>3, <1>6, OnTimeTail
<1>9. /\ p.n < Before(srv.suite, "none") /\ p.n \in Nat /\ Before(srv.suite, "none") \in Nat
      /\ p.key = (IF ctx.readOn THEN ctx.readKey ELSE Plain) /\ p.seq = ctx.readSeq
  BY <1>1, <1>3, <1>4, <1>6, InputPlace DEF p
<1> DEFINE in == Tail(toClient)
<1>10. RecordMoves(srv.suite, r, p, m) /\ Coming(srv, m, in)
  BY <1>7
<1> HIDE DEF sealed, opened, r, in
<1>11. /\ r.type # "data" /\ r.type \in RecordType
       /\ r.type = "close_notify" => r.key = p.key /\ r.seq = p.seq
  <2>1. Incoming(srv.suite, r, p, m)
    BY <1>9, <1>10, IncomingRun
  <2> QED
    BY <1>3, <2>1 DEF Incoming, Arriving
<1>12. \A i \in 1 .. Len(in) : NotEarly(srv, in[i])
  BY <1>8 DEF in
<1>13. toClient' = in
  BY <1>1 DEF in
<1>14. CASE r.type = "handshake"
  <2>1. (sealed <=> ctx.readOn) /\ opened = IF ctx.readOn THEN AfterRead(ctx) ELSE ctx
    BY <1>14 DEF sealed, opened
  <2>2. /\ ctx.readOn => Opens(ctx, r)
        /\ ~ctx.readOn => r.key = Plain
        /\ FlowsFor(opened, "record", r.body, status, toServer, in)
    BY <1>1, <1>2, <1>3, <1>4, <1>6, <1>7, <1>m, <1>10, <1>12, <1>14, <2>1, RunOpened DEF p
  <2>3. ctx' = opened /\ payload' = r.body /\ call' = "record" /\ status' = status
    BY <1>1, <1>11, <1>14, <2>1, <2>2
  <2>4. FlowsFor(ctx', call', payload', status', toServer', toClient')
    BY <1>1, <1>13, <2>2, <2>3
  <2> QED
    BY <1>1, <2>4, ClientStepFlows
<1>15. CASE r.type = "change_cipher_spec"
  <2>1. ~sealed /\ opened = ctx
    BY <1>15 DEF sealed, opened
  <2>2. r.key = Plain
    BY <1>3, <1>15 DEF Arriving
  <2>3. PICK d : /\ ProcessChangeCipherSpec(ctx) = {d}
                 /\ FlowsFor(d, "input", payload, status, toServer, in)
    BY <1>1, <1>2, <1>3, <1>4, <1>6, <1>7, <1>m, <1>8, <1>10, <1>12, <1>15, CipherChanged DEF p
  <2>4. ctx' \in ProcessChangeCipherSpec(opened) /\ UNCHANGED <<call, payload, status>>
    <3>1. ProcessChangeCipherSpec(opened) # {}
      BY <2>1, <2>3
    <3> QED
      BY <1>1, <1>11, <1>15, <2>1, <2>2, <3>1
  <2>5. ctx' = d
    BY <2>1, <2>3, <2>4
  <2>6. FlowsFor(ctx', call', payload', status', toServer', toClient')
    BY <1>1, <1>13, <2>3, <2>4, <2>5
  <2> QED
    BY <1>1, <2>6, ClientStepFlows
<1>16. CASE r.type = "close_notify"
  <2>1. sealed <=> ctx.readOn
    BY <1>16 DEF sealed
  <2>2. (ctx.readOn => Opens(ctx, r)) /\ (~ctx.readOn => r.key = Plain)
    BY <1>9, <1>11, <1>16 DEF Opens
  <2>3. /\ ctx' = [opened EXCEPT !.state = "CONNECTION_CLOSED"]
        /\ Return(IF sealed THEN "illegal" ELSE "expired")
    BY <1>1, <1>11, <1>16, <2>1, <2>2
  <2>4. opened \in Context
    BY <1>4, AfterReadAs DEF opened, Counted
  <2>5. ctx'.state = "CONNECTION_CLOSED" /\ call' = "idle"
    BY <2>3, <2>4 DEF Context, Return
  <2>6. srv.state = "closed"
    BY <1>8, <1>16 DEF NotEarly
  <2>7. \A i \in 1 .. Len(toClient') : NotEarly(srv, toClient'[i])
    BY <1>12, <1>13
  <2> QED
    BY <1>1, <2>5, <2>6, <2>7, CloseFlows
<1> QED
  BY <1>11, <1>14, <1>15, <1>16 DEF RecordType

\* A message after the handshake is whole, and changes nothing.
LEMMA LaterReads ==
  ASSUME NEW c \in Context, StateFits(c), c.suite = srv.suite, srv.suite # "none",
         c.state = "HANDSHAKE_COMPLETE", c.frag = NoFragment, ClientKnows(c),
         NEW bytes, bytes = Bytes(Later(srv.suite)), NEW o \in ProcessFragment(c, bytes)
  PROVE  /\ o.result = "ok" /\ o.rest = <<>> /\ o.ctx.state = c.state
         /\ ClientKnows(o.ctx) /\ o.ctx.writeSeq = c.writeSeq
         /\ Reached(srv.suite, o.ctx) = Reached(srv.suite, c)
<1> DEFINE m == Later(srv.suite)
<1>1. /\ m \in ServerMessage /\ m \in Message
      /\ srv.suite = "tls13" => m = "new_session_ticket"
      /\ srv.suite # "tls13" => m = "hello_request"
  BY DEF Later, ServerMessage, Message
<1> HIDE DEF m
<1>2. /\ bytes \in Seq(Byte) /\ Len(bytes) = Size(m) /\ bytes # <<>>
      /\ \A i \in 1 .. Size(m) : bytes[i] = <<m, i>>
  BY <1>1, BytesFacts DEF m
<1>3. /\ HeaderCb \in Nat /\ HeaderCb >= 1 /\ BodyCb[m] \in Nat
      /\ Size(m) = HeaderCb + BodyCb[m] /\ Size(m) \in Nat
  BY <1>1, Sizes
<1>4. HeaderRead(Taken(bytes, HeaderCb)) = {[type |-> m, need |-> BodyCb[m]]}
  <2>1. HeaderCb <= Len(bytes) /\ \A i \in 1 .. Len(bytes) : i <= Size(m) => bytes[i] = <<m, i>>
    BY <1>2, <1>3
  <2> QED
    BY <1>1, <1>2, <2>1, HeaderReads
<1> DEFINE rest == Dropped(bytes, HeaderCb)
           header == [type |-> m, need |-> BodyCb[m]]
<1>5. rest \in Seq(Byte) /\ Len(rest) = BodyCb[m]
  <2>1. HeaderCb \in Nat /\ HeaderCb <= Len(bytes) /\ Len(bytes) - HeaderCb = BodyCb[m]
    BY <1>2, <1>3
  <2> QED
    BY <1>2, <2>1, CutTyped
<1>6. o \in StartMessage(c, header, rest)
  <2>1. ~(Len(bytes) < HeaderCb)
    BY <1>2, <1>3
  <2>2. PICK h \in HeaderRead(Taken(bytes, HeaderCb)) : o \in StartMessage(c, h, rest)
    BY <2>1 DEF ProcessFragment
  <2> QED
    BY <1>4, <2>2
<1>7. header.type = m /\ header.need = BodyCb[m]
  OBVIOUS
<1> DEFINE body == Taken(rest, BodyCb[m])
           left == Dropped(rest, BodyCb[m])
<1> HIDE DEF header
<1>8. o \in Complete(c, m, body, left)
  <2>1. ~Split(header.need, rest)
    BY <1>3, <1>5, <1>7 DEF Split
  <2> HIDE DEF rest
  <2> QED
    BY <1>6, <1>7, <2>1, Zenon DEF StartMessage
<1>9. left = <<>>
  <2> HIDE DEF rest
  <2>1. BodyCb[m] \in Nat /\ BodyCb[m] <= Len(rest) /\ Len(rest) - BodyCb[m] = 0
    BY <1>3, <1>5
  <2>2. left \in Seq(Byte) /\ Len(left) = 0
    BY <1>5, <2>1, CutTyped
  <2> QED
    BY <2>2, EmptySeq
<1>10. body = Body(m)
  <2> DEFINE pre == Taken(bytes, HeaderCb)
  <2>1. /\ Body(m) \in Seq(Byte) /\ Len(Body(m)) = BodyCb[m]
        /\ \A i \in 1 .. BodyCb[m] : Body(m)[i] = <<m, HeaderCb + i>>
    BY <1>1, HeaderBody
  <2>2. rest \in Seq(Byte) /\ \A i \in 1 .. BodyCb[m] : rest[i] = bytes[HeaderCb + i]
    <3>1. HeaderCb + BodyCb[m] <= Len(bytes) /\ rest = SubSeq(bytes, HeaderCb + 1, HeaderCb + BodyCb[m])
      BY <1>2, <1>3 DEF Dropped
    <3> HIDE DEF rest
    <3> QED
      BY <1>2, <1>3, <3>1, PartOf
  <2> HIDE DEF rest
  <2>3. body \in Seq(Byte) /\ Len(body) = BodyCb[m] /\ \A i \in 1 .. BodyCb[m] : body[i] = rest[0 + i]
    <3>1. 0 + BodyCb[m] <= Len(rest) /\ body = SubSeq(rest, 0 + 1, 0 + BodyCb[m]) /\ 0 \in Nat
      BY <1>3, <1>5 DEF Taken
    <3> HIDE DEF body
    <3> QED
      BY <1>3, <2>2, <3>1, PartOf
  <2> HIDE DEF body
  <2>4. ASSUME NEW i \in 1 .. BodyCb[m] PROVE body[i] = Body(m)[i]
    <3>1. 0 + i = i /\ HeaderCb + i \in 1 .. Size(m)
      BY <1>3
    <3> QED
      BY <1>2, <2>1, <2>2, <2>3, <3>1
  <2> QED
    BY <2>1, <2>3, <2>4, SeqEqual
<1> HIDE DEF rest, body, left
<1> DEFINE done == [c EXCEPT !.frag = NoFragment]
<1>11. done = c
  BY DEF Context
<1>12. HandledBy(c, m) = {c}
  <2>1. CASE srv.suite = "tls13"
    BY <1>1, <2>1 DEF HandledBy, Is13, ProcessHandshakeMessage13, When, HandleNewSessionTicket13
  <2>2. CASE srv.suite # "tls13"
    BY <1>1, <2>2 DEF HandledBy, Is13, ProcessHandshakeMessage12, When, HandleHelloRequest12
  <2> QED
    BY <2>1, <2>2
<1> DEFINE d == Keyed(Digested(c, m))
<1>13. ProcessHandshakeMessage(c, m) = {d}
  BY <1>12, OneOutcome
<1>14. o = Outcome("ok", d, <<>>)
  <2>1. o \in Complete(c, m, Body(m), <<>>)
    BY <1>8, <1>9, <1>10
  <2> HIDE DEF d
  <2> QED
    BY <1>1, <1>11, <1>13, <2>1 DEF Complete
<1>15. /\ Like(c, d) /\ d.state = c.state
       /\ d.readKey = c.readKey /\ d.writeKey = c.writeKey
  <2>1. ~c.savedHello /\ c.state # "TLS1_3_EXPECTING_ENCRYPTED_EXTENSIONS"
    BY DEF StateFits
  <2> QED
    BY <1>1, <2>1, DigestedAs
<1> HIDE DEF d
<1>16. ClientKnows(d)
  BY <1>15, CompleteKnows DEF Like
<1>17. Reached(srv.suite, d) = Reached(srv.suite, c)
  BY <1>15 DEF Reached, Like
<1>18. o.result = "ok" /\ o.rest = <<>> /\ o.ctx = d
  BY <1>14 DEF Outcome
<1> QED
  BY <1>15, <1>16, <1>17, <1>18 DEF Like

LEMMA ProcessMessageFlows ==
  ASSUME IInv, Flows, ProcessMessage
  PROVE  Flows'
<1>1. /\ call \in {"record", "post"} /\ UNCHANGED <<srv, toServer, toClient>>
  BY DEF ProcessMessage
<1>2. PICK o \in ProcessFragment(ctx, payload) :
        CASE o.result = "ok" /\ o.rest # <<>> ->
               ctx' = o.ctx /\ payload' = o.rest /\ UNCHANGED <<call, avail, status>>
          [] o.result = "ok" /\ o.rest = <<>> /\ call = "record" ->
               /\ ctx' = o.ctx /\ payload' = <<>>
               /\ call' = "input" /\ avail' = avail - 1
               /\ UNCHANGED status
          [] o.result = "ok" /\ o.rest = <<>> /\ call = "post" ->
               ctx' = o.ctx /\ Return("ok")
          [] o.result # "ok" /\ call = "record" ->
               ctx' = o.ctx /\ Return(IF o.result = "incomplete" THEN "continue" ELSE o.result)
          [] o.result # "ok" /\ call = "post" ->
               ctx' = [o.ctx EXCEPT !.state = "CONNECTION_CLOSED"] /\ Return(o.result)
  BY DEF ProcessMessage
<1>m. o \in ProcessFragment(ctx, payload)
  BY <1>2
<1>3. /\ ctx.state \notin {"SENDING_CLIENT_HELLO", "SENDING_CLOSE_NOTIFY", "CONNECTION_CLOSED"}
      /\ call = "post" => ctx.state = "HANDSHAKE_COMPLETE"
      /\ srv.state # "expecting_hello" /\ srv.suite # "none" /\ status \notin Failures
      /\ payload \in Seq(Byte) /\ Typed /\ ServerFits
  BY <1>1 DEF IInv, Typed, CallFits, ServerFits, Flows, FlowsFor
<1>4. InUse(ctx) /\ FragmentFits(ctx) /\ Sends(ctx, status) /\ Reads(ctx, status)
  BY <1>3, InUseFits DEF Sends, Reads
<1>5. Iterates(ctx, o)
  BY <1>3, <1>4, <1>m, FragmentKeeps
<1>6. /\ o.ctx.state \notin {"SENDING_CLIENT_HELLO", "SENDING_CLOSE_NOTIFY", "CONNECTION_CLOSED"}
  BY <1>5 DEF Iterates, InUse
<1> DEFINE suite == srv.suite
           p == Reached(suite, ctx)
<1>7. /\ ClientKnows(ctx) /\ PayloadFits(suite, ctx, call, payload) /\ ServerKnows
      /\ Coming(srv, AheadOf(suite, ctx, call, payload), toClient)
      /\ \A i \in 1 .. Len(toClient) : NotEarly(srv, toClient[i])
  BY <1>3, <1>4 DEF Flows, FlowsFor
\* What the step leaves right when the client goes on.
<1>8. ASSUME NEW d, d = o.ctx, ClientKnows(d), d.writeSeq = ctx.writeSeq,
             Writes(suite, d.state) = Writes(suite, ctx.state),
             NEW where, NEW bytes, PayloadFits(suite, d, where, bytes),
             AheadOf(suite, d, where, bytes) = AheadOf(suite, ctx, call, payload),
             NEW result, result \notin Failures,
             ctx' = d, call' = where, payload' = bytes, status' = result
      PROVE  Flows'
  <2>1. Coming(srv, AheadOf(suite, d, where, bytes), toClient)
    BY <1>7, <1>8
  <2>2. FlowsFor(d, where, bytes, result, toServer, toClient)
    BY <1>3, <1>6, <1>7, <1>8, <2>1, ClientReads
  <2>3. FlowsFor(ctx', call', payload', status', toServer', toClient')
    BY <1>1, <1>8, <2>2
  <2> QED
    BY <1>1, <2>3, ClientStepFlows
<1>9. CASE call = "post"
  <2>1. payload = Bytes(Later(suite))
    BY <1>7, <1>9 DEF PayloadFits
  <2>2. /\ ctx \in Context /\ StateFits(ctx) /\ ctx.suite = srv.suite /\ ctx.frag = NoFragment
        /\ ctx.state = "HANDSHAKE_COMPLETE"
    BY <1>3, <1>4, <1>7, <1>9 DEF InUse, StateFits, ClientKnows, FragmentKnown, ReadStates
  <2>3. /\ o.result = "ok" /\ o.rest = <<>> /\ o.ctx.state = ctx.state
        /\ ClientKnows(o.ctx) /\ o.ctx.writeSeq = ctx.writeSeq
        /\ Reached(suite, o.ctx) = p
    BY <1>3, <1>7, <1>m, <2>1, <2>2, LaterReads
  <2>4. ctx' = o.ctx /\ Return("ok")
    BY <1>2, <1>9, <2>3
  <2>5. call' = "idle" /\ status' = "ok" /\ payload' = <<>> /\ "ok" \notin Failures
    BY <2>4 DEF Return, Failures
  <2>6. /\ PayloadFits(suite, o.ctx, "idle", <<>>)
        /\ AheadOf(suite, o.ctx, "idle", <<>>) = AheadOf(suite, ctx, call, payload)
    BY <1>9, <2>3 DEF PayloadFits, AheadOf
  <2> QED
    BY <1>8, <2>3, <2>4, <2>5, <2>6
<1>10. CASE call = "record"
  <2> DEFINE n == p.n + Len(payload)
  <2>1. /\ payload # <<>> /\ Runs(suite, payload, p.n, p.key) /\ Clean(suite, n)
        /\ AheadOf(suite, ctx, call, payload) = After(suite, p, n)
    BY <1>7, <1>10 DEF PayloadFits, RecordFits, AheadOf
  <2> HIDE DEF n
  <2>2. Reading(ctx, o, n)
    <3> HIDE DEF p
    <3> QED
      BY <1>3, <1>4, <1>7, <1>m, <2>1, RecordReads DEF p, n
  <2> DEFINE q == Reached(suite, o.ctx)
  <2>3. CASE o.result = "no_memory"
    <3>1. ctx' = o.ctx /\ Return("no_memory")
      BY <1>2, <1>10, <2>3
    <3>2. ctx' = o.ctx /\ call' = "idle" /\ status' = "no_memory"
      BY <3>1 DEF Return
    <3>3. ~Sends(ctx', status') /\ ctx'.state # "SENDING_CLIENT_HELLO"
      BY <1>6, <3>2 DEF Sends, Failures
    <3>4. FlowsFor(ctx', call', payload', status', toServer, toClient)
      BY <1>7, <3>2, <3>3, Dead
    <3>5. FlowsFor(ctx', call', payload', status', toServer', toClient')
      BY <1>1, <3>4
    <3> QED
      BY <1>1, <3>5, ClientStepFlows
  <2>4. CASE /\ o.result = "incomplete" /\ ClientKnows(o.ctx)
             /\ o.ctx.state = ctx.state /\ o.ctx.suite = ctx.suite /\ o.ctx.writeSeq = ctx.writeSeq
             /\ q = After(suite, p, n)
    <3>1. ctx' = o.ctx /\ Return("continue")
      BY <1>2, <1>10, <2>4
    <3>2. call' = "idle" /\ status' = "continue" /\ payload' = <<>> /\ "continue" \notin Failures
      BY <3>1 DEF Return, Failures
    <3>3. /\ PayloadFits(suite, o.ctx, "idle", <<>>)
          /\ AheadOf(suite, o.ctx, "idle", <<>>) = AheadOf(suite, ctx, call, payload)
      BY <2>1, <2>4 DEF PayloadFits, AheadOf
    <3> QED
      BY <1>8, <2>4, <3>1, <3>2, <3>3
  <2>5. CASE /\ o.result = "ok" /\ MovesOn(ctx, o.ctx) /\ o.rest = <<>>
             /\ q = After(suite, p, n)
    <3>1. ctx' = o.ctx /\ payload' = <<>> /\ call' = "input" /\ status' = status
      BY <1>2, <1>10, <2>5
    <3>2. /\ PayloadFits(suite, o.ctx, "input", <<>>)
          /\ AheadOf(suite, o.ctx, "input", <<>>) = AheadOf(suite, ctx, call, payload)
      BY <2>1, <2>5 DEF PayloadFits, AheadOf
    <3>3. /\ ClientKnows(o.ctx) /\ o.ctx.writeSeq = ctx.writeSeq
          /\ Writes(suite, o.ctx.state) = Writes(suite, ctx.state)
      BY <2>5 DEF MovesOn
    <3> QED
      BY <1>3, <1>8, <3>1, <3>2, <3>3
  <2>6. CASE /\ o.result = "ok" /\ MovesOn(ctx, o.ctx) /\ o.rest # <<>>
             /\ Runs(suite, o.rest, q.n, q.key) /\ q.n + Len(o.rest) = n
             /\ After(suite, q, n) = After(suite, p, n)
    <3>1. ctx' = o.ctx /\ payload' = o.rest /\ call' = "record" /\ status' = status
      BY <1>2, <1>10, <2>6
    <3>2. /\ PayloadFits(suite, o.ctx, "record", o.rest)
          /\ AheadOf(suite, o.ctx, "record", o.rest) = AheadOf(suite, ctx, call, payload)
      BY <2>1, <2>6 DEF PayloadFits, RecordFits, AheadOf
    <3>3. /\ ClientKnows(o.ctx) /\ o.ctx.writeSeq = ctx.writeSeq
          /\ Writes(suite, o.ctx.state) = Writes(suite, ctx.state)
      BY <2>6 DEF MovesOn
    <3> QED
      BY <1>3, <1>8, <3>1, <3>2, <3>3
  <2> QED
    BY <2>2, <2>3, <2>4, <2>5, <2>6 DEF Reading
<1> QED
  BY <1>1, <1>9, <1>10

\* The record that a client whose handshake is over is to read.
IncomingLater(suite, r, p, m) ==
  /\ r.type \in {"handshake", "data", "close_notify"}
  /\ r.type = "handshake" => r.body = Bytes(Later(suite))
  /\ r.key = p.key /\ r.seq = p.seq
  /\ m.n = p.n /\ m.key = p.key /\ m.seq = p.seq + 1

LEMMA LaterComes ==
  ASSUME NEW suite \in Suite, NEW p, NEW m, p.n = Before(suite, "none"),
         p.key = DataKey(suite, "server"),
         NEW r \in Arriving, RecordMoves(suite, r, p, m)
  PROVE  IncomingLater(suite, r, p, m)
<1>1. /\ Moves(suite, r.type, r.key, r.body, p, m) /\ m.seq = NextSeq(r.type, p, m)
      /\ (r.type # "change_cipher_spec" => r.seq = p.seq)
  BY DEF RecordMoves
<1>2. p.key # Plain /\ ~(suite = "tls13" /\ p.key = HsKey("server"))
  BY KeysDiffer
<1>3. ~(r.body # <<>> /\ Runs(suite, r.body, p.n, p.key))
  <2>1. "none" \in Said(suite) \cup {"none"} /\ r.body \in Seq(Byte)
    BY DEF Arriving
  <2>2. Before(suite, "none") \in Nat
    BY <2>1, OffsetsTyped
  <2>3. SUFFICES ASSUME r.body # <<>>, Runs(suite, r.body, p.n, p.key) PROVE FALSE
    OBVIOUS
  <2>4. p.n < Before(suite, "none")
    <3> DEFINE n == p.n
               bytes == r.body
    <3>1. n \in Nat /\ bytes \in Seq(Byte) /\ bytes # <<>> /\ Runs(suite, bytes, n, p.key)
      BY <2>1, <2>2, <2>3
    <3> HIDE DEF n, bytes
    <3>2. n < Before(suite, "none")
      BY <3>1, RunEnds
    <3> QED
      BY <3>2 DEF n
  <2> QED
    BY <2>2, <2>4
<1>4. /\ r.type \in {"handshake", "data", "close_notify"}
      /\ r.type = "handshake" => r.body = Bytes(Later(suite))
      /\ r.key = p.key /\ m.n = p.n /\ m.key = p.key
  BY <1>1, <1>2, <1>3 DEF Moves
<1>5. m.seq = p.seq + 1 /\ r.seq = p.seq
  BY <1>1, <1>2, <1>4 DEF NextSeq
<1> QED
  BY <1>4, <1>5 DEF IncomingLater

\* Where a client is whose handshake is over.
LEMMA CompletePlace ==
  ASSUME srv \in ServerState, srv.suite # "none",
         NEW c, InUse(c), ClientKnows(c), c.state = "HANDSHAKE_COMPLETE",
         NEW p, p = Reached(srv.suite, c)
  PROVE  /\ srv.suite \in Suite /\ c.suite = srv.suite /\ c.frag = NoFragment
         /\ p.n = Before(srv.suite, "none") /\ p.key = DataKey(srv.suite, "server")
         /\ p.key = c.readKey /\ p.seq = c.readSeq
<1>1. srv.suite \in Suite
  BY SuiteAssumption DEF ServerState, Suite
<1>2. c.suite = srv.suite /\ c.readOn /\ c.readKey = DataKey(srv.suite, "server")
  BY DEF InUse, StateFits, KeysFit, ClientKnows
<1>3. c.frag = NoFragment
  BY DEF ClientKnows, FragmentKnown, ReadStates
<1>4. Before(srv.suite, "none") \in Nat
  <2>1. "none" \in Said(srv.suite) \cup {"none"}
    OBVIOUS
  <2> QED
    BY <1>1, <2>1, OffsetsTyped
<1>5. /\ p.n = Before(srv.suite, "none") + 0 /\ p.key = c.readKey /\ p.seq = c.readSeq
  BY <1>2, <1>3, Waits DEF Reached, SendsFinished13
<1> QED
  BY <1>1, <1>2, <1>3, <1>4, <1>5

LEMMA DecryptMessageFlows ==
  ASSUME IInv, Flows, DecryptMessage
  PROVE  Flows'
<1> DEFINE r == Head(toClient)
           in == Tail(toClient)
           suite == srv.suite
<1>1. /\ call = "idle" /\ status \notin Failures /\ ctx.state = "HANDSHAKE_COMPLETE"
      /\ UNCHANGED <<srv, toServer>>
      /\ toClient # <<>> /\ toClient' = in
      /\ IF ~Opens(ctx, r)
         THEN UNCHANGED ctx /\ Return("illegal")
         ELSE CASE r.type = "data" -> ctx' = AfterRead(ctx) /\ Return("ok")
                [] r.type = "close_notify" ->
                     /\ ctx' = [AfterRead(ctx) EXCEPT !.state = "CONNECTION_CLOSED"]
                     /\ Return("expired")
                [] r.type = "handshake" ->
                     /\ ctx' = AfterRead(ctx)
                     /\ payload' = r.body /\ call' = "post"
                     /\ UNCHANGED <<status, avail>>
  BY DEF DecryptMessage, Usable
<1>2. /\ r \in Arriving /\ toClient \in Seq(Arriving) /\ in \in Seq(Arriving)
      /\ srv.suite # "none" /\ srv \in ServerState /\ ctx \in Context
  BY <1>1, BufferFacts DEF IInv, Typed, ServerFits
<1>3. InUse(ctx) /\ Sends(ctx, status) /\ Reads(ctx, status)
  BY <1>1, InUseFits DEF Sends, Reads
<1> DEFINE p == Reached(suite, ctx)
<1>4. /\ ClientKnows(ctx) /\ Coming(srv, p, toClient)
      /\ \A i \in 1 .. Len(toClient) : NotEarly(srv, toClient[i])
  BY <1>1, <1>2, <1>3 DEF Flows, FlowsFor, AheadOf
<1>5. /\ suite \in Suite /\ ctx.suite = suite /\ ctx.frag = NoFragment
      /\ p.n = Before(suite, "none") /\ p.key = DataKey(suite, "server")
      /\ p.key = ctx.readKey /\ p.seq = ctx.readSeq
  <2> HIDE DEF p
  <2> QED
    BY <1>1, <1>2, <1>3, <1>4, CompletePlace DEF p
<1> HIDE DEF p
<1>6. PICK m \in Position : /\ p \in Position
                            /\ RecordMoves(suite, Head(toClient), p, m)
                            /\ Coming(srv, m, Tail(toClient))
  BY <1>1, <1>2, <1>4, ComingHead
<1>m. m \in Position /\ RecordMoves(suite, r, p, m) /\ Coming(srv, m, in)
  BY <1>6
<1>7. NotEarly(srv, r) /\ \A i \in 1 .. Len(in) : NotEarly(srv, in[i])
  BY <1>1, <1>2, <1>4, OnTimeTail
<1> HIDE DEF r, in
<1>8. IncomingLater(suite, r, p, m)
  BY <1>2, <1>5, <1>m, LaterComes
<1>9. Opens(ctx, r)
  BY <1>5, <1>8 DEF IncomingLater, Opens
<1> DEFINE d == AfterRead(ctx)
<1>10. Counted(ctx, d) /\ ClientKnows(d)
  BY <1>2, <1>4, AfterReadAs, CountedKnows
<1>11. Reached(suite, d) = m
  <2>1. /\ Reached(suite, d).n = p.n /\ Reached(suite, d).key = p.key
    BY <1>4, <1>10, CountedKnows DEF p
  <2>2. Reached(suite, d).seq = ctx.readSeq + 1
    BY <1>1, <1>10 DEF Reached, Counted, SendsFinished13
  <2>3. m.n = p.n /\ m.key = p.key /\ m.seq = ctx.readSeq + 1
    BY <1>5, <1>8 DEF IncomingLater
  <2>4. Reached(suite, d) = [n |-> Reached(suite, d).n, key |-> Reached(suite, d).key,
                             seq |-> Reached(suite, d).seq]
    BY DEF Reached
  <2> HIDE DEF d
  <2>5. m = [n |-> Reached(suite, d).n, key |-> Reached(suite, d).key,
             seq |-> Reached(suite, d).seq]
    BY <1>m, <2>1, <2>2, <2>3, SamePosition
  <2> QED
    BY <2>4, <2>5
<1> HIDE DEF d
<1>12. ASSUME NEW where \in {"idle", "post"}, NEW bytes,
              where = "post" => bytes = Bytes(Later(suite)),
              NEW result, result \notin Failures,
              ctx' = d, call' = where, payload' = bytes, status' = result
       PROVE  Flows'
  <2>1. PayloadFits(suite, d, where, bytes) /\ AheadOf(suite, d, where, bytes) = m
    BY <1>11, <1>12 DEF PayloadFits, AheadOf
  <2>2. Coming(srv, AheadOf(suite, d, where, bytes), in)
    BY <1>m, <2>1
  <2>3. /\ d.state = ctx.state /\ d.writeSeq = ctx.writeSeq
        /\ d.state \notin {"SENDING_CLIENT_HELLO", "SENDING_CLOSE_NOTIFY", "CONNECTION_CLOSED"}
        /\ ctx.state \notin {"SENDING_CLOSE_NOTIFY", "CONNECTION_CLOSED"}
        /\ Writes(suite, d.state) = Writes(suite, ctx.state)
    BY <1>1, <1>10 DEF Counted
  <2>4. FlowsFor(d, where, bytes, result, toServer, in)
    BY <1>1, <1>2, <1>7, <1>10, <1>12, <2>1, <2>2, <2>3, ClientReads
  <2>5. FlowsFor(ctx', call', payload', status', toServer', toClient')
    BY <1>1, <1>12, <2>4
  <2> QED
    BY <1>1, <2>5, ClientStepFlows
<1>13. CASE r.type = "data"
  <2>1. ctx' = d /\ Return("ok")
    BY <1>1, <1>9, <1>13 DEF d
  <2>2. call' = "idle" /\ payload' = <<>> /\ status' = "ok" /\ "ok" \notin Failures
    BY <2>1 DEF Return, Failures
  <2> QED
    BY <1>12, <2>1, <2>2
<1>14. CASE r.type = "handshake"
  <2>1. ctx' = d /\ payload' = r.body /\ call' = "post" /\ status' = status
    BY <1>1, <1>9, <1>14 DEF d
  <2>2. r.body = Bytes(Later(suite))
    BY <1>8, <1>14 DEF IncomingLater
  <2> QED
    BY <1>1, <1>12, <2>1, <2>2
<1>15. CASE r.type = "close_notify"
  <2>1. ctx' = [d EXCEPT !.state = "CONNECTION_CLOSED"] /\ Return("expired")
    BY <1>1, <1>9, <1>15 DEF d
  <2>2. ctx'.state = "CONNECTION_CLOSED" /\ call' = "idle"
    BY <1>10, <2>1 DEF Context, Return, Counted
  <2>3. srv.state = "closed"
    BY <1>7, <1>15 DEF NotEarly
  <2> QED
    BY <1>1, <1>7, <2>2, <2>3, CloseFlows
<1> QED
  BY <1>8, <1>13, <1>14, <1>15 DEF IncomingLater

-----------------------------------------------------------------------------
(* The server moves *)

LEMMA ChainOne ==
  ASSUME NEW q, Len(q) = 1, NEW a, NEW b, NEW G, <<q[1], a, b>> \in G
  PROVE  Chain(q, a, b, G)
<1> DEFINE ps == <<a, b>>
<1>1. ps[1] = a /\ ps[2] = b
  OBVIOUS
<1> HIDE DEF ps
<1>2. \A i \in 1 .. Len(q) : <<q[i], ps[i], ps[i + 1]>> \in G
  BY <1>1
<1> QED
  BY <1>1, <1>2 DEF Chain

LEMMA ChainTwo ==
  ASSUME NEW q, Len(q) = 2, NEW a, NEW m, NEW b, NEW G, <<q[1], a, m>> \in G, <<q[2], m, b>> \in G
  PROVE  Chain(q, a, b, G)
<1> DEFINE ps == <<a, m, b>>
<1>1. ps[1] = a /\ ps[2] = m /\ ps[3] = b
  OBVIOUS
<1> HIDE DEF ps
<1>2. ASSUME NEW i \in 1 .. Len(q) PROVE <<q[i], ps[i], ps[i + 1]>> \in G
  <2>1. (i = 1 /\ i + 1 = 2) \/ (i = 2 /\ i + 1 = 3)
    OBVIOUS
  <2>2. CASE i = 1 /\ i + 1 = 2
    <3>1. ps[i] = a /\ ps[i + 1] = m /\ q[i] = q[1]
      BY <1>1, <2>2
    <3> QED
      BY <3>1
  <2>3. CASE i = 2 /\ i + 1 = 3
    <3>1. ps[i] = m /\ ps[i + 1] = b /\ q[i] = q[2]
      BY <1>1, <2>3
    <3> QED
      BY <3>1
  <2> QED
    BY <2>1, <2>2, <2>3
<1>3. ps[Len(q) + 1] = b
  BY <1>1
<1> QED
  BY <1>1, <1>2, <1>3 DEF Chain

LEMMA ChainThree ==
  ASSUME NEW q, Len(q) = 3, NEW a, NEW m, NEW n, NEW b, NEW G,
         <<q[1], a, m>> \in G, <<q[2], m, n>> \in G, <<q[3], n, b>> \in G
  PROVE  Chain(q, a, b, G)
<1> DEFINE ps == <<a, m, n, b>>
<1>1. ps[1] = a /\ ps[2] = m /\ ps[3] = n /\ ps[4] = b
  OBVIOUS
<1> HIDE DEF ps
<1>2. ASSUME NEW i \in 1 .. Len(q) PROVE <<q[i], ps[i], ps[i + 1]>> \in G
  <2>1. (i = 1 /\ i + 1 = 2) \/ (i = 2 /\ i + 1 = 3) \/ (i = 3 /\ i + 1 = 4)
    OBVIOUS
  <2>2. CASE i = 1 /\ i + 1 = 2
    <3>1. ps[i] = a /\ ps[i + 1] = m /\ q[i] = q[1]
      BY <1>1, <2>2
    <3> QED
      BY <3>1
  <2>3. CASE i = 2 /\ i + 1 = 3
    <3>1. ps[i] = m /\ ps[i + 1] = n /\ q[i] = q[2]
      BY <1>1, <2>3
    <3> QED
      BY <3>1
  <2>4. CASE i = 3 /\ i + 1 = 4
    <3>1. ps[i] = n /\ ps[i + 1] = b /\ q[i] = q[3]
      BY <1>1, <2>4
    <3> QED
      BY <3>1
  <2> QED
    BY <2>1, <2>2, <2>3, <2>4
<1>3. ps[Len(q) + 1] = b
  BY <1>1
<1> QED
  BY <1>1, <1>2, <1>3 DEF Chain

\* A step of the server leaves the client alone.
LEMMA ServerStepFlows ==
  ASSUME Flows, UNCHANGED <<ctx, call, payload, status>>,
         srv.state = "closed" => srv'.state = "closed",
         Sends(ctx, status) /\ ctx.state = "TLS1_2_EXPECTING_FINISHED" => Full12(ctx.suite)',
         Reads(ctx, status) => PayloadFits(srv'.suite, ctx, call, payload),
         Reads(ctx, status) /\ srv'.suite = "none" => ctx.frag = NoFragment,
         \A i \in 1 .. Len(toClient') : NotEarly(srv', toClient'[i]),
         Reads(ctx, status) /\ srv'.suite # "none" =>
           Coming(srv', AheadOf(srv'.suite, ctx, call, payload), toClient'),
         Outgoing(srv', ctx, status, toServer'),
         Fresh(srv'), ServerKnows', UnsentOnTime(srv')
  PROVE  Flows'
<1>1. Sends(ctx, status) => ClientKnows(ctx)'
  <2>1. Sends(ctx, status) => ClientKnows(ctx)
    BY DEF Flows, FlowsFor
  <2> QED
    BY <2>1 DEF ClientKnows, FragmentKnown
<1>2. /\ call \in {"input", "record", "post"} => status \notin Failures
      /\ status \in {"illegal", "incomplete"} => srv'.state = "closed"
      /\ ctx.state = "SENDING_CLIENT_HELLO" => ctx = NewContext /\ status = "none"
  BY DEF Flows, FlowsFor
<1>3. FlowsFor(ctx, call, payload, status, toServer, toClient)'
  BY <1>1, <1>2 DEF FlowsFor
<1> QED
  BY <1>3 DEF Flows

\* The same when the suite is chosen and the proof of the server is what it was
\* or what the client waits for.
LEMMA ServerMoves ==
  ASSUME IInv, Flows, UNCHANGED <<ctx, call, payload, status>>,
         srv.suite # "none", srv'.suite = srv.suite,
         srv.state = "closed" => srv'.state = "closed",
         \/ srv'.verify = srv.verify
         \/ srv'.verify = Proof(SessionKey12("server"), Heard(srv.suite, "TLS1_2_EXPECTING_FINISHED")),
         \A i \in 1 .. Len(toClient') : NotEarly(srv', toClient'[i]),
         Reads(ctx, status) => Coming(srv', AheadOf(srv.suite, ctx, call, payload), toClient'),
         Outgoing(srv', ctx, status, toServer'),
         ServerKnows', UnsentOnTime(srv')
  PROVE  Flows'
<1>1. Sends(ctx, status) /\ ctx.state = "TLS1_2_EXPECTING_FINISHED" => Full12(ctx.suite)'
  <2>1. SUFFICES ASSUME Sends(ctx, status), ctx.state = "TLS1_2_EXPECTING_FINISHED"
                 PROVE  Full12(ctx.suite)'
    OBVIOUS
  <2>2. Full12(ctx.suite)
    BY <2>1 DEF Flows, FlowsFor, ClientKnows
  <2>3. ctx.suite = srv.suite
    BY <2>1 DEF IInv, ClientFits, StateFits
  <2> QED
    BY <2>2, <2>3 DEF Full12
<1>2. Reads(ctx, status) => PayloadFits(srv'.suite, ctx, call, payload)
  BY DEF Flows, FlowsFor
<1>3. Fresh(srv')
  BY DEF Fresh
<1> QED
  BY <1>1, <1>2, <1>3, ServerStepFlows

\* A server that is past the choice of the suite waits for the same.
LEMMA OutgoingSrv ==
  ASSUME NEW s, NEW t, NEW c, NEW result, NEW q, Outgoing(s, c, result, q),
         s.state # "expecting_hello", t.suite = s.suite,
         t.state = "closed" \/ (t.state = s.state /\ t.readSeq = s.readSeq)
  PROVE  Outgoing(t, c, result, q)
<1>1. t.state = s.state /\ t.readSeq = s.readSeq => AwaitedTurn(t) = AwaitedTurn(s)
  BY DEF AwaitedTurn
<1>2. t.state # "expecting_hello"
  OBVIOUS
<1> QED
  BY <1>1, <1>2 DEF Outgoing

\* What the server may say at its place.
LEMMA OneItem ==
  ASSUME NEW s, NEW suite, suite = s.suite, NEW a, NEW q, NEW p \in Position,
         Chain(q, a, p, RecordLinks(suite)), NEW t, t.suite = suite,
         t.writeKey = s.writeKey, t.writeSeq = s.writeSeq, WriterAt(s, p),
         NEW item \in Item, t.unsent = <<item>>, NEW e \in Place,
         Moves(suite, item.type, item.key, item.bytes, PlaceOf(p), e),
         t.state # "closed" => e = EndPlace(t)
  PROVE  Coming(t, a, q)
<1>1. PlaceOf(p) \in Place
  BY DEF PlaceOf, Position, Place
<1>2. <<item, PlaceOf(p), e>> \in ItemLinks(suite)
  BY <1>1, ItemLink
<1> DEFINE u == t.unsent
<1>3. Len(u) = 1 /\ u[1] = item
  OBVIOUS
<1> HIDE DEF u
<1>4. Chain(u, PlaceOf(p), e, ItemLinks(suite))
  BY <1>2, <1>3, ChainOne
<1>5. WriterAt(t, p)
  BY DEF WriterAt
<1> QED
  BY <1>4, <1>5 DEF Coming, u

LEMMA ServerSpeakFlows ==
  ASSUME IInv, Flows, ServerSpeak
  PROVE  Flows'
<1>0. srv \in ServerState
  BY DEF IInv, Typed
<1> DEFINE suite == srv.suite
           own == DataKey(srv.suite, "server")
           data == ServerRecord("data", own)
           message == HandshakeRecord(own, Bytes(Later(srv.suite)))
<1>1. /\ srv.unsent = <<>> /\ srv.state \in {"open", "expecting_finished"}
      /\ srv.state = "open" \/ srv.suite = "tls13"
      /\ UNCHANGED <<ctx, call, payload, status, toServer, toClient>>
  BY DEF ServerSpeak
<1>2. srv.suite # "none" /\ srv.suite \in Suite
  BY <1>0, <1>1, SuiteAssumption DEF IInv, ServerFits, ServerState, Suite
<1>3. OwnKey = own
  <2>1. srv.suite = "tls13" => srv.transcript = Heard13
    BY DEF Flows, ServerKnows, ServerKnows13
  <2> QED
    BY <2>1 DEF OwnKey, DataKey, AppKey
<1>4. PICK item \in {data, message} : srv' = [srv EXCEPT !.unsent = <<item>>, !.said = srv.said + 1]
  BY <1>3 DEF ServerSpeak, Later
<1>5. own \in KeySet
  BY KeysTyped DEF Side
<1>6. data \in Item /\ data.type = "data" /\ data.key = own /\ data.bytes = <<>>
  <2>1. data.bytes = <<>>
    BY DEF ServerRecord
  <2> QED
    BY <1>5, <2>1, ServerRecordTyped DEF RecordType
<1>7. /\ message \in Item /\ message.type = "handshake" /\ message.key = own
      /\ message.bytes = Bytes(Later(srv.suite))
  <2> DEFINE m == Later(srv.suite)
  <2>1. m \in ServerMessage
    BY DEF ServerMessage, Later
  <2> HIDE DEF m
  <2>2. Bytes(m) \in Seq(Byte)
    BY <2>1, BytesTyped
  <2>3. message = HandshakeRecord(own, Bytes(m))
    BY DEF m
  <2>4. message.bytes = Bytes(m)
    BY <2>3 DEF HandshakeRecord
  <2> HIDE DEF message
  <2> QED
    BY <1>5, <2>2, <2>3, <2>4, HandshakeRecordTyped DEF m
<1> HIDE DEF data, message
<1>8. /\ item \in Item /\ item.type \notin {"change_cipher_spec", "close_notify"} /\ item.key = own
      /\ \/ item.type = "handshake" /\ item.bytes = Bytes(Later(suite))
         \/ item.type = "data" /\ item.bytes = <<>>
  BY <1>4, <1>6, <1>7
<1> DEFINE n == srv.said + 1
           unsent == <<item>>
<1>9. srv' = [srv EXCEPT !.unsent = unsent, !.said = n]
  BY <1>4
<1>10. Len(unsent) = 1 /\ unsent[1] = item
  OBVIOUS
<1> HIDE DEF n, unsent
<1>11. /\ srv'.unsent = unsent /\ srv'.state = srv.state /\ srv'.suite = srv.suite
       /\ srv'.transcript = srv.transcript /\ srv'.verify = srv.verify
       /\ srv'.signed = srv.signed /\ srv'.readKey = srv.readKey /\ srv'.readSeq = srv.readSeq
       /\ srv'.writeKey = srv.writeKey /\ srv'.writeSeq = srv.writeSeq
  BY <1>0, <1>9 DEF ServerState
<1>12. ServerKnows'
  BY <1>11 DEF Flows, ServerKnows, ServerKnows12, ServerKnows13, Full12
<1>13. UnsentOnTime(srv')
  <2>1. NotEarly(srv', item)
    BY <1>8 DEF NotEarly
  <2>2. \A i \in 1 .. Len(unsent) : i = 1
    BY <1>10
  <2> QED
    BY <1>8, <1>10, <1>11, <2>1, <2>2 DEF UnsentOnTime
<1>14. \A i \in 1 .. Len(toClient') : NotEarly(srv', toClient'[i])
  BY <1>1, <1>11 DEF Flows, FlowsFor, NotEarly
<1>15. Outgoing(srv', ctx, status, toServer')
  <2>1. Outgoing(srv, ctx, status, toServer)
    BY DEF Flows, FlowsFor
  <2>2. Outgoing(srv', ctx, status, toServer)
    BY <1>1, <1>11, <2>1, OutgoingSrv
  <2> QED
    BY <1>1, <2>2
<1>16. ASSUME Reads(ctx, status)
       PROVE  Coming(srv', AheadOf(srv.suite, ctx, call, payload), toClient')
  <2> DEFINE a == AheadOf(srv.suite, ctx, call, payload)
  <2>1. Coming(srv, a, toClient)
    BY <1>2, <1>16 DEF Flows, FlowsFor
  <2> HIDE DEF a
  <2>2. PICK p \in Position, e \in Place :
          /\ Chain(toClient, a, p, RecordLinks(srv.suite)) /\ WriterAt(srv, p)
          /\ Chain(srv.unsent, PlaceOf(p), e, ItemLinks(srv.suite))
          /\ srv.state # "closed" => e = EndPlace(srv)
    BY <2>1 DEF Coming
  <2>3. PlaceOf(p) = e
    BY <1>1, <2>2, ChainNothing
  <2>4. e = [n |-> Before(srv.suite, "none"), key |-> own] /\ e = EndPlace(srv)
    BY <1>1, <2>2 DEF EndPlace
  <2>5. e.n = Before(srv.suite, "none") /\ e.key = own
    BY <2>4
  <2>6. Moves(srv.suite, item.type, item.key, item.bytes, PlaceOf(p), e)
    BY <1>8, <2>3, <2>5 DEF Moves
  <2>7. EndPlace(srv') = EndPlace(srv)
    BY <1>11 DEF EndPlace
  <2>8. srv'.unsent = <<item>>
    BY <1>11 DEF unsent
  <2>9. Coming(srv', a, toClient)
    BY <1>8, <1>11, <2>2, <2>4, <2>6, <2>7, <2>8, OneItem
  <2> QED
    BY <1>1, <2>9 DEF a
<1> QED
  BY <1>1, <1>2, <1>11, <1>12, <1>13, <1>14, <1>15, <1>16, ServerMoves

\* The key of a close_notify is the one that the client has come to.
LEMMA CloseKeyHere ==
  ASSUME IInv, ServerKnows, UnsentOnTime(srv), srv.state \notin {"expecting_hello", "closed"},
         srv.unsent = <<>> => srv.state = "open",
         NEW p \in Place, NEW e \in Place, Chain(srv.unsent, p, e, ItemLinks(srv.suite)),
         e = EndPlace(srv)
  PROVE  CloseKey = p.key
<1> DEFINE u == srv.unsent
<1>0. srv \in ServerState /\ u \in Seq(Item)
  BY DEF IInv, Typed, ServerState
<1>1. CASE u = <<>>
  <2>1. p = e
    BY <1>1, ChainNothing
  <2>2. p.key = DataKey(srv.suite, "server")
    BY <1>1, <2>1 DEF EndPlace
  <2>3. srv.suite = "tls13" => srv.transcript = Heard13
    BY DEF ServerKnows, ServerKnows13
  <2>4. OwnKey = DataKey(srv.suite, "server")
    BY <2>3 DEF OwnKey, DataKey, AppKey
  <2> QED
    BY <1>1, <2>2, <2>4 DEF CloseKey
<1>2. CASE u # <<>>
  <2>1. PICK m : /\ <<Head(u), p, m>> \in ItemLinks(srv.suite)
                 /\ Chain(Tail(u), m, e, ItemLinks(srv.suite))
    BY <1>0, <1>2, ChainHead
  <2>2. /\ Head(u) \in Item /\ m \in Place
        /\ Moves(srv.suite, Head(u).type, Head(u).key, Head(u).bytes, p, m)
    BY <2>1, ItemLink
  <2>3. CASE Head(u).type # "change_cipher_spec"
    BY <1>2, <2>2, <2>3 DEF Moves, CloseKey
  <2>4. CASE Head(u).type = "change_cipher_spec" /\ srv.suite # "tls13"
    <3>1. Head(u).key = Plain
      BY <2>2, <2>4 DEF Item
    <3> QED
      BY <1>2, <2>2, <2>4, <3>1 DEF Moves, CloseKey
  <2>5. CASE Head(u).type = "change_cipher_spec" /\ srv.suite = "tls13"
    <3>1. Len(u) \in Nat /\ Len(u) > 0 /\ Head(u) = u[1]
      BY <1>0, <1>2, EmptySeq
    <3>2. Len(u) = 2 /\ u[2].type # "change_cipher_spec"
      <4>1. 1 \in 1 .. Len(u)
        BY <3>1
      <4>2. 1 + 1 = Len(u)
        BY <2>5, <3>1, <4>1 DEF UnsentOnTime
      <4>3. u[Len(u)].type # "change_cipher_spec"
        BY <1>2, <2>5 DEF IInv, ServerFits
      <4> QED
        BY <4>2, <4>3
    <3> DEFINE t == Tail(u)
    <3>3. t \in Seq(Item) /\ t # <<>> /\ Head(t) = u[2]
      <4>1. t \in Seq(Item) /\ Len(t) = 1 /\ t[1] = u[2]
        BY <1>0, <1>2, <3>2
      <4> HIDE DEF t
      <4>2. t # <<>>
        <5>1. t = <<>> => Len(t) = 0
          OBVIOUS
        <5> QED
          BY <4>1, <5>1
      <4>3. Head(t) = t[1]
        BY <4>1, <4>2
      <4> QED
        BY <4>1, <4>2, <4>3
    <3> HIDE DEF t
    <3>4. Chain(t, m, e, ItemLinks(srv.suite))
      BY <2>1 DEF t
    <3>5. PICK k : /\ <<Head(t), m, k>> \in ItemLinks(srv.suite)
                   /\ Chain(Tail(t), k, e, ItemLinks(srv.suite))
      BY <3>3, <3>4, ChainHead
    <3>6. Moves(srv.suite, Head(t).type, Head(t).key, Head(t).bytes, m, k)
      BY <3>5, ItemLink
    <3>7. Head(t).key = m.key
      BY <3>2, <3>3, <3>6 DEF Moves
    <3>8. m.key = p.key
      BY <2>2, <2>5 DEF Moves
    <3>9. CloseKey = u[2].key
      BY <1>2, <2>5 DEF CloseKey
    <3> QED
      BY <3>3, <3>7, <3>8, <3>9
  <2> QED
    BY <2>3, <2>4, <2>5
<1> QED
  BY <1>1, <1>2

LEMMA ServerCloseFlows ==
  ASSUME IInv, Flows, ServerClose
  PROVE  Flows'
<1>0. srv \in ServerState
  BY DEF IInv, Typed
<1> DEFINE item == ServerRecord("close_notify", CloseKey)
           unsent == <<item>>
<1>1. /\ srv.state \notin {"expecting_hello", "closed"}
      /\ srv.unsent = <<>> => srv.state = "open"
      /\ UNCHANGED <<ctx, call, payload, status, toServer, toClient>>
      /\ srv' = [srv EXCEPT !.state = "closed", !.unsent = unsent]
  BY DEF ServerClose
<1>2. srv.suite # "none" /\ srv.suite \in Suite
  BY <1>0, <1>1, SuiteAssumption DEF IInv, ServerFits, ServerState, Suite
<1>3. item.type = "close_notify" /\ item.key = CloseKey /\ item.bytes = <<>>
  BY DEF ServerRecord
<1>4. Len(unsent) = 1 /\ unsent[1] = item
  OBVIOUS
<1> HIDE DEF item, unsent
<1>5. /\ srv'.unsent = unsent /\ srv'.state = "closed" /\ srv'.suite = srv.suite
      /\ srv'.transcript = srv.transcript /\ srv'.verify = srv.verify
      /\ srv'.signed = srv.signed /\ srv'.readKey = srv.readKey /\ srv'.readSeq = srv.readSeq
      /\ srv'.writeKey = srv.writeKey /\ srv'.writeSeq = srv.writeSeq
  BY <1>0, <1>1 DEF ServerState
<1>6. ServerKnows'
  BY <1>5 DEF Flows, ServerKnows, ServerKnows12, ServerKnows13, Full12
<1>7. UnsentOnTime(srv')
  <2>1. NotEarly(srv', item)
    BY <1>3, <1>5 DEF NotEarly
  <2>2. \A i \in 1 .. Len(unsent) : i = 1
    BY <1>4
  <2> QED
    BY <1>3, <1>4, <1>5, <2>1, <2>2 DEF UnsentOnTime
<1>8. \A i \in 1 .. Len(toClient') : NotEarly(srv', toClient'[i])
  BY <1>1, <1>5 DEF Flows, FlowsFor, NotEarly
<1>9. Outgoing(srv', ctx, status, toServer')
  <2>1. Outgoing(srv, ctx, status, toServer)
    BY DEF Flows, FlowsFor
  <2>2. Outgoing(srv', ctx, status, toServer)
    BY <1>1, <1>5, <2>1, OutgoingSrv
  <2> QED
    BY <1>1, <2>2
<1>10. ASSUME Reads(ctx, status)
       PROVE  Coming(srv', AheadOf(srv.suite, ctx, call, payload), toClient')
  <2> DEFINE a == AheadOf(srv.suite, ctx, call, payload)
  <2>1. Coming(srv, a, toClient)
    BY <1>2, <1>10 DEF Flows, FlowsFor
  <2> HIDE DEF a
  <2>2. PICK p \in Position, e \in Place :
          /\ Chain(toClient, a, p, RecordLinks(srv.suite)) /\ WriterAt(srv, p)
          /\ Chain(srv.unsent, PlaceOf(p), e, ItemLinks(srv.suite))
          /\ srv.state # "closed" => e = EndPlace(srv)
    BY <2>1 DEF Coming
  <2>3. PlaceOf(p) \in Place /\ PlaceOf(p).key = p.key
    BY DEF PlaceOf, Position, Place
  <2>4. CloseKey = p.key
    BY <1>1, <2>2, <2>3, CloseKeyHere DEF Flows
  <2>5. item \in Item
    BY <1>3, <2>4, ServerRecordTyped DEF item, Position, RecordType
  <2>6. Moves(srv.suite, item.type, item.key, item.bytes, PlaceOf(p), PlaceOf(p))
    BY <1>3, <2>3, <2>4 DEF Moves
  <2>7. srv'.unsent = <<item>>
    BY <1>5 DEF unsent
  <2>8. Coming(srv', a, toClient)
    BY <1>5, <2>2, <2>3, <2>5, <2>6, <2>7, OneItem
  <2> QED
    BY <1>1, <2>8 DEF a
<1> QED
  BY <1>1, <1>2, <1>5, <1>6, <1>7, <1>8, <1>9, <1>10, ServerMoves

-----------------------------------------------------------------------------
(* The server sends *)

\* Where a record ends that does not end in a header.
LEMMA CutClean ==
  ASSUME NEW suite \in Suite, NEW key, NEW n \in Nat, NEW bytes \in Seq(Byte),
         Runs(suite, bytes, n, key), NEW k \in Nat, k < Len(bytes),
         bytes[k + 1][2] \notin 2 .. HeaderCb
  PROVE  Clean(suite, n + k)
<1> DEFINE x == bytes[k + 1]
<1>1. k + 1 \in 1 .. Len(bytes)
  OBVIOUS
<1>2. /\ x[1] \in Said(suite) /\ x[2] \in 1 .. Size(x[1])
      /\ Before(suite, x[1]) + x[2] = n + (k + 1)
  BY <1>1 DEF Runs
<1> HIDE DEF x
<1>3. SUFFICES ASSUME NEW m \in Said(suite), NEW j \in 1 .. HeaderCb, j < HeaderCb,
                      n + k = Before(suite, m) + j
               PROVE  FALSE
  BY DEF Clean
<1>4. /\ HeaderCb \in Nat /\ m \in ServerMessage /\ Size(m) \in Nat /\ HeaderCb <= Size(m)
      /\ Before(suite, m) \in Nat
  BY Sizes, OffsetsTyped
<1>5. j + 1 \in 1 .. Size(m) /\ j + 1 \in 2 .. HeaderCb
  BY <1>3, <1>4
<1>6. Before(suite, x[1]) + x[2] = Before(suite, m) + (j + 1)
  <2>1. n + (k + 1) = (n + k) + 1
    OBVIOUS
  <2>2. (Before(suite, m) + j) + 1 = Before(suite, m) + (j + 1)
    BY <1>4
  <2> QED
    BY <1>2, <1>3, <2>1, <2>2
<1>7. x[2] = j + 1
  BY <1>2, <1>5, <1>6, OnePlace
<1> QED
  BY <1>5, <1>7 DEF x

LEMMA KeyAfterTyped ==
  ASSUME NEW suite, NEW n, NEW key
  PROVE  /\ key \in KeySet => KeyAfter(suite, n, key) \in KeySet
         /\ KeyAfter(suite, n, key) # key => KeyAfter(suite, n, key) # Plain
<1>1. HsKey("server") # Plain /\ DataKey(suite, "server") # Plain
  BY KeysDiffer
<1>2. HsKey("server") \in KeySet /\ DataKey(suite, "server") \in KeySet
  BY KeysTyped DEF Side
<1> QED
  BY <1>1, <1>2 DEF KeyAfter

\* What sending a record makes of the key and the number of the server.
Counts(s, t, key, seq) ==
  /\ seq = IF key # Plain /\ key = s.writeKey THEN s.writeSeq ELSE 0
  /\ t.writeKey = IF key # Plain THEN key ELSE s.writeKey
  /\ t.writeSeq = IF key # Plain THEN seq + 1 ELSE s.writeSeq

LEMMA WriterNext ==
  ASSUME NEW s, NEW t, NEW seq, NEW p \in Position, Counts(s, t, p.key, seq), WriterAt(s, p),
         NEW q, NEW type, type # "change_cipher_spec", q.seq = NextSeq(type, p, q),
         q.key # p.key => q.key # Plain
  PROVE  WriterAt(t, q)
<1>1. seq = p.seq
  BY DEF Counts, WriterAt
<1>2. CASE q.key # p.key
  BY <1>2 DEF Counts, WriterAt, NextSeq
<1>3. CASE q.key = p.key /\ p.key = Plain
  BY <1>3 DEF Counts, WriterAt, NextSeq
<1>4. CASE q.key = p.key /\ p.key # Plain
  BY <1>1, <1>4 DEF Counts, WriterAt, NextSeq
<1> QED
  BY <1>1, <1>2, <1>3, <1>4

\* The first n bytes of an item are sent in record r, from place p to place q.
Sent(suite, item, n, r, t, p, q, m) ==
  /\ RecordMoves(suite, r, p, q) /\ WriterAt(t, q)
  /\ n < Len(item.bytes) => Moves(suite, item.type, item.key, Dropped(item.bytes, n), PlaceOf(q), m)
  /\ n = Len(item.bytes) => PlaceOf(q) = m
IsRecord(r, item, n, seq) ==
  r.type = item.type /\ r.key = item.key /\ r.seq = seq /\ r.body = Taken(item.bytes, n)

LEMMA SendRun ==
  ASSUME ~SplitHeaders, NEW suite \in Suite, NEW s, NEW item \in Item, NEW p \in Position,
         NEW m \in Place, WriterAt(s, p),
         item.type = "handshake", item.bytes # <<>>, item.key = p.key,
         Runs(suite, item.bytes, p.n, p.key), m.n = p.n + Len(item.bytes), Clean(suite, m.n),
         m.key = KeyAfter(suite, m.n, p.key),
         NEW n \in Cuts(item), NEW seq, NEW t, Counts(s, t, item.key, seq),
         NEW r, IsRecord(r, item, n, seq)
  PROVE  \E q \in Position : Sent(suite, item, n, r, t, p, q, m)
<1> DEFINE b == item.bytes
           head == Taken(b, n)
           rest == Dropped(b, n)
           k == KeyAfter(suite, p.n + n, p.key)
           next == IF k # p.key THEN 0 ELSE IF p.key = Plain THEN p.seq ELSE p.seq + 1
<1>1. /\ b \in Seq(Byte) /\ Len(b) \in Nat /\ n \in 1 .. Len(b) /\ n \in Nat /\ n <= Len(b)
      /\ p.n \in Nat /\ p.key \in KeySet /\ p.seq \in Nat
  BY DEF Item, Cuts, Position
<1>2. /\ head \in Seq(Byte) /\ Len(head) = n /\ rest \in Seq(Byte) /\ Len(rest) = Len(b) - n
  BY <1>1, CutTyped
<1>3. Runs(suite, head, p.n, p.key) /\ Runs(suite, rest, p.n + n, p.key)
  BY <1>1, RunCut
<1>4. head # <<>>
  BY <1>1, <1>2, EmptySeq
<1>5. k \in KeySet /\ (k # p.key => k # Plain)
  BY <1>1, KeyAfterTyped
<1>6. next \in Nat
  BY <1>1
<1> HIDE DEF k, next
<1>7. PICK q \in Position : q.n = p.n + n /\ q.key = k /\ q.seq = next
  <2> DEFINE place == [n |-> p.n + n, key |-> k, seq |-> next]
  <2>1. place \in Position /\ place.n = p.n + n /\ place.key = k /\ place.seq = next
    BY <1>1, <1>5, <1>6 DEF Position
  <2> HIDE DEF place
  <2> QED
    BY <2>1
<1>8. q.seq = NextSeq("handshake", p, q)
  BY <1>7 DEF NextSeq, next
<1>9. WriterAt(t, q) /\ seq = p.seq
  <2>1. Counts(s, t, p.key, seq) /\ (q.key # p.key => q.key # Plain)
    BY <1>5, <1>7
  <2>2. "handshake" # "change_cipher_spec" /\ q.seq = NextSeq("handshake", p, q)
    BY <1>8
  <2>3. WriterAt(t, q)
    BY <2>1, <2>2, WriterNext
  <2>4. seq = p.seq
    BY <2>1 DEF Counts, WriterAt
  <2> QED
    BY <2>3, <2>4
<1>10. Clean(suite, q.n)
  <2>1. CASE n = Len(b)
    BY <1>7, <2>1
  <2>2. CASE n < Len(b)
    <3>1. b[n + 1][2] \notin 2 .. HeaderCb
      BY <2>2 DEF Cuts
    <3> QED
      BY <1>1, <1>7, <2>2, <3>1, CutClean
  <2> QED
    BY <1>1, <2>1, <2>2
<1>11. /\ r.type = "handshake" /\ r.key = p.key /\ r.seq = p.seq /\ r.body = head
  BY <1>9 DEF IsRecord
<1>12. RecordMoves(suite, r, p, q)
  <2>1. Moves(suite, r.type, r.key, r.body, p, q)
    BY <1>2, <1>3, <1>4, <1>7, <1>10, <1>11 DEF Moves, k
  <2> QED
    BY <1>8, <1>11, <2>1 DEF RecordMoves
<1>13. PlaceOf(q) \in Place /\ PlaceOf(q).n = p.n + n /\ PlaceOf(q).key = k
  BY <1>1, <1>5, <1>7 DEF PlaceOf, Place
<1>14. ASSUME n < Len(b)
       PROVE  Moves(suite, item.type, item.key, rest, PlaceOf(q), m)
  <2>1. rest # <<>>
    BY <1>1, <1>2, <1>14, EmptySeq
  <2>2. k = p.key
    BY <1>1, <1>2, <1>3, <2>1, KeyBetween DEF k
  <2>3. m.n = (p.n + n) + Len(rest)
    BY <1>1, <1>2
  <2> QED
    BY <1>3, <1>13, <2>1, <2>2, <2>3 DEF Moves
<1>15. ASSUME n = Len(b)
       PROVE  PlaceOf(q) = m
  BY <1>13, <1>15 DEF Place, k
<1> QED
  BY <1>7, <1>9, <1>12, <1>14, <1>15 DEF Sent

LEMMA SendLink ==
  ASSUME ~SplitHeaders, ~SplitTickets, NEW suite \in Suite, NEW s, NEW item \in Item,
         NEW p \in Position, NEW m \in Place, WriterAt(s, p),
         Moves(suite, item.type, item.key, item.bytes, PlaceOf(p), m),
         NEW n, item.type = "handshake" => n \in Cuts(item), item.type # "handshake" => n = 0,
         NEW seq, NEW t, Counts(s, t, item.key, seq), NEW r, IsRecord(r, item, n, seq)
  PROVE  \E q \in Position : Sent(suite, item, n, r, t, p, q, m)
<1> DEFINE l == PlaceOf(p)
<1>0. l.n = p.n /\ l.key = p.key /\ p.n \in Nat /\ p.key \in KeySet /\ p.seq \in Nat
      /\ item.bytes \in Seq(Byte)
  BY DEF PlaceOf, Position, Item
<1> HIDE DEF l
<1>1. \/ /\ item.type = "handshake" /\ item.bytes # <<>> /\ item.key = p.key
         /\ Runs(suite, item.bytes, p.n, p.key)
         /\ m.n = p.n + Len(item.bytes) /\ Clean(suite, m.n)
         /\ m.key = KeyAfter(suite, m.n, p.key)
      \/ /\ \/ /\ item.type = "handshake" /\ item.bytes = Bytes(Later(suite))
               /\ p.n = Before(suite, "none")
            \/ item.type = "data" /\ item.bytes = <<>> /\ p.n = Before(suite, "none")
            \/ item.type = "close_notify" /\ item.bytes = <<>>
         /\ item.key = p.key /\ m.n = p.n /\ m.key = p.key
      \/ /\ item.type = "change_cipher_spec" /\ item.bytes = <<>> /\ m.n = p.n
         /\ \/ /\ suite # "tls13" /\ p.n = Before(suite, "finished")
               /\ p.key = Plain /\ m.key = SessionKey12("server")
            \/ /\ suite = "tls13" /\ p.n = Before(suite, "encrypted_extensions")
               /\ p.key = HsKey("server") /\ m.key = p.key
  BY <1>0 DEF Moves, l
<1>2. CASE /\ item.type = "handshake" /\ item.bytes # <<>> /\ item.key = p.key
           /\ Runs(suite, item.bytes, p.n, p.key)
           /\ m.n = p.n + Len(item.bytes) /\ Clean(suite, m.n)
           /\ m.key = KeyAfter(suite, m.n, p.key)
  <2>1. n \in Cuts(item)
    BY <1>2
  <2> QED
    BY <1>2, <2>1, SendRun
<1>3. CASE /\ \/ /\ item.type = "handshake" /\ item.bytes = Bytes(Later(suite))
                 /\ p.n = Before(suite, "none")
              \/ item.type = "data" /\ item.bytes = <<>> /\ p.n = Before(suite, "none")
              \/ item.type = "close_notify" /\ item.bytes = <<>>
           /\ item.key = p.key /\ m.n = p.n /\ m.key = p.key
  <2>1. n = Len(item.bytes) /\ n \in Nat
    <3>1. CASE item.type # "handshake"
      BY <1>3, <3>1
    <3>2. CASE item.type = "handshake"
      <4> DEFINE w == Later(suite)
      <4>1. w \in ServerMessage /\ w \in {"new_session_ticket", "hello_request"}
        BY DEF Later, ServerMessage
      <4> HIDE DEF w
      <4>2. /\ Len(Bytes(w)) = Size(w) /\ Bytes(w)[1] = <<w, 1>> /\ Size(w) \in Nat
        <5>1. Size(w) \in Nat /\ Size(w) >= 1
          BY <4>1, Sizes
        <5>2. 1 \in 1 .. Size(w)
          BY <5>1
        <5> QED
          BY <4>1, <5>1, <5>2, BytesFacts
      <4>3. item.bytes = Bytes(w)
        BY <1>3, <3>2 DEF w
      <4>4. item.bytes[1][1] = w
        BY <4>2, <4>3
      <4>5. n \in 1 .. Len(item.bytes) /\ ~(n < Len(item.bytes))
        BY <3>2, <4>1, <4>4 DEF Cuts
      <4> QED
        BY <4>2, <4>3, <4>5
    <3> QED
      BY <3>1, <3>2
  <2>2. Taken(item.bytes, n) = item.bytes
    BY <1>0, <2>1 DEF Taken
  <2> DEFINE next == IF p.key = Plain THEN p.seq ELSE p.seq + 1
             q == [n |-> p.n, key |-> p.key, seq |-> next]
  <2>3. next \in Nat
    BY <1>0
  <2> HIDE DEF next
  <2>4. q \in Position /\ q.n = p.n /\ q.key = p.key /\ q.seq = next
    BY <1>0, <2>3 DEF Position
  <2> HIDE DEF q
  <2>5. item.type # "change_cipher_spec" /\ q.seq = NextSeq(item.type, p, q)
    BY <1>3, <2>4 DEF NextSeq, next
  <2>6. WriterAt(t, q) /\ seq = p.seq
    <3>1. Counts(s, t, p.key, seq) /\ (q.key # p.key => q.key # Plain)
      BY <1>3, <2>4
    <3> DEFINE type == item.type
    <3>2. type # "change_cipher_spec" /\ q.seq = NextSeq(type, p, q)
      BY <2>5
    <3> HIDE DEF type
    <3>3. WriterAt(t, q)
      BY <3>1, <3>2, WriterNext
    <3>4. seq = p.seq
      BY <3>1 DEF Counts, WriterAt
    <3> QED
      BY <3>3, <3>4
  <2>7. r.type = item.type /\ r.key = p.key /\ r.seq = p.seq /\ r.body = item.bytes
    BY <1>3, <2>2, <2>6 DEF IsRecord
  <2>8. RecordMoves(suite, r, p, q)
    <3>1. Moves(suite, r.type, r.key, r.body, p, q)
      BY <1>3, <2>4, <2>7 DEF Moves
    <3> QED
      BY <2>5, <2>7, <3>1 DEF RecordMoves
  <2>9. PlaceOf(q) = m
    BY <1>3, <2>4 DEF PlaceOf, Place
  <2> QED
    BY <2>1, <2>4, <2>6, <2>8, <2>9 DEF Sent
<1>4. CASE /\ item.type = "change_cipher_spec" /\ item.bytes = <<>> /\ m.n = p.n
           /\ \/ /\ suite # "tls13" /\ p.n = Before(suite, "finished")
                 /\ p.key = Plain /\ m.key = SessionKey12("server")
              \/ /\ suite = "tls13" /\ p.n = Before(suite, "encrypted_extensions")
                 /\ p.key = HsKey("server") /\ m.key = p.key
  <2>1. n = 0 /\ Len(item.bytes) = 0 /\ Taken(item.bytes, n) = <<>>
    BY <1>0, <1>4 DEF Taken
  <2>2. item.key = Plain
    BY <1>4 DEF Item
  <2> DEFINE next == IF m.key # p.key THEN 0 ELSE p.seq
             q == [n |-> p.n, key |-> m.key, seq |-> next]
  <2>3. next \in Nat /\ m.key \in KeySet
    BY <1>0 DEF Place
  <2> HIDE DEF next
  <2>4. q \in Position /\ q.n = p.n /\ q.key = m.key /\ q.seq = next
    BY <1>0, <2>3 DEF Position
  <2> HIDE DEF q
  <2>5. q.seq = NextSeq(item.type, p, q)
    BY <1>4, <2>4 DEF NextSeq, next
  <2>6. t.writeKey = s.writeKey /\ t.writeSeq = s.writeSeq
    BY <2>2 DEF Counts
  <2>7. SessionKey12("server") # Plain /\ HsKey("server") # Plain
    BY KeysDiffer DEF Side
  <2>8. WriterAt(t, q)
    BY <1>4, <2>4, <2>6, <2>7 DEF WriterAt, next
  <2>9. r.type = "change_cipher_spec" /\ r.body = <<>>
    BY <1>4, <2>1 DEF IsRecord
  <2>10. RecordMoves(suite, r, p, q)
    <3>1. Moves(suite, r.type, r.key, r.body, p, q)
      BY <1>4, <2>4, <2>9 DEF Moves
    <3> QED
      BY <1>4, <2>5, <2>9, <3>1 DEF RecordMoves
  <2>11. PlaceOf(q) = m
    BY <1>4, <2>4 DEF PlaceOf, Place
  <2> QED
    BY <2>1, <2>4, <2>8, <2>10, <2>11 DEF Sent
<1> QED
  BY <1>1, <1>2, <1>3, <1>4

LEMMA SendRecordFlows ==
  ASSUME ~SplitHeaders, ~SplitTickets, IInv, Flows, srv.unsent # <<>>,
         UNCHANGED <<ctx, call, payload, status, toServer>>,
         NEW n \in Nat, n <= Len(Head(srv.unsent).bytes),
         Head(srv.unsent).type = "handshake" => n \in Cuts(Head(srv.unsent)),
         Head(srv.unsent).type # "handshake" => n = 0,
         SendRecord(Head(srv.unsent), n)
  PROVE  Flows'
<1> DEFINE item == Head(srv.unsent)
           rest == Tail(srv.unsent)
           sealed == item.key # Plain
           seq == IF sealed /\ item.key = srv.writeKey THEN srv.writeSeq ELSE 0
           cut == [item EXCEPT !.bytes = Dropped(item.bytes, n)]
           writeKey == IF sealed THEN item.key ELSE srv.writeKey
           writeSeq == IF sealed THEN seq + 1 ELSE srv.writeSeq
           begun == n < Len(item.bytes)
           unsent == IF n < Len(item.bytes) THEN <<cut>> \o rest ELSE rest
           sent == Record(item.type, item.key, seq, Taken(item.bytes, n))
<1>1. /\ toClient' = Append(toClient, sent)
      /\ srv' = [srv EXCEPT !.writeKey = writeKey, !.writeSeq = writeSeq, !.begun = begun,
                            !.unsent = unsent]
  BY DEF SendRecord
<1>2. /\ srv \in ServerState /\ srv.unsent \in Seq(Item) /\ srv.writeSeq \in Nat
      /\ srv.writeKey \in KeySet /\ toClient \in Seq(Arriving)
      /\ srv.suite # "none" /\ srv.suite \in Suite /\ srv.state # "expecting_hello"
  BY SuiteAssumption DEF IInv, Typed, ServerState, ServerFits, Suite
<1>3. /\ item \in Item /\ rest \in Seq(Item)
      /\ Len(srv.unsent) \in Nat /\ Len(srv.unsent) > 0
      /\ Len(rest) = Len(srv.unsent) - 1
      /\ item = srv.unsent[1]
      /\ \A i \in 1 .. Len(srv.unsent) - 1 : rest[i] = srv.unsent[i + 1]
  BY <1>2, EmptySeq
<1> HIDE DEF item, rest
<1>4. /\ item.bytes \in Seq(Byte) /\ item.key \in KeySet /\ item.type \in RecordType
      /\ item.type = "change_cipher_spec" => item.key = Plain
      /\ Len(item.bytes) \in Nat /\ n <= Len(item.bytes)
  BY <1>3 DEF Item, item
<1>5. Taken(item.bytes, n) \in Seq(Byte) /\ Dropped(item.bytes, n) \in Seq(Byte)
  BY <1>4, CutTyped
<1>6. seq \in Nat /\ writeSeq \in Nat /\ writeKey \in KeySet /\ begun \in BOOLEAN
  BY <1>2, <1>4
<1>7. sent \in Arriving /\ IsRecord(sent, item, n, seq) /\ sent.type = item.type
  <2> HIDE DEF seq
  <2> QED
    BY <1>4, <1>5, <1>6 DEF Record, Arriving, IsRecord
<1>8. /\ cut \in Item /\ cut.type = item.type /\ cut.key = item.key
      /\ cut.bytes = Dropped(item.bytes, n)
  BY <1>3, <1>5 DEF Item
<1>9. writeSeq = IF item.key # Plain THEN seq + 1 ELSE srv.writeSeq
  OBVIOUS
<1> HIDE DEF cut, sent, begun, writeSeq
<1>10. /\ unsent \in Seq(Item)
       /\ n < Len(item.bytes) =>
            /\ unsent = <<cut>> \o rest /\ Len(unsent) = Len(srv.unsent) /\ unsent[1] = cut
            /\ \A i \in 2 .. Len(srv.unsent) : unsent[i] = srv.unsent[i]
       /\ n = Len(item.bytes) => unsent = rest
  <2>1. CASE n < Len(item.bytes)
    <3>1. /\ unsent = <<cut>> \o rest /\ unsent \in Seq(Item)
          /\ Len(unsent) = Len(srv.unsent)
          /\ unsent[1] = cut
          /\ \A i \in 2 .. Len(srv.unsent) : unsent[i] = rest[i - 1]
      BY <1>3, <1>8, <2>1
    <3>2. ASSUME NEW i \in 2 .. Len(srv.unsent) PROVE rest[i - 1] = srv.unsent[i]
      <4>1. i - 1 \in 1 .. Len(srv.unsent) - 1 /\ (i - 1) + 1 = i
        BY <1>3
      <4> QED
        BY <1>3, <4>1
    <3> HIDE DEF unsent
    <3> QED
      BY <2>1, <3>1, <3>2
  <2>2. CASE n = Len(item.bytes)
    BY <1>3, <2>2
  <2> QED
    BY <1>4, <2>1, <2>2
<1> HIDE DEF unsent
<1>11. /\ srv'.unsent = unsent /\ srv'.state = srv.state /\ srv'.suite = srv.suite
       /\ srv'.transcript = srv.transcript /\ srv'.verify = srv.verify
       /\ srv'.signed = srv.signed /\ srv'.readKey = srv.readKey /\ srv'.readSeq = srv.readSeq
       /\ srv'.writeKey = writeKey /\ srv'.writeSeq = writeSeq
  <2> HIDE DEF writeKey
  <2> QED
    BY <1>1, <1>2, <1>6, <1>10 DEF ServerState
<1>12. ServerKnows'
  BY <1>11 DEF Flows, ServerKnows, ServerKnows12, ServerKnows13, Full12
<1>13. UnsentOnTime(srv')
  <2>1. \A i \in 1 .. Len(srv.unsent) :
          /\ NotEarly(srv', srv.unsent[i])
          /\ srv.unsent[i].type = "change_cipher_spec" => i + 1 = Len(srv.unsent)
    BY <1>11 DEF Flows, UnsentOnTime, NotEarly
  <2>2. CASE n < Len(item.bytes)
    <3>1. ASSUME NEW i \in 1 .. Len(unsent)
          PROVE  /\ NotEarly(srv', unsent[i])
                 /\ unsent[i].type = "change_cipher_spec" => i + 1 = Len(unsent)
      <4>1. unsent[i].type = srv.unsent[i].type /\ i \in 1 .. Len(srv.unsent)
        BY <1>3, <1>8, <1>10, <2>2
      <4> QED
        BY <1>10, <2>1, <2>2, <4>1 DEF NotEarly
    <3> QED
      BY <1>11, <3>1 DEF UnsentOnTime
  <2>3. CASE n = Len(item.bytes)
    <3>1. ASSUME NEW i \in 1 .. Len(rest)
          PROVE  /\ NotEarly(srv', rest[i])
                 /\ rest[i].type = "change_cipher_spec" => i + 1 = Len(rest)
      <4>1. i \in 1 .. Len(srv.unsent) - 1 /\ i + 1 \in 1 .. Len(srv.unsent)
        BY <1>3
      <4>2. rest[i] = srv.unsent[i + 1]
        BY <1>3, <4>1
      <4>3. srv.unsent[i + 1].type = "change_cipher_spec" => (i + 1) + 1 = Len(srv.unsent)
        BY <2>1, <4>1
      <4> QED
        BY <1>3, <2>1, <4>1, <4>2, <4>3
    <3> QED
      BY <1>10, <1>11, <2>3, <3>1 DEF UnsentOnTime
  <2> QED
    BY <1>4, <2>2, <2>3
<1>14. ASSUME NEW i \in 1 .. Len(toClient') PROVE NotEarly(srv', toClient'[i])
  <2>1. \A j \in 1 .. Len(toClient) : NotEarly(srv, toClient[j])
    BY DEF Flows, FlowsFor
  <2>2. NotEarly(srv, item)
    BY <1>3 DEF Flows, UnsentOnTime
  <2>3. NotEarly(srv, sent)
    BY <1>7, <2>2 DEF NotEarly
  <2>4. Len(toClient) \in Nat /\ i \in 1 .. Len(toClient) + 1
        /\ toClient'[i] = IF i = Len(toClient) + 1 THEN sent ELSE toClient[i]
    BY <1>1, <1>2, <1>7
  <2>5. NotEarly(srv, toClient'[i])
    BY <2>1, <2>3, <2>4
  <2> QED
    BY <1>11, <2>5 DEF NotEarly
<1>15. Outgoing(srv', ctx, status, toServer')
  <2>1. Outgoing(srv, ctx, status, toServer)
    BY DEF Flows, FlowsFor
  <2>2. Outgoing(srv', ctx, status, toServer)
    BY <1>2, <1>11, <2>1, OutgoingSrv
  <2>3. toServer' = toServer
    OBVIOUS
  <2> QED
    BY <2>2, <2>3
<1>16. ASSUME Reads(ctx, status)
       PROVE  Coming(srv', AheadOf(srv.suite, ctx, call, payload), toClient')
  <2> DEFINE a == AheadOf(srv.suite, ctx, call, payload)
  <2>1. Coming(srv, a, toClient)
    BY <1>2, <1>16 DEF Flows, FlowsFor
  <2> HIDE DEF a
  <2>2. PICK p \in Position, e \in Place :
          /\ Chain(toClient, a, p, RecordLinks(srv.suite)) /\ WriterAt(srv, p)
          /\ Chain(srv.unsent, PlaceOf(p), e, ItemLinks(srv.suite))
          /\ srv.state # "closed" => e = EndPlace(srv)
    BY <2>1 DEF Coming
  <2>3. PICK m : /\ <<item, PlaceOf(p), m>> \in ItemLinks(srv.suite)
                 /\ Chain(rest, m, e, ItemLinks(srv.suite))
    BY <1>2, <2>2, ChainHead DEF item, rest
  <2>4. m \in Place /\ Moves(srv.suite, item.type, item.key, item.bytes, PlaceOf(p), m)
    BY <2>3, ItemLink
  <2>5. Counts(srv, srv', item.key, seq)
    BY <1>9, <1>11 DEF Counts
  <2>6. (item.type = "handshake" => n \in Cuts(item)) /\ (item.type # "handshake" => n = 0)
    BY DEF item
  <2> HIDE DEF seq
  <2>7. PICK q \in Position : Sent(srv.suite, item, n, sent, srv', p, q, m)
    BY <1>2, <1>3, <1>7, <2>2, <2>4, <2>5, <2>6, SendLink
  <2>8. <<sent, p, q>> \in RecordLinks(srv.suite)
    BY <1>7, <2>7, RecordLink DEF Sent
  <2>9. Chain(toClient', a, q, RecordLinks(srv.suite))
    BY <1>1, <1>2, <1>7, <2>2, <2>8, ChainAppend
  <2>10. WriterAt(srv', q)
    BY <2>7 DEF Sent
  <2>11. Chain(unsent, PlaceOf(q), e, ItemLinks(srv.suite))
    <3>1. CASE n < Len(item.bytes)
      <4>1. PlaceOf(q) \in Place
        BY DEF PlaceOf, Position, Place
      <4>2. Moves(srv.suite, cut.type, cut.key, cut.bytes, PlaceOf(q), m)
        BY <1>8, <2>7, <3>1 DEF Sent
      <4>3. <<cut, PlaceOf(q), m>> \in ItemLinks(srv.suite)
        BY <1>8, <2>4, <4>1, <4>2, ItemLink
      <4>4. Chain(<<cut>> \o rest, PlaceOf(q), e, ItemLinks(srv.suite))
        BY <1>3, <1>8, <2>3, <4>3, ChainCons
      <4> QED
        BY <1>10, <3>1, <4>4
    <3>2. CASE n = Len(item.bytes)
      BY <1>10, <2>3, <2>7, <3>2 DEF Sent
    <3> QED
      BY <1>4, <3>1, <3>2
  <2>12. srv'.state # "closed" => e = EndPlace(srv')
    BY <1>11, <2>2 DEF EndPlace
  <2>13. Coming(srv', a, toClient')
    BY <1>11, <2>9, <2>10, <2>11, <2>12 DEF Coming
  <2> QED
    BY <2>13 DEF a
<1>17. srv.state = "closed" => srv'.state = "closed"
  BY <1>11
<1>18. UNCHANGED <<ctx, call, payload, status>> /\ srv'.suite = srv.suite /\ srv'.verify = srv.verify
  BY <1>11
<1>19. \A i \in 1 .. Len(toClient') : NotEarly(srv', toClient'[i])
  BY <1>14
<1> QED
  BY <1>2, <1>12, <1>13, <1>15, <1>16, <1>17, <1>18, <1>19, ServerMoves

LEMMA ServerSendFlows ==
  ASSUME ~SplitHeaders, ~SplitTickets, IInv, Flows, ServerSend
  PROVE  Flows'
<1> DEFINE item == Head(srv.unsent)
<1>1. /\ srv.unsent # <<>> /\ UNCHANGED <<ctx, call, payload, status, toServer>>
      /\ IF item.type = "handshake" THEN \E n \in Cuts(item) : SendRecord(item, n)
         ELSE SendRecord(item, 0)
  BY DEF ServerSend
<1>2. Len(item.bytes) \in Nat
  <2>1. item \in Item
    BY <1>1, EmptySeq DEF IInv, Typed, ServerState
  <2> HIDE DEF item
  <2> QED
    BY <2>1 DEF Item
<1>3. \A n \in Cuts(item) : n \in Nat /\ n <= Len(item.bytes)
  BY <1>2 DEF Cuts
<1>4. CASE item.type = "handshake"
  <2>1. PICK n \in Cuts(item) : SendRecord(item, n)
    BY <1>1, <1>4
  <2>2. n \in Nat /\ n <= Len(item.bytes)
    BY <1>3, <2>1
  <2> QED
    BY <1>1, <1>4, <2>1, <2>2, SendRecordFlows
<1>5. CASE item.type # "handshake"
  BY <1>1, <1>2, <1>5, SendRecordFlows
<1> QED
  BY <1>4, <1>5

-----------------------------------------------------------------------------
(* The server receives *)

\* What is under way to the client goes with what the server has to say.
LEMMA ComingSame ==
  ASSUME NEW s, NEW t, NEW a, NEW q, Coming(s, a, q),
         t.suite = s.suite, t.writeKey = s.writeKey, t.writeSeq = s.writeSeq,
         \/ t.unsent = s.unsent /\ s.state # "closed" /\ EndPlace(t) = EndPlace(s)
         \/ t.unsent = <<>> /\ t.state = "closed"
  PROVE  Coming(t, a, q)
<1>1. PICK p \in Position, e \in Place :
        /\ Chain(q, a, p, RecordLinks(s.suite)) /\ WriterAt(s, p)
        /\ Chain(s.unsent, PlaceOf(p), e, ItemLinks(s.suite))
        /\ s.state # "closed" => e = EndPlace(s)
  BY DEF Coming
<1>2. WriterAt(t, p)
  BY <1>1 DEF WriterAt
<1>3. CASE t.unsent = s.unsent /\ s.state # "closed" /\ EndPlace(t) = EndPlace(s)
  BY <1>1, <1>2, <1>3 DEF Coming
<1>4. CASE t.unsent = <<>> /\ t.state = "closed"
  <2>1. PlaceOf(p) \in Place
    BY DEF PlaceOf, Position, Place
  <2>2. Chain(t.unsent, PlaceOf(p), PlaceOf(p), ItemLinks(s.suite))
    BY <1>4, ChainNothing
  <2> QED
    BY <1>1, <1>2, <1>4, <2>1, <2>2 DEF Coming
<1> QED
  BY <1>3, <1>4

\* The server that has read the first record that is on its way.
Follower(s, t, m) ==
  /\ t.suite = s.suite /\ t.state # "expecting_hello"
  /\ t.state = "closed" \/ AwaitedTurn(t) = m

LEMMA OutgoingNext ==
  ASSUME NEW s, NEW c, NEW result, NEW q, Outgoing(s, c, result, q), q # <<>>,
         s.state \notin {"expecting_hello", "closed"}
  PROVE  \E m \in Turn : /\ Head(q) \in Asked /\ Asks(s.suite, Head(q), AwaitedTurn(s), m)
                         /\ \A t : Follower(s, t, m) => Outgoing(t, c, result, Tail(q))
<1>1. q \in Seq(Asked) /\ c.state # "SENDING_CLIENT_HELLO"
  BY DEF Outgoing
<1>2. PICK e \in Turn : /\ Chain(q, AwaitedTurn(s), e, AskLinks(s.suite))
                        /\ Sends(c, result) => e = NextTurn(s.suite, c)
  BY DEF Outgoing
<1>3. PICK m : /\ <<Head(q), AwaitedTurn(s), m>> \in AskLinks(s.suite)
               /\ Chain(Tail(q), m, e, AskLinks(s.suite))
  BY <1>1, <1>2, ChainHead
<1>4. /\ m \in Turn /\ Head(q) \in Asked
      /\ Asks(s.suite, Head(q), AwaitedTurn(s), m)
  BY <1>3, AskLink
<1> DEFINE rest == Tail(q)
<1>5. /\ rest \in Seq(Asked) /\ Len(rest) = Len(q) - 1 /\ Len(q) \in Nat
      /\ \A i \in 1 .. Len(q) - 1 : rest[i] = q[i + 1]
  BY <1>1
<1>6. Chain(rest, m, e, AskLinks(s.suite))
  BY <1>3
<1> HIDE DEF rest
<1>7. ASSUME Sends(c, result), s.suite # "tls13", Writes(s.suite, c.state) # "open",
             NEW i \in 1 .. Len(rest)
      PROVE  ~IsFinished(rest[i])
  <2>1. i \in 1 .. Len(q) - 1 /\ i + 1 \in 1 .. Len(q)
    BY <1>5
  <2>2. ~IsFinished(q[i + 1])
    BY <1>7, <2>1 DEF Outgoing
  <2> QED
    BY <1>5, <2>1, <2>2
<1>8. ASSUME NEW t, Follower(s, t, m) PROVE Outgoing(t, c, result, rest)
  BY <1>1, <1>2, <1>5, <1>6, <1>7, <1>8 DEF Outgoing, Follower
<1> QED
  BY <1>4, <1>8 DEF rest

\* A server that has received what the client wrote with the change of keys
\* that this made.
LEMMA ReceivedFlows ==
  ASSUME IInv, Flows, UNCHANGED <<ctx, call, payload, status, toClient>>,
         srv.state \notin {"expecting_hello", "closed"}, srv.suite # "none",
         NEW m, \A t : Follower(srv, t, m) => Outgoing(t, ctx, status, toServer'),
         Follower(srv, srv', m),
         srv'.verify = srv.verify, srv'.writeKey = srv.writeKey, srv'.writeSeq = srv.writeSeq,
         \/ srv'.unsent = srv.unsent /\ EndPlace(srv') = EndPlace(srv)
         \/ srv'.unsent = <<>> /\ srv'.state = "closed",
         ServerKnows'
  PROVE  Flows'
<1>1. srv'.suite = srv.suite
  BY DEF Follower
<1>2. UnsentOnTime(srv')
  <2>1. CASE srv'.unsent = srv.unsent
    BY <1>1, <2>1 DEF Flows, UnsentOnTime, NotEarly
  <2>2. CASE srv'.unsent = <<>>
    BY <2>2 DEF UnsentOnTime
  <2> QED
    BY <2>1, <2>2
<1>3. \A i \in 1 .. Len(toClient') : NotEarly(srv', toClient'[i])
  BY <1>1 DEF Flows, FlowsFor, NotEarly
<1>4. ASSUME Reads(ctx, status)
      PROVE  Coming(srv', AheadOf(srv.suite, ctx, call, payload), toClient')
  <2> DEFINE a == AheadOf(srv.suite, ctx, call, payload)
  <2>1. Coming(srv, a, toClient)
    BY <1>4 DEF Flows, FlowsFor
  <2> HIDE DEF a
  <2>2. Coming(srv', a, toClient)
    BY <1>1, <2>1, ComingSame
  <2> QED
    BY <2>2 DEF a
<1>5. Outgoing(srv', ctx, status, toServer')
  OBVIOUS
<1> QED
  BY <1>1, <1>2, <1>3, <1>4, <1>5, ServerMoves

\* A client whose Finished of TLS 1.2 the server has just read waits for the
\* answer, and nothing else is on its way.
LEMMA FinishedPlace ==
  ASSUME IInv, Flows, srv.suite # "none", srv.suite # "tls13", srv.state = "expecting_finished",
         toServer # <<>>, IsFinished(Head(toServer)), Reads(ctx, status)
  PROVE  \E p \in Position : /\ p = AheadOf(srv.suite, ctx, call, payload)
                             /\ p.n = Before(srv.suite, "finished") /\ p.key = Plain
                             /\ WriterAt(srv, p) /\ toClient = <<>>
<1> DEFINE suite == srv.suite
           a == AheadOf(srv.suite, ctx, call, payload)
           full == Proof(SessionKey12("server"), Heard(srv.suite, "TLS1_2_EXPECTING_FINISHED"))
<1>0. /\ srv \in ServerState /\ srv.suite \in Suite /\ ctx \in Context /\ toClient \in Seq(Arriving)
  BY SuiteAssumption DEF IInv, Typed, ServerState, Suite
<1>1. Sends(ctx, status) /\ ClientKnows(ctx) /\ Outgoing(srv, ctx, status, toServer)
      /\ PayloadFits(srv.suite, ctx, call, payload)
      /\ Coming(srv, a, toClient)
      /\ \A i \in 1 .. Len(toClient) : NotEarly(srv, toClient[i])
  BY ReadsSends DEF Flows, FlowsFor
<1>2. Writes(srv.suite, ctx.state) = "open"
  <2>1. toServer \in Seq(Asked)
    BY <1>1 DEF Outgoing
  <2>2. 1 \in 1 .. Len(toServer) /\ Head(toServer) = toServer[1]
    BY <2>1, EmptySeq
  <2> QED
    BY <1>1, <2>2 DEF Outgoing
<1>3. srv.verify # full
  <2>1. srv.verify = Proof(Plain, <<>>)
    BY DEF IInv, ServerFits
  <2>2. SessionKey12("server") # Plain
    BY KeysDiffer DEF Side
  <2>3. srv.verify.key = Plain /\ full.key = SessionKey12("server")
    BY <2>1 DEF Proof
  <2> HIDE DEF full
  <2> QED
    BY <2>2, <2>3
<1>4. ctx.state \in {"TLS1_2_EXPECTING_CHANGE_CIPHER_SPEC", "TLS1_2_EXPECTING_FINISHED",
                     "HANDSHAKE_COMPLETE"}
  BY <1>2 DEF Writes, Reads
<1>5. ctx.state # "HANDSHAKE_COMPLETE"
  <2>1. ctx.state = "HANDSHAKE_COMPLETE" => ctx.suite = srv.suite
    BY DEF IInv, ClientFits, StateFits
  <2> QED
    BY <2>1 DEF IInv, ClientFits, TranscriptFits
<1>6. ctx.state # "TLS1_2_EXPECTING_FINISHED"
  <2>1. ctx.state = "TLS1_2_EXPECTING_FINISHED" => ctx.suite = srv.suite
    BY DEF IInv, ClientFits, StateFits
  <2> QED
    BY <1>1, <1>3, <2>1 DEF ClientKnows, Full12
<1>7. ctx.state = "TLS1_2_EXPECTING_CHANGE_CIPHER_SPEC"
  BY <1>4, <1>5, <1>6
<1>8. ctx.frag = NoFragment /\ ~ctx.readOn /\ ctx.readSeq = 0
  BY <1>1, <1>7 DEF ClientKnows, FragmentKnown, ReadStates, IInv, ClientFits, KeysFit
<1>9. Awaited(ctx.state) = "finished" /\ ~SendsFinished13(ctx.state)
  BY <1>7, Waits DEF SendsFinished13
<1>10. Before(suite, "finished") \in Nat /\ Before(suite, "none") \in Nat
       /\ "finished" \in Said(suite) /\ Before(suite, "finished") < Before(suite, "none")
  <2>1. "finished" \in Said(suite)
    <3> HIDE DEF suite
    <3> QED
      BY FinishedSaid
  <2>2. Size("finished") \in Nat /\ Size("finished") >= 1
    BY Sizes DEF ServerMessage
  <2>3. Before(suite, "finished") \in Nat /\ Before(suite, "none") \in Nat
    <3> HIDE DEF suite
    <3> QED
      BY <1>0, <2>1, OffsetsTyped DEF suite
  <2>4. Before(suite, "none") = Before(suite, "finished") + Size("finished")
    BY <1>0, AwaitedNext
  <2> QED
    BY <2>1, <2>2, <2>3, <2>4
<1> DEFINE b == Reached(srv.suite, ctx)
<1>11. b.n = Before(suite, "finished") /\ b.key = Plain /\ b.seq = 0
  BY <1>8, <1>9, <1>10 DEF Reached
<1>12. call # "record"
  <2>1. SUFFICES ASSUME call = "record" PROVE FALSE
    OBVIOUS
  <2>2. payload # <<>> /\ Runs(srv.suite, payload, b.n, b.key) /\ payload \in Seq(Byte)
    BY <1>1, <2>1 DEF PayloadFits, RecordFits, IInv, Typed
  <2>3. InUse(ctx)
    BY <1>7, InUseFits
  <2> HIDE DEF b
  <2>4. ctx.state \in ReadStates
    BY <1>1, <2>2, <2>3, RunState DEF b
  <2> QED
    BY <1>7, <2>4 DEF ReadStates
<1>13. a = b
  BY <1>12 DEF AheadOf
<1> HIDE DEF a, b, full
<1>14. toClient = <<>>
  <2>1. SUFFICES ASSUME toClient # <<>> PROVE FALSE
    OBVIOUS
  <2>2. PICK k \in Position : /\ a \in Position /\ Head(toClient) \in Arriving
                              /\ RecordMoves(srv.suite, Head(toClient), a, k)
    BY <1>0, <1>1, <2>1, ComingHead
  <2> DEFINE r == Head(toClient)
  <2>3. NotEarly(srv, r)
    BY <1>0, <1>1, <2>1, OnTimeTail
  <2>4. r \in Arriving /\ RecordMoves(srv.suite, r, a, k)
    BY <2>2
  <2> HIDE DEF r
  <2>5. Incoming(srv.suite, r, a, k)
    BY <1>10, <1>11, <1>13, <2>4, IncomingRun
  <2>6. r.type \in RecordType /\ r.body \in Seq(Byte)
    BY <2>4 DEF Arriving
  <2>7. r.type # "data"
    BY <2>5 DEF Incoming
  <2>8. r.type # "close_notify"
    BY <2>3 DEF NotEarly
  <2>9. r.type # "change_cipher_spec"
    BY <1>3, <2>3 DEF NotEarly, full
  <2>10. r.type = "handshake"
    BY <2>6, <2>7, <2>8, <2>9 DEF RecordType
  <2>11. r.body # <<>> /\ Runs(srv.suite, r.body, Before(srv.suite, "finished") + 0, Plain)
    BY <1>10, <1>11, <1>13, <2>5, <2>10 DEF Incoming
  <2>12. 0 \in Nat /\ 0 < Size("finished")
    <3>1. Size("finished") \in Nat /\ Size("finished") >= 1
      BY Sizes DEF ServerMessage
    <3> QED
      BY <3>1
  <2>13. Plain = MessageKey(srv.suite, "finished")
    <3> DEFINE bytes == r.body
               key == Plain
    <3>1. /\ suite \in Suite /\ "finished" \in Said(suite) /\ bytes \in Seq(Byte) /\ bytes # <<>>
          /\ Runs(suite, bytes, Before(suite, "finished") + 0, key)
      BY <1>0, <1>10, <2>6, <2>11
    <3> HIDE DEF suite, bytes, key
    <3>2. key = MessageKey(suite, "finished")
      BY <2>12, <3>1, RunKey
    <3> QED
      BY <3>2 DEF suite, key
  <2>14. MessageKey(srv.suite, "finished") = SessionKey12("server")
    BY DEF MessageKey
  <2> QED
    BY <2>13, <2>14, KeysDiffer DEF Side
<1>15. PICK p \in Position : Chain(toClient, a, p, RecordLinks(srv.suite)) /\ WriterAt(srv, p)
  BY <1>1 DEF Coming
<1>16. p = a
  BY <1>14, <1>15, ChainNothing
<1> QED
  BY <1>11, <1>13, <1>14, <1>15, <1>16 DEF a

\* The server answers the Finished of the client.
LEMMA AnswerFinished12 ==
  ASSUME IInv, Flows, UNCHANGED <<ctx, call, payload, status, toClient>>,
         srv.state = "expecting_finished", srv.suite # "none", srv.suite # "tls13",
         toServer # <<>>, IsFinished(Head(toServer)),
         NEW m, \A t : Follower(srv, t, m) => Outgoing(t, ctx, status, toServer'),
         Follower(srv, srv', m), srv'.state = "open",
         srv'.verify = Proof(SessionKey12("server"), Heard(srv.suite, "TLS1_2_EXPECTING_FINISHED")),
         srv'.writeKey = srv.writeKey, srv'.writeSeq = srv.writeSeq,
         Len(srv'.unsent) = 2, srv'.unsent[1] = ServerRecord("change_cipher_spec", Plain),
         srv'.unsent[2] = HandshakeRecord(SessionKey12("server"), Bytes("finished")),
         ServerKnows'
  PROVE  Flows'
<1> DEFINE suite == srv.suite
           ours == SessionKey12("server")
           first == ServerRecord("change_cipher_spec", Plain)
           second == HandshakeRecord(SessionKey12("server"), Bytes("finished"))
           unsent == srv'.unsent
<1>0. /\ srv.suite \in Suite /\ srv'.suite = srv.suite
  BY SuiteAssumption DEF IInv, Typed, ServerState, Suite, Follower
<1>1. /\ first \in Item /\ first.type = "change_cipher_spec" /\ first.key = Plain /\ first.bytes = <<>>
  <2>1. Plain \in KeySet
    BY KeysTyped
  <2> QED
    BY <2>1, ServerRecordTyped DEF RecordType, ServerRecord
<1>2. /\ second \in Item /\ second.type = "handshake" /\ second.key = ours
      /\ second.bytes = Bytes("finished")
  <2>1. Bytes("finished") \in Seq(Byte) /\ ours \in KeySet
    BY BytesTyped, KeysTyped DEF ServerMessage, Side
  <2>2. second.bytes = Bytes("finished")
    BY DEF HandshakeRecord
  <2> QED
    BY <2>1, <2>2, HandshakeRecordTyped
<1>3. unsent[1] = first /\ unsent[2] = second /\ Len(unsent) = 2
  OBVIOUS
<1> HIDE DEF first, second, unsent
<1>4. NotEarly(srv', first) /\ NotEarly(srv', second)
  BY <1>0, <1>1, <1>2 DEF NotEarly
<1>5. UnsentOnTime(srv')
  <2>1. ASSUME NEW i \in 1 .. Len(unsent)
        PROVE  NotEarly(srv', unsent[i]) /\ (unsent[i].type = "change_cipher_spec" => i + 1 = Len(unsent))
    <3>1. i = 1 \/ i = 2
      BY <1>3
    <3>2. CASE i = 1
      BY <1>3, <1>4, <3>2
    <3>3. CASE i = 2
      BY <1>2, <1>3, <1>4, <3>3
    <3> QED
      BY <3>1, <3>2, <3>3
  <2> QED
    BY <2>1 DEF UnsentOnTime, unsent
<1>6. \A i \in 1 .. Len(toClient') : NotEarly(srv', toClient'[i])
  <2>1. \A i \in 1 .. Len(toClient) : toClient[i].type # "close_notify"
    BY DEF Flows, FlowsFor, NotEarly
  <2> QED
    BY <2>1 DEF NotEarly, Follower
<1>7. ASSUME Reads(ctx, status)
      PROVE  Coming(srv', AheadOf(srv.suite, ctx, call, payload), toClient')
  <2>1. PICK p \in Position : /\ p = AheadOf(srv.suite, ctx, call, payload)
                              /\ p.n = Before(srv.suite, "finished") /\ p.key = Plain
                              /\ WriterAt(srv, p) /\ toClient = <<>>
    BY <1>7, FinishedPlace
  <2> DEFINE b == Before(suite, "finished")
             last == Before(suite, "none")
             q == [n |-> b, key |-> ours]
             e == [n |-> last, key |-> ours]
  <2>2. b \in Nat /\ last \in Nat /\ ours \in KeySet /\ last = b + Size("finished")
        /\ "finished" \in Said(suite)
    <3>1. "finished" \in Said(suite)
      <4> HIDE DEF suite
      <4> QED
        BY FinishedSaid
    <3>2. b \in Nat /\ last \in Nat
      <4> HIDE DEF suite
      <4> QED
        BY <1>0, <3>1, OffsetsTyped DEF suite
    <3>3. last = b + Size("finished")
      BY <1>0, AwaitedNext
    <3> QED
      BY <3>1, <3>2, <3>3, KeysTyped DEF Side
  <2>3. PlaceOf(p) \in Place /\ PlaceOf(p).n = b /\ PlaceOf(p).key = Plain
    BY <2>1 DEF PlaceOf, Position, Place
  <2>4. /\ q \in Place /\ q.n = b /\ q.key = ours /\ e \in Place /\ e.n = last /\ e.key = ours
    <3> HIDE DEF b, last, ours
    <3> QED
      BY <2>2 DEF Place
  <2>5. e = EndPlace(srv')
    BY <1>0, KeysDiffer DEF EndPlace, DataKey
  <2> HIDE DEF q, e, b, last
  <2>6. Moves(suite, first.type, first.key, first.bytes, PlaceOf(p), q)
    BY <1>1, <2>3, <2>4 DEF Moves, b
  <2>7. Moves(suite, second.type, second.key, second.bytes, q, e)
    <3> DEFINE bytes == Bytes("finished")
    <3>1. MessageKey(suite, "finished") = ours
      BY DEF MessageKey
    <3>2. Runs(suite, bytes, b, ours)
      <4> HIDE DEF suite
      <4>1. Runs(suite, Bytes("finished"), Before(suite, "finished"), MessageKey(suite, "finished"))
        BY <2>2, RunBytes
      <4> QED
        BY <3>1, <4>1 DEF b
    <3>3. bytes # <<>> /\ Len(bytes) = Size("finished")
      BY BytesFacts DEF ServerMessage
    <3>4. Clean(suite, last)
      <4> HIDE DEF suite
      <4> QED
        BY <1>0, CleanEnds DEF suite, last
    <3>5. KeyAfter(suite, last, ours) = ours
      BY DEF KeyAfter
    <3> HIDE DEF bytes
    <3>6. second.bytes = bytes
      BY <1>2 DEF bytes
    <3> HIDE DEF suite, ours
    <3> QED
      BY <1>2, <2>2, <2>4, <3>2, <3>3, <3>4, <3>5, <3>6 DEF Moves
  <2>8. <<unsent[1], PlaceOf(p), q>> \in ItemLinks(suite) /\ <<unsent[2], q, e>> \in ItemLinks(suite)
    BY <1>1, <1>2, <1>3, <2>3, <2>4, <2>6, <2>7, ItemLink
  <2>9. Chain(unsent, PlaceOf(p), e, ItemLinks(suite))
    BY <1>3, <2>8, ChainTwo
  <2>10. WriterAt(srv', p)
    BY <2>1 DEF WriterAt
  <2>11. Chain(<<>>, p, p, RecordLinks(suite))
    BY ChainNothing
  <2>12. Coming(srv', p, <<>>)
    BY <1>0, <2>4, <2>5, <2>9, <2>10, <2>11 DEF Coming, unsent
  <2> QED
    BY <2>1, <2>12
<1>8. Outgoing(srv', ctx, status, toServer')
  OBVIOUS
<1> QED
  BY <1>0, <1>5, <1>6, <1>7, <1>8, ServerMoves

LEMMA ServerReceiveFlows ==
  ASSUME IInv, Flows, ServerReceive
  PROVE  Flows'
<1> DEFINE r == Head(toServer)
           hashed == Append(srv.transcript, Head(r.body))
           read == [srv EXCEPT !.readSeq = IF r.key = Plain THEN 0 ELSE @ + 1]
           closed == [read EXCEPT !.state = "closed", !.unsent = <<>>]
           changed == [srv EXCEPT !.state = "expecting_finished",
                                  !.readKey = SessionKey12("client"), !.readSeq = 0]
           exchanged == [read EXCEPT !.state = "expecting_ccs", !.transcript = hashed]
           opened13 == [read EXCEPT !.state = "open", !.readKey = AppKey("client"), !.readSeq = 0]
           opened12 == [read EXCEPT !.state = "open", !.transcript = hashed,
                          !.verify = Proof(SessionKey12("server"), hashed),
                          !.unsent = <<ServerRecord("change_cipher_spec", Plain),
                                       HandshakeRecord(SessionKey12("server"), Bytes("finished"))>>]
<1>1. /\ srv.state \notin {"expecting_hello", "closed"} /\ toServer # <<>>
      /\ UNCHANGED <<ctx, call, payload, status, toClient>>
      /\ toServer' = Tail(toServer)
      /\ srv' = CASE r.type = "close_notify" -> closed
                  [] r.type = "data" -> read
                  [] r.type = "change_cipher_spec" /\ srv.suite = "tls13" -> srv
                  [] r.type = "change_cipher_spec" /\ srv.suite # "tls13" -> changed
                  [] OTHER -> CASE srv.state = "expecting_key_exchange" -> exchanged
                                [] srv.state = "expecting_finished" /\ srv.suite = "tls13" -> opened13
                                [] srv.state = "expecting_finished" /\ srv.suite # "tls13" -> opened12
  BY Zenon DEF ServerReceive
<1>2. /\ srv \in ServerState /\ srv.suite # "none"
      /\ srv.suite = "tls13" => srv.state \in {"expecting_finished", "open"}
  BY <1>1 DEF IInv, Typed, ServerFits
<1> DEFINE seq == IF r.key = Plain THEN 0 ELSE srv.readSeq + 1
<1>3. read = [srv EXCEPT !.readSeq = seq] /\ seq \in Nat
  BY <1>2 DEF ServerState
<1> HIDE DEF seq, read
\* All but the number of records read.
<1>4. /\ read \in ServerState /\ read.state = srv.state /\ read.suite = srv.suite
      /\ read.transcript = srv.transcript /\ read.verify = srv.verify /\ read.signed = srv.signed
      /\ read.unsent = srv.unsent /\ read.writeKey = srv.writeKey /\ read.writeSeq = srv.writeSeq
      /\ read.readKey = srv.readKey /\ read.readSeq = seq
  BY <1>2, <1>3 DEF ServerState
<1>5. Outgoing(srv, ctx, status, toServer)
  BY DEF Flows, FlowsFor
<1>6. PICK m \in Turn : /\ Head(toServer) \in Asked
                        /\ Asks(srv.suite, Head(toServer), AwaitedTurn(srv), m)
                        /\ \A t : Follower(srv, t, m) => Outgoing(t, ctx, status, Tail(toServer))
  BY <1>1, <1>5, OutgoingNext
<1>7. /\ m.state # "expecting_hello" /\ m = [state |-> m.state, seq |-> m.seq]
      /\ \A t : Follower(srv, t, m) => Outgoing(t, ctx, status, toServer')
  BY <1>1, <1>6 DEF Turn
<1>8. /\ AwaitedTurn(srv).state = srv.state /\ AwaitedTurn(srv).seq = srv.readSeq
      /\ Asks(srv.suite, r, AwaitedTurn(srv), m)
  BY <1>6 DEF AwaitedTurn
<1>9. \A t : t.suite = srv.suite /\ t.state = m.state /\ t.readSeq = m.seq => Follower(srv, t, m)
  BY <1>7 DEF Follower, AwaitedTurn
<1>10. SessionKey12("client") # Plain /\ HsKey("client") # Plain /\ DataKey(srv.suite, "client") # Plain
  BY KeysDiffer DEF Side
<1> HIDE DEF r, closed, changed, exchanged, opened12, opened13
<1>11. CASE /\ r = Record("handshake", Plain, 0, <<"client_key_exchange">>)
            /\ srv.state = "expecting_key_exchange" /\ srv.readSeq = 0
            /\ m.state = "expecting_ccs" /\ m.seq = 0
  <2>1. r.type = "handshake" /\ r.key = Plain /\ r.body = <<"client_key_exchange">>
    BY <1>11 DEF Record
  <2>2. srv' = exchanged
    BY <1>1, <1>11, <2>1
  <2>3. hashed = Append(srv.transcript, "client_key_exchange")
    BY <2>1
  <2>4. seq = 0
    BY <2>1 DEF seq
  <2> HIDE DEF hashed
  <2>5. /\ srv'.suite = srv.suite /\ srv'.state = "expecting_ccs" /\ srv'.readSeq = 0
        /\ srv'.verify = srv.verify /\ srv'.unsent = srv.unsent /\ srv'.writeKey = srv.writeKey
        /\ srv'.writeSeq = srv.writeSeq /\ srv'.transcript = hashed /\ srv'.readKey = srv.readKey
    BY <1>4, <2>2, <2>4 DEF exchanged, ServerState
  <2>6. srv.suite # "tls13"
    BY <1>2, <1>11
  <2>7. ServerKnows12
    BY <2>6 DEF Flows, ServerKnows
  <2>8. ServerKnows'
    BY <1>11, <2>3, <2>5, <2>6, <2>7 DEF ServerKnows, ServerKnows12
  <2>9. Follower(srv, srv', m)
    BY <1>9, <1>11, <2>5
  <2>10. EndPlace(srv') = EndPlace(srv)
    BY <1>11, <2>5, <2>6 DEF EndPlace
  <2> QED
    BY <1>1, <1>2, <1>7, <2>5, <2>8, <2>9, <2>10, ReceivedFlows
<1>12. CASE /\ r = Record("change_cipher_spec", Plain, 0, <<>>)
            /\ srv.state = (IF srv.suite = "tls13" THEN "expecting_finished" ELSE "expecting_ccs")
            /\ srv.readSeq = 0 /\ m.state = "expecting_finished" /\ m.seq = 0
  <2>1. r.type = "change_cipher_spec"
    BY <1>12 DEF Record
  <2>2. CASE srv.suite = "tls13"
    <3>1. srv' = srv
      BY <1>1, <2>1, <2>2
    <3>2. Follower(srv, srv', m)
      BY <1>9, <1>12, <2>2, <3>1
    <3>3. ServerKnows'
      BY <3>1 DEF Flows, ServerKnows, ServerKnows12, ServerKnows13, Full12
    <3> QED
      BY <1>1, <1>2, <1>7, <3>1, <3>2, <3>3, ReceivedFlows
  <2>3. CASE srv.suite # "tls13"
    <3>1. srv' = changed
      BY <1>1, <2>1, <2>3
    <3>2. /\ srv'.suite = srv.suite /\ srv'.state = "expecting_finished" /\ srv'.readSeq = 0
          /\ srv'.verify = srv.verify /\ srv'.unsent = srv.unsent /\ srv'.writeKey = srv.writeKey
          /\ srv'.writeSeq = srv.writeSeq /\ srv'.transcript = srv.transcript
          /\ srv'.readKey = SessionKey12("client")
      BY <1>2, <3>1 DEF changed, ServerState
    <3>3. ServerKnows12
      BY <2>3 DEF Flows, ServerKnows
    <3>4. ServerKnows'
      BY <1>12, <2>3, <3>2, <3>3 DEF ServerKnows, ServerKnows12
    <3>5. Follower(srv, srv', m)
      BY <1>9, <1>12, <3>2
    <3>6. EndPlace(srv') = EndPlace(srv)
      BY <1>12, <2>3, <3>2 DEF EndPlace
    <3> QED
      BY <1>1, <1>2, <1>7, <3>2, <3>4, <3>5, <3>6, ReceivedFlows
  <2> QED
    BY <2>2, <2>3
<1>13. CASE /\ r = Record("handshake", ClientKey(srv.suite), 0, <<"finished", ClientProof(srv.suite)>>)
            /\ srv.state = "expecting_finished" /\ srv.readSeq = 0 /\ m.state = "open"
            /\ m.seq = IF srv.suite = "tls13" THEN 0 ELSE 1
  <2> DEFINE proof == ClientProof(srv.suite)
             key == ClientKey(srv.suite)
  <2>1. r.type = "handshake" /\ r.key = key /\ r.body = <<"finished", proof>>
    <3> HIDE DEF proof, key
    <3>1. r = Record("handshake", key, 0, <<"finished", proof>>)
      BY <1>13 DEF proof, key
    <3> QED
      BY <3>1 DEF Record
  <2>2. r.key # Plain
    BY <1>10, <2>1 DEF ClientKey
  <2> HIDE DEF proof, key
  <2>3. hashed = Append(srv.transcript, "finished") /\ Len(r.body) = 2
    BY <2>1
  <2>4. seq = 1
    BY <1>13, <2>2 DEF seq
  <2> HIDE DEF hashed
  <2>5. CASE srv.suite = "tls13"
    <3>1. srv' = opened13
      BY <1>1, <1>13, <2>1, <2>5
    <3>2. /\ srv'.suite = srv.suite /\ srv'.state = "open" /\ srv'.readSeq = 0
          /\ srv'.verify = srv.verify /\ srv'.unsent = srv.unsent /\ srv'.writeKey = srv.writeKey
          /\ srv'.writeSeq = srv.writeSeq /\ srv'.transcript = srv.transcript
          /\ srv'.signed = srv.signed /\ srv'.readKey = AppKey("client")
      BY <1>4, <3>1 DEF opened13, ServerState
    <3>3. ServerKnows13
      BY <2>5 DEF Flows, ServerKnows
    <3>4. AppKey("client") = DataKey(srv.suite, "client")
      BY <2>5, <3>3 DEF ServerKnows13, AppKey, DataKey
    <3>5. ServerKnows'
      BY <2>5, <3>2, <3>3, <3>4 DEF ServerKnows, ServerKnows13
    <3>6. Follower(srv, srv', m)
      BY <1>9, <1>13, <2>5, <3>2
    <3>7. EndPlace(srv') = EndPlace(srv)
      BY <2>5, <3>2 DEF EndPlace
    <3> QED
      BY <1>1, <1>2, <1>7, <3>2, <3>5, <3>6, <3>7, ReceivedFlows
  <2>6. CASE srv.suite # "tls13"
    <3> DEFINE verify == Proof(SessionKey12("server"), hashed)
               first == ServerRecord("change_cipher_spec", Plain)
               second == HandshakeRecord(SessionKey12("server"), Bytes("finished"))
               unsent == <<first, second>>
    <3>1. srv' = opened12
      BY <1>1, <1>13, <2>1, <2>6
    <3>2. srv' = [read EXCEPT !.state = "open", !.transcript = hashed, !.verify = verify,
                              !.unsent = unsent]
      BY <3>1 DEF opened12
    <3>3. Len(unsent) = 2 /\ unsent[1] = first /\ unsent[2] = second
      OBVIOUS
    <3> HIDE DEF first, second, unsent, verify
    <3>4. /\ srv'.suite = srv.suite /\ srv'.state = "open" /\ srv'.readSeq = 1
          /\ srv'.verify = verify /\ srv'.unsent = unsent /\ srv'.writeKey = srv.writeKey
          /\ srv'.writeSeq = srv.writeSeq /\ srv'.transcript = hashed
          /\ srv'.readKey = srv.readKey
      BY <1>4, <2>4, <3>2 DEF ServerState
    <3>5. ServerKnows12
      BY <2>6 DEF Flows, ServerKnows
    <3>6. hashed = Heard(srv.suite, "TLS1_2_EXPECTING_FINISHED")
      BY <1>13, <2>3, <3>5 DEF ServerKnows12, Heard
    <3>7. verify = Proof(SessionKey12("server"), Heard(srv.suite, "TLS1_2_EXPECTING_FINISHED"))
      BY <3>6 DEF verify
    <3>8. srv'.readKey = DataKey(srv.suite, "client")
      BY <1>13, <2>6, <3>4, <3>5 DEF ServerKnows12, DataKey
    <3>9. ServerKnows'
      BY <2>6, <3>4, <3>7, <3>8 DEF ServerKnows, ServerKnows12, Full12
    <3>10. Follower(srv, srv', m)
      BY <1>9, <1>13, <2>6, <3>4
    <3>11. IsFinished(Head(toServer))
      BY <2>3 DEF IsFinished, r
    <3>12. /\ Len(srv'.unsent) = 2 /\ srv'.unsent[1] = ServerRecord("change_cipher_spec", Plain)
           /\ srv'.unsent[2] = HandshakeRecord(SessionKey12("server"), Bytes("finished"))
      BY <3>3, <3>4 DEF first, second
    <3> QED
      BY <1>1, <1>2, <1>7, <1>13, <2>6, <3>4, <3>7, <3>9, <3>10, <3>11, <3>12, AnswerFinished12
  <2> QED
    BY <2>5, <2>6
<1>14. CASE /\ r.key = DataKey(srv.suite, "client") /\ r.seq = srv.readSeq /\ r.body = <<>>
            /\ srv.state = "open"
            /\ \/ r.type = "data" /\ m.state = "open" /\ m.seq = srv.readSeq + 1
               \/ r.type = "close_notify" /\ m.state = "closed" /\ m.seq = 0
  <2>1. CASE r.type = "data" /\ m.state = "open" /\ m.seq = srv.readSeq + 1
    <3>1. srv' = read
      BY <1>1, <2>1
    <3>2. seq = m.seq
      BY <1>10, <1>14, <2>1 DEF seq
    <3>3. Follower(srv, srv', m)
      BY <1>4, <1>9, <1>14, <2>1, <3>1, <3>2
    <3>4. ServerKnows'
      BY <1>4, <1>14, <3>1 DEF Flows, ServerKnows, ServerKnows12, ServerKnows13, Full12
    <3>5. EndPlace(srv') = EndPlace(srv)
      BY <1>4, <3>1 DEF EndPlace
    <3> QED
      BY <1>1, <1>2, <1>4, <1>7, <3>1, <3>3, <3>4, <3>5, ReceivedFlows
  <2>2. CASE r.type = "close_notify" /\ m.state = "closed" /\ m.seq = 0
    <3>1. srv' = closed
      BY <1>1, <2>2
    <3>2. /\ srv'.suite = srv.suite /\ srv'.state = "closed" /\ srv'.unsent = <<>>
          /\ srv'.verify = srv.verify /\ srv'.writeKey = srv.writeKey
          /\ srv'.writeSeq = srv.writeSeq /\ srv'.transcript = srv.transcript
          /\ srv'.signed = srv.signed
      BY <1>4, <3>1 DEF closed, ServerState
    <3>3. Follower(srv, srv', m)
      BY <3>2 DEF Follower
    <3>4. ServerKnows'
      BY <3>2 DEF Flows, ServerKnows, ServerKnows12, ServerKnows13
    <3> QED
      BY <1>1, <1>2, <1>7, <3>2, <3>3, <3>4, ReceivedFlows
  <2> QED
    BY <1>14, <2>1, <2>2
<1> QED
  BY <1>8, <1>11, <1>12, <1>13, <1>14 DEF Asks

-----------------------------------------------------------------------------
(* The server chooses the suite *)

LEMMA AppendFacts ==
  ASSUME NEW R, NEW a \in Seq(R), NEW x \in R, NEW t, t = Append(a, x)
  PROVE  /\ t \in Seq(R) /\ Len(t) = Len(a) + 1 /\ t[Len(a) + 1] = x /\ Len(a) \in Nat
         /\ \A i \in 1 .. Len(a) : t[i] = a[i]
OBVIOUS

LEMMA JoinOne ==
  ASSUME NEW R, NEW a \in Seq(R), NEW x \in R
  PROVE  a \o <<x>> = Append(a, x)
<1> DEFINE b == <<x>>
           t == Append(a, x)
<1>1. b \in Seq(R) /\ Len(b) = 1 /\ b[1] = x
  OBVIOUS
<1>2. /\ t \in Seq(R) /\ Len(t) = Len(a) + 1 /\ t[Len(a) + 1] = x /\ Len(a) \in Nat
      /\ \A i \in 1 .. Len(a) : t[i] = a[i]
  OBVIOUS
<1> HIDE DEF b, t
<1>2a. b \in Seq(R) /\ t \in Seq(R) /\ \A i \in 1 .. Len(a) : t[i] = a[i]
  BY <1>1, <1>2
<1>3. \A i \in 1 .. Len(b) : i = 1
  BY <1>1
<1>4. \A i \in 1 .. Len(b) : t[Len(a) + i] = b[i]
  BY <1>1, <1>2, <1>3
<1>5. Len(t) = Len(a) + Len(b)
  BY <1>1, <1>2
<1>6. a \o b = t
  BY <1>2a, <1>4, <1>5, JoinIs
<1> QED
  BY <1>6 DEF b, t

LEMMA JoinAppend ==
  ASSUME NEW R, NEW a \in Seq(R), NEW b \in Seq(R), NEW x \in R
  PROVE  a \o Append(b, x) = Append(a \o b, x)
<1> DEFINE c == Append(b, x)
           d == a \o b
           t == Append(d, x)
<1>1. /\ c \in Seq(R) /\ Len(c) = Len(b) + 1 /\ c[Len(b) + 1] = x /\ Len(b) \in Nat
      /\ \A i \in 1 .. Len(b) : c[i] = b[i]
  OBVIOUS
<1>2. /\ d \in Seq(R) /\ Len(d) = Len(a) + Len(b) /\ Len(a) \in Nat
      /\ \A i \in 1 .. Len(a) : d[i] = a[i]
      /\ \A i \in 1 .. Len(b) : d[Len(a) + i] = b[i]
  OBVIOUS
<1>2a. d \in Seq(R)
  BY <1>2
<1> HIDE DEF c, d
<1>3. /\ t \in Seq(R) /\ Len(t) = Len(d) + 1 /\ t[Len(d) + 1] = x
      /\ \A i \in 1 .. Len(d) : t[i] = d[i]
  BY <1>2a, AppendFacts
<1> HIDE DEF t
<1>4. Len(t) = Len(a) + Len(c)
  BY <1>1, <1>2, <1>3
<1>5. \A i \in 1 .. Len(a) : t[i] = a[i]
  <2>1. \A i \in 1 .. Len(a) : i \in 1 .. Len(d)
    BY <1>1, <1>2
  <2> QED
    BY <1>2, <1>3, <2>1
<1>6. ASSUME NEW i \in 1 .. Len(c)
      PROVE  t[Len(a) + i] = c[i]
  <2>1. CASE i \in 1 .. Len(b)
    <3>1. Len(a) + i \in 1 .. Len(d)
      BY <1>1, <1>2, <2>1
    <3> QED
      BY <1>1, <1>2, <1>3, <2>1, <3>1
  <2>2. CASE i = Len(b) + 1
    <3>1. Len(a) + i = Len(d) + 1
      BY <1>1, <1>2, <2>2
    <3> QED
      BY <1>1, <1>3, <2>2, <3>1
  <2>3. i \in 1 .. Len(b) \/ i = Len(b) + 1
    BY <1>1
  <2> QED
    BY <2>1, <2>2, <2>3
<1>7. a \o c = t
  BY <1>1, <1>3, <1>4, <1>5, <1>6, JoinIs
<1> QED
  BY <1>7 DEF c, d, t

LEMMA JoinTwo ==
  ASSUME NEW R, NEW a \in Seq(R), NEW x \in R, NEW y \in R
  PROVE  a \o <<x, y>> = Append(Append(a, x), y)
<1> DEFINE b == <<x>>
           t == <<x, y>>
<1>1. b \in Seq(R) /\ Len(b) = 1 /\ b[1] = x
  OBVIOUS
<1>2. t \in Seq(R) /\ Len(t) = 2 /\ t[1] = x /\ t[2] = y
  OBVIOUS
<1>3. a \o b = Append(a, x)
  BY JoinOne
<1> HIDE DEF b, t
<1> DEFINE u == Append(b, y)
<1>3a. u = Append(b, y) /\ b \in Seq(R)
  BY <1>1
<1> HIDE DEF u
<1>4. u \in Seq(R) /\ Len(u) = 2 /\ u[1] = x /\ u[2] = y
  <2>1. /\ u \in Seq(R) /\ Len(u) = Len(b) + 1 /\ u[Len(b) + 1] = y
        /\ \A i \in 1 .. Len(b) : u[i] = b[i]
    BY <1>3a, AppendFacts
  <2> QED
    BY <1>1, <2>1
<1>5. \A i \in 1 .. Len(u) : i = 1 \/ i = 2
  BY <1>4
<1>6. t = u
  BY <1>2, <1>4, <1>5, SeqEqual
<1>7. a \o Append(b, y) = Append(a \o b, y)
  BY <1>1, JoinAppend
<1> QED
  BY <1>3, <1>3a, <1>6, <1>7 DEF t

LEMMA JoinNothing ==
  ASSUME NEW R, NEW a \in Seq(R)
  PROVE  a \o <<>> = a
OBVIOUS

\* The messages that the server's answer holds, as the client comes to hear them.
LEMMA HelloHeard ==
  ASSUME NEW suite
  PROVE  /\ suite = "tls12_ecdhe" =>
              <<"client_hello">> \o (<<"server_hello", "certificate">> \o <<"server_key_exchange">>
                                     \o <<"server_hello_done">>) = Flight12(suite)
         /\ suite # "tls12_ecdhe" =>
              <<"client_hello">> \o (<<"server_hello", "certificate">> \o <<>>
                                     \o <<"server_hello_done">>) = Flight12(suite)
         /\ Hello \o <<"encrypted_extensions", "certificate">> =
              Heard(suite, "TLS1_3_EXPECTING_CERTIFICATE_VERIFY")
<1>1. /\ {"client_hello", "server_hello", "certificate", "server_key_exchange",
          "server_hello_done", "encrypted_extensions"} \subseteq Message
  BY DEF Message, ServerMessage
<1> DEFINE a == <<"client_hello">>
           b == <<"server_hello", "certificate">>
           k == Append(b, "server_key_exchange")
           heard == Append(Hello, "certificate")
<1>2. a \in Seq(Message) /\ b \in Seq(Message) /\ Hello \in Seq(Message)
  BY <1>1 DEF Hello
<1>3. a \o b = heard
  <2>1. a \o b = Append(Append(a, "server_hello"), "certificate")
    BY <1>1, <1>2, JoinTwo
  <2> QED
    BY <2>1, Tuples
<1>4. Hello \o <<"encrypted_extensions", "certificate">> =
        Heard(suite, "TLS1_3_EXPECTING_CERTIFICATE_VERIFY")
  <2>1. Hello \o <<"encrypted_extensions", "certificate">> =
          Append(Append(Hello, "encrypted_extensions"), "certificate")
    BY <1>1, <1>2, JoinTwo
  <2> QED
    BY <2>1, HeardNext
<1> HIDE DEF a, b, heard
<1>5. k \in Seq(Message)
  BY <1>1, <1>2
<1>6. a \o k = Append(heard, "server_key_exchange")
  BY <1>1, <1>2, <1>3, JoinAppend
<1>7. b \o <<"server_key_exchange">> = k
  BY <1>1, <1>2, JoinOne
<1>8. b \o <<>> = b
  BY <1>2, JoinNothing
<1> HIDE DEF k
<1>9. k \o <<"server_hello_done">> = Append(k, "server_hello_done")
  BY <1>1, <1>5, JoinOne
<1>10. b \o <<"server_hello_done">> = Append(b, "server_hello_done")
  BY <1>1, <1>2, JoinOne
<1>11. a \o Append(k, "server_hello_done") = Append(a \o k, "server_hello_done")
  BY <1>1, <1>2, <1>5, JoinAppend
<1>12. a \o Append(b, "server_hello_done") = Append(a \o b, "server_hello_done")
  BY <1>1, <1>2, JoinAppend
<1>13. suite = "tls12_ecdhe" =>
         Flight12(suite) = Append(Append(heard, "server_key_exchange"), "server_hello_done")
  BY Tuples DEF heard
<1>14. suite # "tls12_ecdhe" => Flight12(suite) = Append(heard, "server_hello_done")
  BY Tuples DEF heard
<1>15. suite = "tls12_ecdhe" =>
         a \o (b \o <<"server_key_exchange">> \o <<"server_hello_done">>) = Flight12(suite)
  BY <1>6, <1>7, <1>9, <1>11, <1>13
<1>16. suite # "tls12_ecdhe" => a \o (b \o <<>> \o <<"server_hello_done">>) = Flight12(suite)
  BY <1>3, <1>8, <1>10, <1>12, <1>14
<1> QED
  BY <1>4, <1>15, <1>16 DEF a, b

LEMMA JoinTyped ==
  ASSUME NEW a \in Seq(Byte), NEW b \in Seq(Byte), NEW t, t = a \o b
  PROVE  t \in Seq(Byte) /\ Len(t) = Len(a) + Len(b)
OBVIOUS

\* One more message of the server.
Joined(suite, a, m, t, n, key) ==
  t \in Seq(Byte) /\ Runs(suite, t, n, key) /\ Len(t) = Len(a) + Size(m)

LEMMA RunOn ==
  ASSUME NEW suite, NEW key, NEW n \in Nat, NEW a \in Seq(Byte), Runs(suite, a, n, key),
         NEW m \in Said(suite), Before(suite, m) = n + Len(a), MessageKey(suite, m) = key,
         NEW t, t = a \o Bytes(m)
  PROVE  Joined(suite, a, m, t, n, key)
<1>1. m \in ServerMessage
  BY Sizes
<1>2. Bytes(m) \in Seq(Byte) /\ Len(Bytes(m)) = Size(m)
  BY <1>1, BytesFacts
<1>3. Runs(suite, Bytes(m), n + Len(a), key)
  BY RunBytes
<1> DEFINE b == Bytes(m)
<1> HIDE DEF b
<1>4. b \in Seq(Byte) /\ Len(b) = Size(m) /\ Runs(suite, b, n + Len(a), key)
  BY <1>2, <1>3 DEF b
<1>5. Runs(suite, a \o b, n, key)
  BY <1>4, RunJoin
<1>6. t = a \o b
  BY DEF b
<1>7. t \in Seq(Byte) /\ Len(t) = Len(a) + Len(b)
  BY <1>4, <1>6, JoinTyped
<1> QED
  BY <1>4, <1>5, <1>6, <1>7 DEF Joined

\* The bytes of the answer up to TLS 1.2, and of its encrypted part in TLS 1.3.
LEMMA FlightRun12 ==
  ASSUME NEW suite \in Suite, suite # "tls13", NEW flight,
         flight = Bytes("server_hello") \o Bytes("certificate")
                  \o (IF suite = "tls12_ecdhe" THEN Bytes("server_key_exchange") ELSE <<>>)
                  \o Bytes("server_hello_done")
  PROVE  /\ flight \in Seq(Byte) /\ Runs(suite, flight, 0, Plain)
         /\ Len(flight) = Before(suite, "finished") /\ flight # <<>>
<1> DEFINE a == Bytes("server_hello")
           b == a \o Bytes("certificate")
           c == b \o (IF suite = "tls12_ecdhe" THEN Bytes("server_key_exchange") ELSE <<>>)
<1>1. /\ {"server_hello", "certificate", "server_hello_done"} \subseteq Said(suite)
      /\ suite = "tls12_ecdhe" => "server_key_exchange" \in Said(suite)
      /\ suite \in {"tls12_ecdhe", "tls12_rsa"}
  BY DEF Said, Suite
<1>2. /\ MessageKey(suite, "server_hello") = Plain /\ MessageKey(suite, "certificate") = Plain
      /\ MessageKey(suite, "server_hello_done") = Plain
      /\ MessageKey(suite, "server_key_exchange") = Plain
  BY DEF MessageKey
<1>3. /\ Size("server_hello") \in Nat /\ Size("certificate") \in Nat
      /\ Size("server_key_exchange") \in Nat /\ Size("server_hello_done") \in Nat
      /\ Size("server_hello_done") >= 1
      /\ "server_hello" \in ServerMessage
  BY Sizes DEF ServerMessage
<1>4. /\ Before(suite, "server_hello") = 0 /\ Before(suite, "certificate") = Size("server_hello")
      /\ suite = "tls12_ecdhe" =>
           Before(suite, "server_key_exchange") = Size("server_hello") + Size("certificate")
      /\ Before(suite, "server_hello_done") =
           Size("server_hello") + Size("certificate")
           + (IF suite = "tls12_ecdhe" THEN Size("server_key_exchange") ELSE 0)
      /\ Before(suite, "finished") = Before(suite, "server_hello_done") + Size("server_hello_done")
  BY <1>1, <1>3, OffsetsEcdhe, OffsetsRsa
<1>5. a \in Seq(Byte) /\ Len(a) = Size("server_hello") /\ Runs(suite, a, 0, Plain)
  <2>1. Runs(suite, a, Before(suite, "server_hello"), MessageKey(suite, "server_hello"))
    BY <1>1, RunBytes
  <2> QED
    BY <1>2, <1>3, <1>4, <2>1, BytesFacts
<1> HIDE DEF a
<1>6. /\ b \in Seq(Byte) /\ Runs(suite, b, 0, Plain)
      /\ Len(b) = Size("server_hello") + Size("certificate")
  <2> DEFINE m == "certificate"
  <2>1. m \in Said(suite) /\ MessageKey(suite, m) = Plain /\ b = a \o Bytes(m)
    BY <1>1, <1>2
  <2>2. Before(suite, m) = 0 + Len(a)
    BY <1>3, <1>4, <1>5
  <2> HIDE DEF b, m
  <2>3. Joined(suite, a, m, b, 0, Plain)
    BY <1>5, <2>1, <2>2, RunOn
  <2> QED
    BY <1>5, <2>3 DEF Joined, m
<1> HIDE DEF b
<1>7. /\ c \in Seq(Byte) /\ Runs(suite, c, 0, Plain)
      /\ Len(c) = Size("server_hello") + Size("certificate")
                  + (IF suite = "tls12_ecdhe" THEN Size("server_key_exchange") ELSE 0)
  <2>1. CASE suite = "tls12_ecdhe"
    <3> DEFINE m == "server_key_exchange"
    <3>1. m \in Said(suite) /\ MessageKey(suite, m) = Plain /\ c = b \o Bytes(m)
      BY <1>1, <1>2, <2>1
    <3>2. Before(suite, m) = 0 + Len(b)
      BY <1>3, <1>4, <1>6, <2>1
    <3> HIDE DEF c, m
    <3>3. Joined(suite, b, m, c, 0, Plain)
      BY <1>6, <3>1, <3>2, RunOn
    <3> QED
      BY <1>6, <2>1, <3>3 DEF Joined, m
  <2>2. CASE suite # "tls12_ecdhe"
    <3>1. c = b
      BY <1>6, <2>2, JoinNothing
    <3> HIDE DEF c
    <3> QED
      BY <1>3, <1>6, <2>2, <3>1
  <2> QED
    BY <2>1, <2>2
<1>8. flight = c \o Bytes("server_hello_done")
  BY DEF a, b
<1> DEFINE d == c \o Bytes("server_hello_done")
<1> HIDE DEF c
<1>9. /\ d \in Seq(Byte) /\ Runs(suite, d, 0, Plain)
      /\ Len(d) = Len(c) + Size("server_hello_done") /\ Len(c) \in Nat
  <2> DEFINE m == "server_hello_done"
  <2>1. m \in Said(suite) /\ MessageKey(suite, m) = Plain /\ d = c \o Bytes(m)
    BY <1>1, <1>2
  <2>2. Before(suite, m) = 0 + Len(c)
    BY <1>3, <1>4, <1>7
  <2>3. Len(c) \in Nat /\ c \in Seq(Byte) /\ Runs(suite, c, 0, Plain)
    BY <1>7
  <2> HIDE DEF d, m
  <2>4. Joined(suite, c, m, d, 0, Plain)
    BY <2>1, <2>2, <2>3, RunOn
  <2> QED
    BY <2>3, <2>4 DEF Joined, m
<1>10. flight = d
  BY <1>8
<1> HIDE DEF d
<1>11. Len(d) = Before(suite, "finished") /\ Len(d) # 0
  BY <1>3, <1>4, <1>7, <1>9
<1>12. d # <<>>
  BY <1>11, EmptySeq
<1> QED
  BY <1>9, <1>10, <1>11, <1>12

LEMMA FlightRun13 ==
  ASSUME NEW flight,
         flight = Bytes("encrypted_extensions") \o Bytes("certificate")
                  \o Bytes("certificate_verify") \o Bytes("finished")
  PROVE  /\ flight \in Seq(Byte) /\ flight # <<>>
         /\ Runs("tls13", flight, Before("tls13", "encrypted_extensions"), HsKey("server"))
         /\ Before("tls13", "encrypted_extensions") + Len(flight) = Before("tls13", "none")
<1> DEFINE suite == "tls13"
           key == HsKey("server")
           n == Before(suite, "encrypted_extensions")
           a == Bytes("encrypted_extensions")
           b == a \o Bytes("certificate")
           c == b \o Bytes("certificate_verify")
<1>1. {"encrypted_extensions", "certificate", "certificate_verify", "finished"} \subseteq Said(suite)
  BY DEF Said
<1>2. /\ MessageKey(suite, "encrypted_extensions") = key /\ MessageKey(suite, "certificate") = key
      /\ MessageKey(suite, "certificate_verify") = key /\ MessageKey(suite, "finished") = key
  BY DEF MessageKey
<1>3. /\ Size("encrypted_extensions") \in Nat /\ Size("certificate") \in Nat
      /\ Size("certificate_verify") \in Nat /\ Size("finished") \in Nat
      /\ Size("finished") >= 1 /\ Size("server_hello") \in Nat
      /\ "encrypted_extensions" \in ServerMessage
  BY Sizes DEF ServerMessage
<1>4. /\ n \in Nat
      /\ Before(suite, "certificate") = n + Size("encrypted_extensions")
      /\ Before(suite, "certificate_verify") = Before(suite, "certificate") + Size("certificate")
      /\ Before(suite, "finished") = Before(suite, "certificate_verify") + Size("certificate_verify")
      /\ Before(suite, "none") = Before(suite, "finished") + Size("finished")
  BY <1>3, Offsets13
<1>5. a \in Seq(Byte) /\ Len(a) = Size("encrypted_extensions") /\ Runs(suite, a, n, key)
  <2>1. Runs(suite, a, n, MessageKey(suite, "encrypted_extensions"))
    BY <1>1, RunBytes
  <2> QED
    BY <1>2, <1>3, <2>1, BytesFacts
<1> HIDE DEF a, suite, key, n
<1>6. /\ b \in Seq(Byte) /\ Runs(suite, b, n, key)
      /\ Before(suite, "certificate_verify") = n + Len(b)
  <2> DEFINE m == "certificate"
  <2>1. m \in Said(suite) /\ MessageKey(suite, m) = key /\ b = a \o Bytes(m)
    BY <1>1, <1>2
  <2>2. Before(suite, m) = n + Len(a) /\ Len(a) \in Nat
    BY <1>3, <1>4, <1>5
  <2> HIDE DEF b, m
  <2>3. Joined(suite, a, m, b, n, key)
    BY <1>4, <1>5, <2>1, <2>2, RunOn
  <2>4. b \in Seq(Byte) /\ Runs(suite, b, n, key) /\ Len(b) = Len(a) + Size("certificate")
    BY <2>3 DEF Joined, m
  <2> QED
    BY <1>3, <1>4, <1>5, <2>2, <2>4
<1> HIDE DEF b
<1>7. c \in Seq(Byte) /\ Runs(suite, c, n, key) /\ Before(suite, "finished") = n + Len(c)
  <2> DEFINE m == "certificate_verify"
  <2>1. m \in Said(suite) /\ MessageKey(suite, m) = key /\ c = b \o Bytes(m)
    BY <1>1, <1>2
  <2>2. Before(suite, m) = n + Len(b) /\ Len(b) \in Nat
    BY <1>6
  <2> HIDE DEF c, m
  <2>3. Joined(suite, b, m, c, n, key)
    BY <1>4, <1>6, <2>1, <2>2, RunOn
  <2>4. /\ c \in Seq(Byte) /\ Runs(suite, c, n, key)
        /\ Len(c) = Len(b) + Size("certificate_verify")
    BY <2>3 DEF Joined, m
  <2> QED
    BY <1>3, <1>4, <1>6, <2>2, <2>4
<1>8. flight = c \o Bytes("finished")
  BY DEF a, b
<1> DEFINE d == c \o Bytes("finished")
<1> HIDE DEF c
<1>9. /\ d \in Seq(Byte) /\ Runs(suite, d, n, key)
      /\ Len(d) = Len(c) + Size("finished") /\ Len(c) \in Nat
  <2> DEFINE m == "finished"
  <2>1. m \in Said(suite) /\ MessageKey(suite, m) = key /\ d = c \o Bytes(m)
    BY <1>1, <1>2
  <2>2. Before(suite, m) = n + Len(c) /\ Len(c) \in Nat
    BY <1>7
  <2> HIDE DEF d, m
  <2>3. Joined(suite, c, m, d, n, key)
    BY <1>4, <1>7, <2>1, <2>2, RunOn
  <2> QED
    BY <2>2, <2>3 DEF Joined, m
<1>10. flight = d
  BY <1>8
<1> HIDE DEF d
<1>11. n + Len(d) = Before(suite, "none") /\ Len(d) # 0
  BY <1>3, <1>4, <1>7, <1>9
<1>12. d # <<>>
  BY <1>11, EmptySeq
<1> QED
  BY <1>9, <1>10, <1>11, <1>12 DEF suite, key, n

\* What both are at when the server gets the first message.
LEMMA AtHello ==
  ASSUME IInv, Flows, srv.state = "expecting_hello", toServer # <<>>
  PROVE  /\ srv.suite = "none" /\ toClient = <<>> /\ call \notin {"record", "post"}
         /\ srv.writeKey = Plain /\ srv.readKey = Plain /\ srv.readSeq = 0
         /\ Tail(toServer) = <<>>
         /\ ctx.state # "SENDING_CLIENT_HELLO" /\ ctx.state # "TLS1_2_EXPECTING_FINISHED"
         /\ Sends(ctx, status) => ctx.state = "EXPECTING_SERVER_HELLO" /\ ctx.writeSeq = 0
         /\ Reads(ctx, status) => ctx.frag = NoFragment /\ ~ctx.readOn /\ ctx.readSeq = 0
<1>1. srv.suite = "none" /\ toClient = <<>> /\ call \notin {"record", "post"}
  BY DEF IInv, ServerFits
<1>2. srv.writeKey = Plain /\ srv.readKey = Plain /\ srv.readSeq = 0
  BY <1>1 DEF Flows, Fresh, ServerKnows
<1>3. Outgoing(srv, ctx, status, toServer)
  BY DEF Flows, FlowsFor
<1>4. toServer \in Seq(Asked) /\ Len(toServer) \in Nat /\ Len(toServer) <= 1
  BY <1>3 DEF Outgoing
<1>5. Tail(toServer) = <<>>
  <2>1. Len(toServer) = 1
    <3>1. Len(toServer) # 0
      BY <1>4, EmptySeq
    <3> DEFINE n == Len(toServer)
    <3> HIDE DEF n
    <3>2. n \in Nat /\ n <= 1 /\ n # 0
      BY <1>4, <3>1 DEF n
    <3>3. n = 1
      BY <3>2
    <3> QED
      BY <3>3 DEF n
  <2>2. Tail(toServer) \in Seq(Asked) /\ Len(Tail(toServer)) = 0
    BY <1>4, <2>1
  <2> QED
    BY <2>2, EmptySeq
<1>6. ctx.state # "SENDING_CLIENT_HELLO"
  BY <1>3 DEF Outgoing
<1>7. ctx.state \in {"EXPECTING_SERVER_HELLO", "CONNECTION_CLOSED"}
  BY <1>1, <1>6 DEF IInv, ClientFits, StateFits
<1>8. Sends(ctx, status) => ctx.state = "EXPECTING_SERVER_HELLO" /\ ctx.writeSeq = 0
  BY <1>3, <1>7 DEF Outgoing, Sends
<1>9. Reads(ctx, status) => ctx.frag = NoFragment /\ ~ctx.readOn /\ ctx.readSeq = 0
  <2>1. SUFFICES ASSUME Reads(ctx, status)
                 PROVE  ctx.frag = NoFragment /\ ~ctx.readOn /\ ctx.readSeq = 0
    OBVIOUS
  <2>2. Sends(ctx, status) /\ ctx.frag = NoFragment
    BY <1>1, <2>1 DEF Flows, FlowsFor, Reads, Sends
  <2>3. ClientKnows(ctx) /\ ctx.state = "EXPECTING_SERVER_HELLO"
    BY <1>8, <2>2 DEF Flows, FlowsFor
  <2>4. ~ctx.readOn
    BY <2>3 DEF ClientKnows, InTheClear
  <2> QED
    BY <2>2, <2>4 DEF IInv, ClientFits, KeysFit
<1> QED
  BY <1>1, <1>2, <1>5, <1>6, <1>7, <1>8, <1>9

\* A server that has chosen the suite and has its answer to send.
LEMMA ChosenFlows ==
  ASSUME IInv, Flows, NEW suite \in Suite, srv.state = "expecting_hello", toServer # <<>>,
         UNCHANGED <<ctx, call, payload, status, toClient>>, toServer' = Tail(toServer),
         srv'.suite = suite, srv'.readSeq = 0, srv'.writeKey = Plain,
         srv'.state = IF suite = "tls13" THEN "expecting_finished" ELSE "expecting_key_exchange",
         ServerKnows', UnsentOnTime(srv'), NEW e \in Place, e = EndPlace(srv'),
         Chain(srv'.unsent, [n |-> 0, key |-> Plain], e, ItemLinks(suite))
  PROVE  Flows'
<1>1. /\ srv.suite = "none" /\ toClient = <<>> /\ call \notin {"record", "post"}
      /\ Tail(toServer) = <<>>
      /\ ctx.state # "SENDING_CLIENT_HELLO" /\ ctx.state # "TLS1_2_EXPECTING_FINISHED"
      /\ Sends(ctx, status) => ctx.state = "EXPECTING_SERVER_HELLO" /\ ctx.writeSeq = 0
      /\ Reads(ctx, status) => ctx.frag = NoFragment /\ ~ctx.readOn /\ ctx.readSeq = 0
  BY AtHello
<1>2. suite # "none" /\ srv'.suite # "none"
  BY DEF Suite
<1>3. Outgoing(srv', ctx, status, toServer')
  <2> DEFINE turn == AwaitedTurn(srv')
             links == AskLinks(suite)
  <2>1. turn = [state |-> srv'.state, seq |-> 0] /\ turn \in Turn
    BY DEF AwaitedTurn, Turn
  <2>2. Sends(ctx, status) => turn = NextTurn(suite, ctx)
    BY <1>1, <2>1 DEF NextTurn, Writes
  <2> HIDE DEF turn, links
  <2>3. Chain(<<>>, turn, turn, links)
    BY ChainNothing
  <2>4. toServer' = <<>> /\ <<>> \in Seq(Asked)
    BY <1>1
  <2>5. srv'.state # "expecting_hello"
    OBVIOUS
  <2>6. \E x \in Turn : /\ Chain(toServer', AwaitedTurn(srv'), x, AskLinks(srv'.suite))
                        /\ Sends(ctx, status) => x = NextTurn(srv'.suite, ctx)
    <3>1. Chain(toServer', turn, turn, links)
      BY <2>3, <2>4
    <3>2. \E x \in Turn : /\ Chain(toServer', turn, x, links)
                          /\ Sends(ctx, status) => x = NextTurn(suite, ctx)
      BY <2>1, <2>2, <3>1
    <3>3. turn = AwaitedTurn(srv') /\ links = AskLinks(srv'.suite) /\ srv'.suite = suite
      BY DEF turn, links
    <3> QED
      BY <3>2, <3>3
  <2>7. \A i \in 1 .. Len(toServer') : ~IsFinished(toServer'[i])
    <3>1. Len(toServer') = 0
      BY <2>4
    <3> DEFINE n == Len(toServer')
    <3>2. n = 0
      BY <3>1
    <3> HIDE DEF n
    <3>3. \A i \in 1 .. n : FALSE
      BY <3>2
    <3> QED
      BY <3>3 DEF n
  <2>8. toServer' \in Seq(Asked)
    BY <2>4
  <2> QED
    BY <1>1, <2>5, <2>6, <2>7, <2>8 DEF Outgoing
<1>4. ASSUME Reads(ctx, status)
      PROVE  Coming(srv', AheadOf(srv'.suite, ctx, call, payload), toClient')
  <2> DEFINE p == Reached(suite, ctx)
  <2>1. ctx.state = "EXPECTING_SERVER_HELLO"
    BY <1>1, <1>4 DEF Reads, Sends
  <2>2. p = [n |-> 0, key |-> Plain, seq |-> 0]
    <3>1. Before(suite, Awaited(ctx.state)) = 0
      BY <2>1, Waits, AwaitedNext
    <3>2. ~SendsFinished13(ctx.state)
      BY <2>1 DEF SendsFinished13
    <3> QED
      BY <1>1, <1>4, <3>1, <3>2 DEF Reached
  <2>3. AheadOf(srv'.suite, ctx, call, payload) = p
    BY <1>1 DEF AheadOf
  <2> HIDE DEF p
  <2>4. p \in Position /\ PlaceOf(p) = [n |-> 0, key |-> Plain]
    BY <2>2, KeysTyped DEF Position, PlaceOf
  <2>5. WriterAt(srv', p)
    BY <2>2 DEF WriterAt
  <2>6. Chain(toClient', p, p, RecordLinks(srv'.suite))
    <3> DEFINE links == RecordLinks(srv'.suite)
    <3> HIDE DEF links
    <3>1. Chain(<<>>, p, p, links)
      BY ChainNothing
    <3>2. toClient' = <<>>
      BY <1>1
    <3> QED
      BY <3>1, <3>2 DEF links
  <2>7. Chain(srv'.unsent, PlaceOf(p), e, ItemLinks(srv'.suite))
    BY <2>4
  <2> QED
    BY <2>3, <2>4, <2>5, <2>6, <2>7 DEF Coming
<1>5. \A i \in 1 .. Len(toClient') : NotEarly(srv', toClient'[i])
  <2>1. Len(toClient') = 0
    BY <1>1
  <2> QED
    BY <2>1
<1>6. Reads(ctx, status) => PayloadFits(srv'.suite, ctx, call, payload)
  BY <1>1 DEF PayloadFits
<1>7. Fresh(srv')
  BY <1>2 DEF Fresh
<1> QED
  BY <1>1, <1>2, <1>3, <1>4, <1>5, <1>6, <1>7, ServerStepFlows

\* The records of an answer in TLS 1.3, with the change of cipher
\* specifications between them or without it.
LEMMA TwoItems ==
  ASSUME NEW a \in Item, NEW b \in Item, NEW t, t = <<a>> \o <<>> \o <<b>>
  PROVE  t \in Seq(Item) /\ Len(t) = 2 /\ t[1] = a /\ t[2] = b
<1> DEFINE s == <<a>>
<1>1. s \in Seq(Item) /\ Len(s) = 1 /\ s[1] = a
  OBVIOUS
<1>2. s \o <<>> = s
  BY <1>1, JoinNothing
<1> HIDE DEF s
<1> DEFINE u == Append(s, b)
<1>3. s \o <<b>> = u
  BY <1>1, JoinOne
<1>4. u \in Seq(Item) /\ Len(u) = 2 /\ u[1] = a /\ u[2] = b
  <2>1. u = Append(s, b) /\ s \in Seq(Item)
    BY <1>1
  <2> HIDE DEF u
  <2>2. /\ u \in Seq(Item) /\ Len(u) = Len(s) + 1 /\ u[Len(s) + 1] = b
        /\ \A i \in 1 .. Len(s) : u[i] = s[i]
    BY <2>1, AppendFacts
  <2> QED
    BY <1>1, <2>2
<1> HIDE DEF u
<1>5. t = u
  BY <1>2, <1>3 DEF s
<1> QED
  BY <1>4, <1>5

IsThree(t, a, c, b) == Len(t) = 3 /\ t[1] = a /\ t[2] = c /\ t[3] = b

LEMMA ThreeItems ==
  ASSUME NEW a \in Item, NEW c \in Item, NEW b \in Item, NEW r, r = <<a>>, NEW s, s = <<c>>, NEW e, e = <<b>>, NEW t, t = r \o s \o e
  PROVE  IsThree(t, a, c, b)
<1> DEFINE u == Append(r, c)
           v == Append(u, b)
<1>1. r \in Seq(Item) /\ Len(r) = 1 /\ r[1] = a
  OBVIOUS
<1>2. t = r \o <<c>> \o <<b>>
  OBVIOUS
<1>3. r \o <<c>> = u
  BY <1>1, JoinOne
<1>4. u \in Seq(Item) /\ Len(u) = 2 /\ u[1] = a /\ u[2] = c
  <2>1. u = Append(r, c) /\ r \in Seq(Item)
    BY <1>1
  <2> HIDE DEF u
  <2>2. /\ u \in Seq(Item) /\ Len(u) = Len(r) + 1 /\ u[Len(r) + 1] = c
        /\ \A i \in 1 .. Len(r) : u[i] = r[i]
    BY <2>1, AppendFacts
  <2> QED
    BY <1>1, <2>2
<1> HIDE DEF u
<1>5. u \o <<b>> = v
  BY <1>4, JoinOne
<1>6. v \in Seq(Item) /\ Len(v) = 3 /\ v[1] = a /\ v[2] = c /\ v[3] = b
  <2>1. v = Append(u, b) /\ u \in Seq(Item)
    BY <1>4
  <2> HIDE DEF v
  <2>2. /\ v \in Seq(Item) /\ Len(v) = Len(u) + 1 /\ v[Len(u) + 1] = b
        /\ \A i \in 1 .. Len(u) : v[i] = u[i]
    BY <2>1, AppendFacts
  <2> QED
    BY <1>4, <2>2
<1> HIDE DEF v
<1>7. t = v
  BY <1>2, <1>3, <1>5
<1> QED
  BY <1>6, <1>7 DEF IsThree

LEMMA AnswerChain12 ==
  ASSUME NEW suite \in Suite, suite # "tls13", NEW flight \in Seq(Byte),
         Runs(suite, flight, 0, Plain), Len(flight) = Before(suite, "finished"), flight # <<>>,
         NEW u, u = <<HandshakeRecord(Plain, flight)>>
  PROVE  Chain(u, [n |-> 0, key |-> Plain], [n |-> Before(suite, "finished"), key |-> Plain],
               ItemLinks(suite))
<1> DEFINE item == HandshakeRecord(Plain, flight)
           a == [n |-> 0, key |-> Plain]
           b == [n |-> Before(suite, "finished"), key |-> Plain]
<1>1. /\ item \in Item /\ item.type = "handshake" /\ item.key = Plain /\ item.bytes = flight
  <2>1. item.bytes = flight
    BY DEF HandshakeRecord
  <2> QED
    BY <2>1, KeysTyped, HandshakeRecordTyped
<1>2. "finished" \in Said(suite)
  BY DEF Said, Suite
<1>3. Clean(suite, Before(suite, "finished")) /\ Before(suite, "finished") \in Nat
  BY <1>2, CleanEnds, OffsetsTyped
<1>4. /\ a \in Place /\ b \in Place /\ a.n = 0 /\ a.key = Plain
      /\ b.n = Before(suite, "finished") /\ b.key = Plain
  BY <1>3, KeysTyped DEF Place
<1>5. KeyAfter(suite, Before(suite, "finished"), Plain) = Plain
  BY DEF KeyAfter
<1> HIDE DEF a, b
<1>6. Len(u) = 1 /\ u[1] = item
  OBVIOUS
<1> HIDE DEF item
<1>7. Moves(suite, item.type, item.key, item.bytes, a, b)
  <2>1. b.n = a.n + Len(flight)
    BY <1>4
  <2> QED
    BY <1>1, <1>3, <1>4, <1>5, <2>1 DEF Moves
<1>8. <<item, a, b>> \in ItemLinks(suite)
  BY <1>1, <1>4, <1>7, ItemLink
<1> DEFINE links == ItemLinks(suite)
<1>9. <<u[1], a, b>> \in links
  BY <1>6, <1>8
<1> HIDE DEF links
<1>10. Chain(u, a, b, links)
  BY <1>6, <1>9, ChainOne
<1> QED
  BY <1>10 DEF a, b, links

LEMMA AnswerChain13 ==
  ASSUME NEW flight \in Seq(Byte), flight # <<>>,
         Runs("tls13", flight, Before("tls13", "encrypted_extensions"), HsKey("server")),
         Before("tls13", "encrypted_extensions") + Len(flight) = Before("tls13", "none"),
         NEW first, first = HandshakeRecord(Plain, Bytes("server_hello")),
         NEW last, last = HandshakeRecord(HsKey("server"), flight),
         NEW u, \/ Len(u) = 2 /\ u[1] = first /\ u[2] = last
                \/ /\ Len(u) = 3 /\ u[1] = first /\ u[3] = last
                   /\ u[2] = ServerRecord("change_cipher_spec", Plain)
  PROVE  Chain(u, [n |-> 0, key |-> Plain],
               [n |-> Before("tls13", "none"), key |-> DataKey("tls13", "server")],
               ItemLinks("tls13"))
<1> DEFINE suite == "tls13"
           a == [n |-> 0, key |-> Plain]
           m == [n |-> Before(suite, "encrypted_extensions"), key |-> HsKey("server")]
           b == [n |-> Before(suite, "none"), key |-> DataKey(suite, "server")]
           hello == Bytes("server_hello")
           ccs == ServerRecord("change_cipher_spec", Plain)
<1>1. suite \in Suite /\ {"server_hello", "encrypted_extensions"} \subseteq Said(suite)
  BY DEF Said, Suite
<1>2. /\ hello \in Seq(Byte) /\ hello # <<>> /\ Len(hello) = Size("server_hello")
      /\ Runs(suite, hello, 0, Plain)
  <2>1. "server_hello" \in ServerMessage
    BY <1>1, Sizes
  <2>2. Runs(suite, hello, Before(suite, "server_hello"), MessageKey(suite, "server_hello"))
    BY <1>1, RunBytes
  <2>3. Before(suite, "server_hello") = 0 /\ MessageKey(suite, "server_hello") = Plain
    BY Offsets13 DEF MessageKey
  <2> QED
    BY <2>1, <2>2, <2>3, BytesFacts
<1>3. /\ Before(suite, "encrypted_extensions") = Size("server_hello")
      /\ Before(suite, "encrypted_extensions") \in Nat /\ Before(suite, "none") \in Nat
      /\ Before(suite, "encrypted_extensions") # Before(suite, "none")
  <2>1. Before(suite, "encrypted_extensions") \in Nat /\ Before(suite, "none") \in Nat
    BY <1>1, OffsetsTyped
  <2>2. Len(flight) \in Nat /\ Len(flight) # 0
    BY EmptySeq
  <2> QED
    BY <2>1, <2>2, Offsets13
<1>4. Clean(suite, Before(suite, "encrypted_extensions")) /\ Clean(suite, Before(suite, "none"))
  BY <1>1, CleanEnds
<1>5. /\ KeyAfter(suite, Before(suite, "encrypted_extensions"), Plain) = HsKey("server")
      /\ KeyAfter(suite, Before(suite, "none"), HsKey("server")) = DataKey(suite, "server")
  BY <1>3 DEF KeyAfter
<1>6. HsKey("server") \in KeySet /\ DataKey(suite, "server") \in KeySet /\ Plain \in KeySet
  BY KeysTyped DEF Side
<1>7. /\ first \in Item /\ first.type = "handshake" /\ first.key = Plain /\ first.bytes = hello
      /\ last \in Item /\ last.type = "handshake" /\ last.key = HsKey("server")
      /\ last.bytes = flight
      /\ ccs \in Item /\ ccs.type = "change_cipher_spec" /\ ccs.bytes = <<>>
  <2>1. /\ first \in Item /\ first.type = "handshake" /\ first.key = Plain
        /\ last \in Item /\ last.type = "handshake" /\ last.key = HsKey("server")
    BY <1>2, <1>6, HandshakeRecordTyped
  <2>2. first.bytes = hello /\ last.bytes = flight
    BY DEF HandshakeRecord
  <2>3. ccs.bytes = <<>>
    BY DEF ServerRecord
  <2>4. ccs \in Item /\ ccs.type = "change_cipher_spec"
    BY <1>6, ServerRecordTyped DEF RecordType
  <2> QED
    BY <2>1, <2>2, <2>3, <2>4
<1>8. /\ a \in Place /\ a.n = 0 /\ a.key = Plain
      /\ m \in Place /\ m.n = Before(suite, "encrypted_extensions") /\ m.key = HsKey("server")
      /\ b \in Place /\ b.n = Before(suite, "none") /\ b.key = DataKey(suite, "server")
  BY <1>3, <1>6 DEF Place
<1>9. suite = "tls13"
  OBVIOUS
<1>10. /\ Runs(suite, flight, Before(suite, "encrypted_extensions"), HsKey("server"))
       /\ Before(suite, "encrypted_extensions") + Len(flight) = Before(suite, "none")
  OBVIOUS
<1> HIDE DEF suite, a, m, b, hello, ccs
<1>11. Moves(suite, first.type, first.key, first.bytes, a, m)
  <2>1. m.n = a.n + Len(hello)
    BY <1>2, <1>3, <1>8
  <2> QED
    BY <1>2, <1>4, <1>5, <1>7, <1>8, <2>1 DEF Moves
<1>12. Moves(suite, last.type, last.key, last.bytes, m, b)
  BY <1>4, <1>5, <1>7, <1>8, <1>10 DEF Moves
<1>13. Moves(suite, ccs.type, ccs.key, ccs.bytes, m, m)
  BY <1>7, <1>8, <1>9 DEF Moves
<1> DEFINE links == ItemLinks(suite)
<1>14. <<first, a, m>> \in links /\ <<last, m, b>> \in links /\ <<ccs, m, m>> \in links
  BY <1>7, <1>8, <1>11, <1>12, <1>13, ItemLink
<1> HIDE DEF links
<1>15. Chain(u, a, b, links)
  <2>1. CASE Len(u) = 2 /\ u[1] = first /\ u[2] = last
    <3>1. <<u[1], a, m>> \in links /\ <<u[2], m, b>> \in links
      BY <1>14, <2>1
    <3> QED
      BY <2>1, <3>1, ChainTwo
  <2>2. CASE Len(u) = 3 /\ u[1] = first /\ u[3] = last /\ u[2] = ccs
    <3>1. <<u[1], a, m>> \in links /\ <<u[2], m, m>> \in links /\ <<u[3], m, b>> \in links
      BY <1>14, <2>2
    <3> QED
      BY <2>2, <3>1, ChainThree
  <2> QED
    BY <2>1, <2>2 DEF ccs
<1> QED
  BY <1>15 DEF suite, a, b, links

LEMMA ServerHelloFlows ==
  ASSUME IInv, Flows, NEW suite \in Suites, ServerHello(suite)
  PROVE  Flows'
<1> DEFINE hello == <<"client_hello", "server_hello">>
           hs(side) == Key("handshake", side, hello)
           chain == <<"server_hello", "certificate">>
                    \o (IF suite = "tls12_ecdhe" THEN <<"server_key_exchange">> ELSE <<>>)
                    \o <<"server_hello_done">>
           flight12 == Bytes("server_hello") \o Bytes("certificate")
                       \o (IF suite = "tls12_ecdhe" THEN Bytes("server_key_exchange") ELSE <<>>)
                       \o Bytes("server_hello_done")
           flight13 == Bytes("encrypted_extensions") \o Bytes("certificate")
                       \o Bytes("certificate_verify") \o Bytes("finished")
           signed == hello \o <<"encrypted_extensions", "certificate">>
           verified == Append(signed, "certificate_verify")
           spoken == <<"client_hello">> \o chain
           first13 == HandshakeRecord(Plain, Bytes("server_hello"))
           last13 == HandshakeRecord(hs("server"), flight13)
           first12 == HandshakeRecord(Plain, flight12)
           change == ServerRecord("change_cipher_spec", Plain)
           ours == hs("server")
           theirs == hs("client")
<1>1. /\ srv.state = "expecting_hello" /\ toServer # <<>> /\ toServer' = Tail(toServer)
      /\ UNCHANGED <<ctx, call, payload, status, toClient>>
  BY DEF ServerHello
<1>2. /\ suite # "tls13" =>
           srv' = [srv EXCEPT !.state = "expecting_key_exchange", !.suite = suite,
                              !.transcript = spoken, !.unsent = <<first12>>]
      /\ suite = "tls13" =>
           \E ccs \in {<<>>, <<change>>} :
             srv' = [srv EXCEPT
               !.state = "expecting_finished", !.suite = suite,
               !.transcript = Append(verified, "finished"),
               !.signed = signed, !.verify = Proof(ours, verified),
               !.readKey = theirs,
               !.unsent = <<first13>> \o ccs \o <<last13>>]
  BY DEF ServerHello
<1>3. suite \in Suite /\ srv \in ServerState
  BY SuiteAssumption DEF IInv, Typed, Suite
<1>4. srv.writeKey = Plain /\ srv.readKey = Plain /\ srv.readSeq = 0
  BY <1>1, AtHello
<1>5. ours = HsKey("server") /\ theirs = HsKey("client")
  BY DEF HsKey, Hello
<1>6. suite # "tls13" => spoken = Flight12(suite)
  BY HelloHeard
<1>7. signed = Heard(suite, "TLS1_3_EXPECTING_CERTIFICATE_VERIFY")
  BY HelloHeard DEF Hello
<1> HIDE DEF chain, signed, spoken
<1>8. /\ verified = Heard(suite, "TLS1_3_EXPECTING_FINISHED")
      /\ Append(verified, "finished") = Heard13
  BY <1>7, HeardNext, Tuples
<1>9. Plain \in KeySet /\ HsKey("server") \in KeySet /\ \A s \in Suite : DataKey(s, "server") \in KeySet
  BY KeysTyped DEF Side
<1>10. CASE suite # "tls13"
  <2>1. /\ flight12 \in Seq(Byte) /\ Runs(suite, flight12, 0, Plain)
        /\ Len(flight12) = Before(suite, "finished") /\ flight12 # <<>>
    BY <1>3, <1>10, FlightRun12
  <2> HIDE DEF flight12
  <2> DEFINE unsent == <<first12>>
             e == [n |-> Before(suite, "finished"), key |-> Plain]
             links == ItemLinks(suite)
  <2>2. Chain(unsent, [n |-> 0, key |-> Plain], e, links)
    BY <1>3, <1>10, <2>1, AnswerChain12
  <2>3. Len(unsent) = 1 /\ unsent[1] = first12 /\ first12.type = "handshake"
    BY DEF HandshakeRecord
  <2>4. "finished" \in Said(suite)
    BY <1>3, <1>10 DEF Said, Suite
  <2>5. e \in Place
    <3>1. Before(suite, "finished") \in Nat
      BY <1>3, <2>4, OffsetsTyped
    <3> QED
      BY <1>9, <3>1 DEF Place
  <2>6. srv' = [srv EXCEPT !.state = "expecting_key_exchange", !.suite = suite,
                           !.transcript = spoken, !.unsent = unsent]
    BY <1>2, <1>10
  <2> HIDE DEF unsent, first12, links
  <2>7. /\ srv'.state = "expecting_key_exchange" /\ srv'.suite = suite
        /\ srv'.transcript = spoken /\ srv'.unsent = unsent
        /\ srv'.writeKey = Plain /\ srv'.readKey = Plain /\ srv'.readSeq = 0
    BY <1>3, <1>4, <2>6 DEF ServerState
  <2>8. e = EndPlace(srv')
    BY <1>10, <2>7 DEF EndPlace
  <2> HIDE DEF e
  <2>9. ServerKnows'
    BY <1>6, <1>10, <2>7 DEF ServerKnows, ServerKnows12
  <2>10. UnsentOnTime(srv')
    <3>1. NotEarly(srv', first12)
      BY <2>3 DEF NotEarly
    <3>2. \A i \in 1 .. Len(unsent) : i = 1
      BY <2>3
    <3> QED
      BY <2>3, <2>7, <3>1, <3>2 DEF UnsentOnTime
  <2>11. Chain(srv'.unsent, [n |-> 0, key |-> Plain], e, ItemLinks(suite))
    BY <2>2, <2>7 DEF links
  <2>12. srv'.state = IF suite = "tls13" THEN "expecting_finished" ELSE "expecting_key_exchange"
    BY <1>10, <2>7
  <2> QED
    BY <1>1, <1>3, <2>5, <2>7, <2>8, <2>9, <2>10, <2>11, <2>12, ChosenFlows
<1>11. CASE suite = "tls13"
  <2>1. /\ flight13 \in Seq(Byte) /\ flight13 # <<>>
        /\ Runs("tls13", flight13, Before("tls13", "encrypted_extensions"), HsKey("server"))
        /\ Before("tls13", "encrypted_extensions") + Len(flight13) = Before("tls13", "none")
    BY FlightRun13
  <2>2. PICK ccs \in {<<>>, <<change>>} :
             srv' = [srv EXCEPT
               !.state = "expecting_finished", !.suite = suite,
               !.transcript = Append(verified, "finished"),
               !.signed = signed, !.verify = Proof(ours, verified),
               !.readKey = theirs,
               !.unsent = <<first13>> \o ccs \o <<last13>>]
    BY <1>2, <1>11
  <2> HIDE DEF flight13
  <2>3. last13 = HandshakeRecord(HsKey("server"), flight13)
    BY <1>5
  <2>4. first13 \in Item /\ last13 \in Item /\ change \in Item
    <3>1. "server_hello" \in ServerMessage
      BY DEF ServerMessage
    <3>2. Bytes("server_hello") \in Seq(Byte)
      BY <3>1, BytesTyped
    <3> QED
      BY <1>9, <2>1, <2>3, <3>2, HandshakeRecordTyped, ServerRecordTyped DEF RecordType
  <2>5. first13.type = "handshake" /\ last13.type = "handshake"
    BY <2>3 DEF HandshakeRecord
  <2> DEFINE unsent == <<first13>> \o ccs \o <<last13>>
             verify == Proof(ours, verified)
             transcript == Append(verified, "finished")
  <2>6. first13 = HandshakeRecord(Plain, Bytes("server_hello"))
    OBVIOUS
  <2> HIDE DEF first13, last13, change, verified, ours, theirs
  <2>7. \/ Len(unsent) = 2 /\ unsent[1] = first13 /\ unsent[2] = last13
        \/ /\ Len(unsent) = 3 /\ unsent[1] = first13 /\ unsent[3] = last13
           /\ unsent[2] = change
    <3>1. CASE ccs = <<>>
      <4>1. unsent = <<first13>> \o <<>> \o <<last13>>
        BY <3>1
      <4> HIDE DEF unsent
      <4> QED
        BY <2>4, <4>1, TwoItems
    <3>2. CASE ccs = <<change>>
      <4> DEFINE x == <<first13>>
                 y == <<last13>>
      <4>1. unsent = x \o ccs \o y /\ x = <<first13>> /\ y = <<last13>>
        OBVIOUS
      <4> HIDE DEF x, y
      <4> HIDE DEF unsent
      <4>2. IsThree(unsent, first13, change, last13)
        BY <2>4, <3>2, <4>1, ThreeItems
      <4> QED
        BY <4>2 DEF IsThree
    <3> QED
      BY <3>1, <3>2
  <2>8. srv' = [srv EXCEPT !.state = "expecting_finished", !.suite = suite,
                           !.transcript = transcript, !.signed = signed, !.verify = verify,
                           !.readKey = theirs, !.unsent = unsent]
    BY <2>2
  <2>9. transcript = Heard13 /\ verify = Proof(HsKey("server"), Heard(suite, "TLS1_3_EXPECTING_FINISHED"))
    BY <1>5, <1>8
  <2> HIDE DEF unsent, verify, transcript
  <2>10. /\ srv'.state = "expecting_finished" /\ srv'.suite = suite
         /\ srv'.transcript = transcript /\ srv'.unsent = unsent /\ srv'.signed = signed
         /\ srv'.verify = verify /\ srv'.readKey = theirs
         /\ srv'.writeKey = Plain /\ srv'.readSeq = 0
    BY <1>3, <1>4, <2>8 DEF ServerState
  <2> DEFINE e == [n |-> Before("tls13", "none"), key |-> DataKey("tls13", "server")]
             links == ItemLinks("tls13")
  <2>11. e \in Place
    <3>1. "tls13" \in Suite
      BY DEF Suite
    <3>2. Before("tls13", "none") \in Nat
      BY <3>1, OffsetsTyped
    <3> QED
      BY <1>9, <3>1, <3>2 DEF Place
  <2>12. e = EndPlace(srv')
    BY <1>11, <2>10 DEF EndPlace
  <2>13. Chain(unsent, [n |-> 0, key |-> Plain], e, links)
    BY <2>1, <2>3, <2>6, <2>7, AnswerChain13 DEF change
  <2> HIDE DEF e, links
  <2>14. ServerKnows'
    BY <1>5, <1>7, <1>11, <2>9, <2>10 DEF ServerKnows, ServerKnows13
  <2>15. UnsentOnTime(srv')
    <3>1. NotEarly(srv', first13) /\ NotEarly(srv', last13)
      BY <2>5 DEF NotEarly
    <3>2. change.type = "change_cipher_spec"
      BY DEF change, ServerRecord
    <3>3. NotEarly(srv', change)
      BY <1>11, <2>10, <3>2 DEF NotEarly
    <3>4. ASSUME NEW i \in 1 .. Len(unsent)
          PROVE  /\ NotEarly(srv', unsent[i])
                 /\ unsent[i].type = "change_cipher_spec" => i + 1 = Len(unsent)
      <4>1. CASE Len(unsent) = 2 /\ unsent[1] = first13 /\ unsent[2] = last13
        <5>1. i = 1 \/ i = 2
          BY <4>1
        <5> QED
          BY <2>5, <3>1, <4>1, <5>1
      <4>2. CASE /\ Len(unsent) = 3 /\ unsent[1] = first13 /\ unsent[3] = last13
                 /\ unsent[2] = change
        <5>1. i = 1 \/ (i = 2 /\ i + 1 = 3) \/ i = 3
          BY <4>2
        <5> QED
          BY <2>5, <3>1, <3>3, <4>2, <5>1
      <4> QED
        BY <2>7, <4>1, <4>2
    <3> QED
      BY <2>10, <3>4 DEF UnsentOnTime
  <2>16. Chain(srv'.unsent, [n |-> 0, key |-> Plain], e, ItemLinks(suite))
    BY <1>11, <2>10, <2>13 DEF links
  <2>17. srv'.state = IF suite = "tls13" THEN "expecting_finished" ELSE "expecting_key_exchange"
    BY <1>11, <2>10
  <2> QED
    BY <1>1, <1>3, <2>10, <2>11, <2>12, <2>14, <2>15, <2>16, <2>17, ChosenFlows
<1> QED
  BY <1>10, <1>11

-----------------------------------------------------------------------------
(* The theorems on what is under way *)

LEMMA InitFlows == Init => Flows
<1> SUFFICES ASSUME Init PROVE Flows
  OBVIOUS
<1>1. /\ ctx = NewContext /\ ctx.state = "SENDING_CLIENT_HELLO" /\ ctx.frag = NoFragment
      /\ ctx.writeSeq = 0 /\ ~ctx.readOn /\ ~ctx.writeOn
      /\ call = "none" /\ status = "none" /\ toServer = <<>> /\ toClient = <<>>
  BY DEF Init, NewContext
<1>2. /\ srv.state = "expecting_hello" /\ srv.suite = "none" /\ srv.unsent = <<>>
      /\ srv.writeKey = Plain /\ srv.readKey = Plain /\ srv.readSeq = 0
  BY DEF Init
<1>3. ClientKnows(ctx)
  BY <1>1 DEF ClientKnows, FragmentKnown, ConnectStates12, ConnectStates13
<1>4. Outgoing(srv, ctx, status, toServer)
  <2>1. toServer \in Seq(Asked) /\ Len(toServer) = 0
    BY <1>1
  <2> DEFINE n == Len(toServer)
  <2>2. n = 0
    BY <2>1
  <2> HIDE DEF n
  <2>3. \A i \in 1 .. n : FALSE
    BY <2>2
  <2>4. n <= 1
    BY <2>2
  <2> QED
    BY <1>1, <1>2, <2>1, <2>3, <2>4 DEF Outgoing, n
<1>5. \A i \in 1 .. Len(toClient) : NotEarly(srv, toClient[i])
  <2> DEFINE n == Len(toClient)
  <2>1. n = 0
    BY <1>1
  <2> HIDE DEF n
  <2>2. \A i \in 1 .. n : FALSE
    BY <2>1
  <2> QED
    BY <2>2 DEF n
<1>6. FlowsFor(ctx, call, payload, status, toServer, toClient)
  BY <1>1, <1>2, <1>3, <1>4, <1>5 DEF FlowsFor, PayloadFits, Failures
<1>7. ServerKnows /\ Fresh(srv)
  BY <1>2 DEF ServerKnows, ServerKnows12, Fresh
<1>8. UnsentOnTime(srv)
  <2> DEFINE n == Len(srv.unsent)
  <2>1. n = 0
    BY <1>2
  <2> HIDE DEF n
  <2>2. \A i \in 1 .. n : FALSE
    BY <2>1
  <2> QED
    BY <2>2 DEF n, UnsentOnTime
<1> QED
  BY <1>6, <1>7, <1>8 DEF Flows

\* A server that does not cut inside a header, nor a message that comes after
\* the handshake, keeps both sides in step.
LEMMA NextFlows ==
  ASSUME ~SplitHeaders, ~SplitTickets, IInv, Flows, [Next]_vars
  PROVE  Flows'
<1>1. CASE WriteClientHello
  BY <1>1, WriteClientHelloFlows
<1>2. CASE BeginConnect
  BY <1>2, BeginConnectFlows
<1>3. CASE ProcessIncomingRecord
  BY <1>3, ProcessIncomingRecordFlows
<1>4. CASE ProcessMessage
  BY <1>4, ProcessMessageFlows
<1>5. CASE GenerateOutgoingRecord
  BY <1>5, GenerateOutgoingRecordFlows
<1>6. CASE EndConnect
  BY <1>6, EndConnectFlows
<1>7. CASE EncryptMessage
  BY <1>7, EncryptMessageFlows
<1>8. CASE DecryptMessage
  BY <1>8, DecryptMessageFlows
<1>9. CASE ApplyControlToken
  BY <1>9, ApplyControlTokenFlows
<1>10. CASE Shutdown
  BY <1>10, ShutdownFlows
<1>11. CASE DeleteSecurityContext
  BY <1>11, DeleteSecurityContextFlows
<1>12. CASE \E suite \in Suites : ServerHello(suite)
  BY <1>12, ServerHelloFlows
<1>13. CASE ServerReceive
  BY <1>13, ServerReceiveFlows
<1>14. CASE ServerSend
  BY <1>14, ServerSendFlows
<1>15. CASE ServerSpeak
  BY <1>15, ServerSpeakFlows
<1>16. CASE ServerClose
  BY <1>16, ServerCloseFlows
<1>17. CASE UNCHANGED vars
  <2>1. UNCHANGED <<ctx, call, payload, status, srv, toServer, toClient>>
    BY <1>17 DEF vars
  <2>2. FlowsFor(ctx', call', payload', status', toServer', toClient')
    BY <2>1 DEF Flows
  <2> QED
    BY <2>1, <2>2, ClientStepFlows
<1> QED
  BY <1>1, <1>2, <1>3, <1>4, <1>5, <1>6, <1>7, <1>8, <1>9, <1>10, <1>11, <1>12, <1>13, <1>14,
     <1>15, <1>16, <1>17
  DEF Next, Connect, Server

\* The next record that a client can read opens with its key and count.
LEMMA RecordOpens ==
  ASSUME IInv, Flows, Usable \/ call = "input", toClient # <<>>, ctx.readOn,
         IsInputState(ctx) \/ ctx.state = "HANDSHAKE_COMPLETE",
         Head(toClient).type # "change_cipher_spec"
  PROVE  Opens(ctx, Head(toClient))
<1> DEFINE r == Head(toClient)
           p == Reached(srv.suite, ctx)
<1>1. call \in {"idle", "input"} /\ status \notin Failures
  BY DEF Usable, Flows, FlowsFor
<1>2. Reads(ctx, status)
  BY <1>1 DEF Reads, IsInputState, IsInputState12, IsInputState13
<1>3. srv.suite # "none" /\ toClient \in Seq(Arriving)
  BY DEF IInv, ServerFits, Typed
<1>4. Coming(srv, p, toClient)
  BY <1>1, <1>2, <1>3 DEF Flows, FlowsFor, AheadOf
<1>5. p.key = ctx.readKey /\ p.seq = ctx.readSeq
  <2>1. ~SendsFinished13(ctx.state)
    BY DEF SendsFinished13, IsInputState, IsInputState12, IsInputState13
  <2> QED
    BY <2>1 DEF Reached
<1> DEFINE suite == srv.suite
<1> HIDE DEF p
<1>6. PICK m \in Position : RecordMoves(suite, r, p, m)
  BY <1>3, <1>4, ComingHead
<1> HIDE DEF r, suite
<1>7. r.type # "change_cipher_spec"
  BY DEF r
<1>8. r.key = p.key /\ r.seq = p.seq
  BY <1>6, <1>7 DEF RecordMoves, Moves
<1> QED
  BY <1>5, <1>8 DEF Opens, r

\* The next record that the client has written is one the server waits for.
LEMMA RecordAccepted ==
  ASSUME IInv, Flows, srv.state \notin {"expecting_hello", "closed"}, toServer # <<>>
  PROVE  ServerAccepts(Head(toServer))
<1> DEFINE r == Head(toServer)
<1>1. /\ srv.suite = "tls13" => srv.state \in {"expecting_finished", "open"}
      /\ srv.suite # "none"
  BY DEF IInv, Typed, ServerFits
<1>2. Outgoing(srv, ctx, status, toServer)
  BY DEF Flows, FlowsFor
<1>3. PICK m \in Turn : Asks(srv.suite, Head(toServer), AwaitedTurn(srv), m)
  BY <1>2, OutgoingNext
<1>4. AwaitedTurn(srv).state = srv.state /\ AwaitedTurn(srv).seq = srv.readSeq
  BY DEF AwaitedTurn
<1> HIDE DEF r
<1>5. Asks(srv.suite, r, AwaitedTurn(srv), m)
  BY <1>3 DEF r
<1>6. /\ srv.suite = "tls13" => ServerKnows13
      /\ srv.suite # "tls13" => ServerKnows12
      /\ srv.state = "open" => srv.readKey = DataKey(srv.suite, "client")
  BY DEF Flows, ServerKnows
<1>7. CASE /\ r = Record("handshake", Plain, 0, <<"client_key_exchange">>)
           /\ srv.state = "expecting_key_exchange" /\ srv.readSeq = 0
  <2>1. /\ r.type = "handshake" /\ r.key = Plain /\ r.seq = 0
        /\ r.body = <<"client_key_exchange">>
    BY <1>7 DEF Record
  <2>2. srv.readKey = Plain
    BY <1>1, <1>6, <1>7 DEF ServerKnows12
  <2> QED
    BY <1>7, <2>1, <2>2 DEF ServerAccepts, r
<1>8. CASE /\ r = Record("change_cipher_spec", Plain, 0, <<>>)
           /\ srv.state = (IF srv.suite = "tls13" THEN "expecting_finished" ELSE "expecting_ccs")
  <2>1. r.type = "change_cipher_spec"
    BY <1>8 DEF Record
  <2> QED
    BY <1>8, <2>1 DEF ServerAccepts, r
<1>9. CASE /\ r = Record("handshake", ClientKey(srv.suite), 0, <<"finished", ClientProof(srv.suite)>>)
           /\ srv.state = "expecting_finished" /\ srv.readSeq = 0
  <2> DEFINE proof == ClientProof(srv.suite)
             key == ClientKey(srv.suite)
  <2>1. r.type = "handshake" /\ r.key = key /\ r.seq = 0 /\ r.body = <<"finished", proof>>
    <3> HIDE DEF proof, key
    <3>1. r = Record("handshake", key, 0, <<"finished", proof>>)
      BY <1>9 DEF proof, key
    <3> QED
      BY <3>1 DEF Record
  <2>2. srv.readKey = key /\ proof = Proof(srv.readKey, srv.transcript)
    BY <1>6, <1>9 DEF ServerKnows12, ServerKnows13, ClientKey, ClientProof
  <2> HIDE DEF proof, key
  <2>3. r.body = <<"finished", Proof(srv.readKey, srv.transcript)>>
    BY <2>1, <2>2
  <2> QED
    BY <1>9, <2>1, <2>2, <2>3 DEF ServerAccepts, r
<1>10. CASE /\ r.key = DataKey(srv.suite, "client") /\ r.seq = srv.readSeq
            /\ srv.state = "open" /\ r.type \in {"data", "close_notify"}
  BY <1>6, <1>10 DEF ServerAccepts, r
<1> QED
  BY <1>4, <1>5, <1>7, <1>8, <1>9, <1>10 DEF Asks

\* With a server that cuts where the client can go on, what is under way goes
\* on from where each side is.
THEOREM FlowsInvariance == ~SplitHeaders /\ ~SplitTickets => (Spec => []Flows)
<1> SUFFICES ASSUME ~SplitHeaders, ~SplitTickets
             PROVE  Spec => []Flows
  OBVIOUS
<1>1. IInv /\ Flows /\ [Next]_vars => Flows'
  BY NextFlows
<1> QED
  BY <1>1, InitFlows, Invariance, PTL DEF Spec

\* However the change of keys falls between the records and the calls, the record
\* that is next on the way opens where it arrives (tlshs13.c:184-197).
THEOREM KeysStayInSync == ~SplitHeaders /\ ~SplitTickets => (Spec => []KeysInSync)
<1> SUFFICES ASSUME ~SplitHeaders, ~SplitTickets
             PROVE  Spec => []KeysInSync
  OBVIOUS
<1>1. IInv /\ Flows => KeysInSync
  BY RecordOpens, RecordAccepted DEF KeysInSync
<1>2. Spec => []Flows
  BY FlowsInvariance
<1> QED
  BY <1>1, <1>2, Invariance, PTL

\* No call fails on what a server has sent that follows the protocol and cuts no
\* header, however it cuts its messages otherwise: bytes that are left of a record
\* are kept (tlshs.c:403-407).
THEOREM HonestPeersAreAccepted == ~SplitHeaders /\ ~SplitTickets => (Spec => []HonestPeerIsAccepted)
<1> SUFFICES ASSUME ~SplitHeaders, ~SplitTickets
             PROVE  Spec => []HonestPeerIsAccepted
  OBVIOUS
<1>1. Flows => HonestPeerIsAccepted
  BY DEF Flows, FlowsFor, HonestPeerIsAccepted
<1>2. Spec => []Flows
  BY FlowsInvariance
<1> QED
  BY <1>1, <1>2, PTL
=============================================================================
