----------------------------- MODULE MCConnect ------------------------------
(***************************************************************************)
(* Connect for TLC: every TLSConfig alone, and lists of options that       *)
(* override each other; servers that differ in limit, transport, accepted  *)
(* tokens and in the sense of their HELLO.                                 *)
(***************************************************************************)
EXTENDS Connect

Token(t) == [kind |-> "token", token |-> t]
TLS(ca, cert, key, version, skip) ==
  [kind |-> "tls",
   config |-> [CAFile |-> ca, CertFile |-> cert, KeyFile |-> key, ServerName |-> "",
               SkipVerify |-> skip, MinVersion |-> version]]
TLSValue(set) == [kind |-> "tlsConfig", set |-> set]
NilOption == [kind |-> "nil"]

GoodTLS == TLS("good", "", "", "", FALSE)
EmptyTLS == TLS("", "", "", "", FALSE)

MCOptionLists ==
  {<<>>, <<Token("t1")>>, <<Token("t2")>>, <<NilOption, Token("t2"), Token("t1")>>,
   <<GoodTLS, Token("t1"), EmptyTLS>>, <<TLSValue(TRUE), Token("t1")>>,
   <<Token("t1"), EmptyTLS, TLSValue(TRUE)>>,
   <<TLSValue(TRUE), TLSValue(FALSE), Token("t1")>>}
  \cup {<<Token("t1"), TLS(ca, cert, key, version, skip), NilOption>> :
          ca \in Files, cert \in Files, key \in Files,
          version \in {"", "1.3", "1.1"}, skip \in BOOLEAN}

Hello(version, max) ==
  <<"ok", "|", version, ";", max, ";", "1", ";", "admin">>
Server(tls, tokens, hello) == [tls |-> tls, tokens |-> tokens, hello |-> hello]

MCServers ==
  {Server(FALSE, {"t1"}, Hello("1", "9999")), Server(FALSE, {"", "t1", "t2"}, Hello("1", "65536")),
   Server(FALSE, {"t1"}, Hello("1", "1")), Server(FALSE, {"t1"}, Hello("60", "1")),
   Server(FALSE, {"t1"}, Hello("1", "2147483648")),
   Server(FALSE, {"t1"}, Refusal("3003")),
   Server(TRUE, {"t1"}, Hello("1", "9999"))}

MCRequestSizes == {One, Number("60"), Number("9999"), Number("65536")}
MCHelloSize == Number("60")
=============================================================================
