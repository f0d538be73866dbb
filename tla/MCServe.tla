------------------------------- MODULE MCServe -------------------------------
(* Every route with each method, heads of up to three lines that offer nothing, *)
(* gzip last, deflate last or something unknown, and POSTs of every body of up  *)
(* to three symbols; the tokenizer takes three tokens, so that a head of three  *)
(* lines exhausts it, and the buffer cuts the longest messages.                 *)
EXTENDS Serve
CONSTANTS ua, gz, gd, br, host, word
MCOffers == [s \in {gz, gd, br} |->
  CASE s = gz -> <<"identity", "gzip">> [] s = gd -> <<"gzip", "deflate", "br">> [] s = br -> <<"br">>]
MCAgentLen == [s \in {ua} |-> 4]

Paths == {[route |-> r, name |-> n] : r \in {"/echo/", "/files/"}, n \in {"", "x"}} \cup
         {[route |-> r, name |-> ""] : r \in {"/", "/user-agent", "/redirect", "/error", ""}}
Heads == {<<>>, <<ua>>, <<gz>>, <<gd>>, <<br>>, <<gz, br>>, <<gz, gd>>, <<host, ua, gz>>}
Texts == {word, LF, CR, SP, NUL}
MCRequests ==
  {[method |-> m, route |-> p.route, name |-> p.name, head |-> h, body |-> <<>>] :
     m \in {"GET", "PUT"}, p \in Paths, h \in Heads} \cup
  {[method |-> "POST", route |-> p.route, name |-> p.name, head |-> h, body |-> b] :
     p \in {q \in Paths : q.route = "/files/"}, h \in {<<>>, <<ua>>, <<host, ua, gz>>},
     b \in UNION {[1 .. n -> Texts] : n \in 0 .. 3} \cup {<<gz>>, <<gz, LF, word>>}}
=============================================================================
