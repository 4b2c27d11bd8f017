--------------------------- MODULE MCHttpMessage ---------------------------
(* Instances of HttpMessage for TLC: the requests clients send.            *)
EXTENDS HttpMessage

(* The pieces their texts are made of.                                     *)
MCFragment ==
  Methods \cup {"/", "x", "/y", "n1", "n2", "m", "k", "a", "b", "c", "d", "e",
                "p", "q"}

Line(n, v) == [name |-> n, value |-> v]
Message(m, u, ls, b, t) ==
  [method |-> m, url |-> u, lines |-> ls, body |-> b, trailer |-> t]

(* Names and values of two pieces (they can be split), of one, and the     *)
(* empty value.  The third line names the first again.                     *)
HeaderLines ==
  {Line(<<"n1", "n2">>, v) : v \in {<<"a", "b">>, <<"c">>, <<>>}}
  \cup {Line(<<"m">>, v) : v \in {<<"d">>, <<>>}}
AtMostTwoLines == {<<>>} \cup {<<l>> : l \in HeaderLines}
                  \cup {<<l, k>> : l, k \in HeaderLines}

Gets == {Message("HTTP_GET", <<"/", "x">>, ls, b, <<>>) :
           ls \in AtMostTwoLines, b \in {<<>>, <<"p", "q">>}}
Chunked == {Message("HTTP_POST", <<"/">>, ls, <<"p">>, t) :
              ls \in {<<>>} \cup {<<l>> : l \in HeaderLines},
              t \in AtMostTwoLines \ {<<>>}}
Others == {Message(m, <<"/y">>, <<Line(<<"k">>, <<"e">>)>>, <<>>, <<>>) :
             m \in Methods \ {"HTTP_GET", "HTTP_POST"}}

(* Those with something behind them have one header line or trailer line.  *)
Followed == {m \in Gets \cup Chunked : Len(m.lines) + Len(m.trailer) = 1}

(* A request whose first byte may be that of a response.                   *)
HeadFirst(r) == [r EXCEPT ![1].text = <<"HTTP_DELETE">> \o @]

(* One request; two on one connection; one, whole or broken off after its  *)
(* headers, with bytes behind it that the parser refuses.                  *)
MCStreams ==
  {Request(m) : m \in Gets \cup Chunked \cup Others}
  \cup {HeadFirst(Request(m)) : m \in {k \in Others : k.method = "HTTP_HEAD"}}
  \cup {Request(m) \o Request(k) : m \in Followed, k \in Others}
  \cup {Request(m) \o Junk : m \in Followed}
  \cup {SubSeq(Request(m), 1, 4) \o Junk : m \in Followed}
=============================================================================
