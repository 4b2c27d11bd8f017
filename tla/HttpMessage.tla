----------------------------- MODULE HttpMessage -----------------------------
(***************************************************************************)
(* One connection's request_: how http_message collects a request from the *)
(* callbacks of http_parser, how connection::handle_read takes the verdict *)
(* and what it answers.                                                    *)
(*                                                                         *)
(* http_parser is a library.  It is modelled by the order in which it      *)
(* calls back: element by element of the message, each element (url, field *)
(* name, value, body) in one call or, where a read ended inside it, in     *)
(* several, the next of them when the next read is parsed.  A text is a    *)
(* sequence of indivisible pieces, so that an element of n pieces can be   *)
(* split at n - 1 places.                                                  *)
(***************************************************************************)
EXTENDS Naturals, Sequences, SequencesExt

CONSTANTS
  Fragment,   \* the indivisible pieces of a text
  Streams     \* what a client may send: a set of sequences of elements

(* The elements of a stream, in the order of the wire.  "junk" stands for  *)
(* bytes the parser refuses.                                               *)
Kind == {"begin", "url", "field", "value", "headers_complete", "body",
         "message_complete", "junk"}

(* Methods of the parser, and those of them http_message does not know.    *)
Unsupported == {"HTTP_HEAD", "HTTP_PATCH", "HTTP_PURGE"}
Methods == {"HTTP_GET", "HTTP_POST", "HTTP_PUT", "HTTP_DELETE"} \cup Unsupported

(* The parser has a method from the first byte of a message on and         *)
(* corrects it at later ones: the pieces of a "begin" are the methods it   *)
(* takes the message for, one after the other, the client's at the end.    *)
(* (A first message may be a response until the second byte of HEAD, and   *)
(* has method 0 until then.)                                               *)
Taken(method) ==
  CASE method = "HTTP_PUT"   -> <<"HTTP_POST", "HTTP_PUT">>
    [] method = "HTTP_PATCH" -> <<"HTTP_POST", "HTTP_PATCH">>
    [] method = "HTTP_PURGE" -> <<"HTTP_POST", "HTTP_PUT", "HTTP_PURGE">>
    [] OTHER                 -> <<method>>

Element(k, t) == [kind |-> k, text |-> t]
Elements ==
  {e \in [kind : Kind, text : Seq(Fragment)] :
     /\ e.kind = "begin" => e.text # <<>> /\ e.text \in Seq(Methods)
     /\ e.kind = "field" => e.text # <<>>
     /\ e.kind \in {"headers_complete", "message_complete", "junk"} => e.text = <<>>}

(* Their order: a value comes after its name and nothing else does, a line *)
(* ends with it, and a message begins before it is complete and is         *)
(* complete before the next begins; after junk anything may come.          *)
IsStream(s) ==
  /\ s \in Seq(Elements)
  /\ \A i \in DOMAIN s :
       /\ s[i].kind = "value" => i - 1 \in DOMAIN s /\ s[i - 1].kind = "field"
       /\ s[i].kind = "message_complete" => \E j \in 1 .. i - 1 : s[j].kind = "begin"
       /\ i + 1 \in DOMAIN s =>
            /\ s[i].kind = "field" => s[i + 1].kind \in {"value", "junk"}
            /\ s[i].kind = "value" => s[i + 1].kind \in
                 {"field", "headers_complete", "message_complete", "junk"}
       /\ \A j \in i + 1 .. Len(s) : s[i].kind = "begin" /\ s[j].kind = "begin" =>
            \E c \in i + 1 .. j - 1 : s[c].kind = "message_complete"

ASSUME StreamsAssumption == \A s \in Streams : IsStream(s)

(* A request in elements.  Header lines after the body are the trailer of  *)
(* a chunked body.                                                         *)
Lines(ls) == FlattenSeq([i \in DOMAIN ls |->
  <<Element("field", ls[i].name), Element("value", ls[i].value)>>])
Request(m) ==
  <<Element("begin", Taken(m.method)), Element("url", m.url)>>
  \o Lines(m.lines)
  \o <<Element("headers_complete", <<>>)>>
  \o (IF m.body = <<>> THEN <<>> ELSE <<Element("body", m.body)>>)
  \o Lines(m.trailer)
  \o <<Element("message_complete", <<>>)>>
Junk == <<Element("junk", <<>>)>>

VARIABLES
  stream,                  \* all the client sends
  next,                    \* the element the parser is at
  offset,                  \* and how many of its pieces it has handed over
  parsing,                 \* "no", "more" bytes in buffer_, or "drained"
  http_errno,              \* parser_.http_errno # HPE_OK
  parser_method,           \* parser_.method
  message_status_, method_, url_, headers_, body_,
  current_header_field_, current_header_value_,
  answer                   \* the buffers handed to async_write_some

header_vars == <<current_header_field_, current_header_value_, headers_>>
vars == <<stream, next, offset, parsing, http_errno, parser_method,
          message_status_, method_, url_, header_vars, body_, answer>>

(* A std::map of headers, and what assigning to headers[name] makes of it. *)
NoHeaders == [n \in {} |-> ""]
With(name, value, headers) ==
  [n \in {name} \cup DOMAIN headers |-> IF n = name THEN value ELSE headers[n]]

NoAnswer == [line |-> 0, headers |-> NoHeaders, content |-> "none"]

-----------------------------------------------------------------------------
(* Slips: a plausible mistake in the definition each is named for.         *)

\* the piece is assigned, not appended
Appended__assigned(text, piece) == piece

\* the value is not cleared when the line is saved
Saved__keeps_value ==
  IF current_header_value_ # <<>> /\ current_header_field_ # <<>>
  THEN [field   |-> <<>>,
        value   |-> current_header_value_,
        headers |-> With(current_header_field_, current_header_value_, headers_)]
  ELSE [field   |-> current_header_field_,
        value   |-> current_header_value_,
        headers |-> headers_]

\* a message once complete stays complete whatever the parser says
Verdict__complete_wins ==
  IF http_errno /\ message_status_ # "complete" THEN "faild" ELSE message_status_

\* an unsupported method is taken for a GET
Method__defaults_to_get(m) ==
  CASE m = "HTTP_POST"   -> "POST"
    [] m = "HTTP_PUT"    -> "PUT"
    [] m = "HTTP_DELETE" -> "DEL"
    [] OTHER             -> "GET"

\* the parser's enum is cast to the message's
Method__cast(m) == m

\* the headers are sent as the constructor left them
to_buffers__as_built(r) ==
  [line |-> r.status, headers |-> With("Date", "now", r.headers), content |-> r.content]

-----------------------------------------------------------------------------
(* impl::reset; method 0 of the library is DELETE.                         *)
reset ==
  /\ http_errno = FALSE
  /\ parser_method = "HTTP_DELETE"

(* connection's and http_message's constructors.                           *)
Init ==
  /\ stream \in Streams
  /\ next = 1 /\ offset = 0
  /\ parsing = "no"
  /\ reset
  /\ message_status_ = "want_more"
  /\ method_ = "INVALID"
  /\ url_ = <<>> /\ body_ = <<>>
  /\ headers_ = NoHeaders
  /\ current_header_field_ = <<>> /\ current_header_value_ = <<>>
  /\ answer = NoAnswer

(* http_parser_execute hands over n more pieces of the element it is at,   *)
(* of kind k.  The read may end there; it must if the element is not done, *)
(* and it cannot between the last byte of a message and message_complete.  *)
Calls(k, n) ==
  /\ parsing = "more" /\ next <= Len(stream) /\ stream[next].kind = k
  /\ n \in 0 .. Len(stream[next].text) - offset
  /\ n = 0 <=> stream[next].text = <<>>
  /\ IF offset + n < Len(stream[next].text)
     THEN /\ UNCHANGED next
          /\ offset' = offset + n
          /\ parsing' = "drained"
     ELSE /\ next' = next + 1
          /\ offset' = 0
          /\ parsing' \in IF next = Len(stream) THEN {"drained"}
                          ELSE IF stream[next + 1].kind = "message_complete"
                          THEN {"more"} ELSE {"more", "drained"}
  /\ UNCHANGED <<stream, method_, answer>>

Piece(n) == SubSeq(stream[next].text, offset + 1, offset + n)

Appended(text, piece) == text \o piece

(* http_message::save_headers: what it leaves in the three members.        *)
Saved ==
  IF current_header_value_ # <<>> /\ current_header_field_ # <<>>
  THEN [field   |-> <<>>,
        value   |-> <<>>,
        headers |-> With(current_header_field_, current_header_value_, headers_)]
  ELSE [field   |-> current_header_field_,
        value   |-> current_header_value_,
        headers |-> headers_]

-----------------------------------------------------------------------------
(* The callbacks.  on_message_begin comes with the first byte and does     *)
(* nothing; no callback tells that the parser corrects its method in a     *)
(* later read.                                                             *)
takes_method(n) ==
  /\ Calls("begin", n)
  /\ parser_method' = Last(Piece(n))
  /\ UNCHANGED <<http_errno, message_status_, url_, header_vars, body_>>

on_message_begin(n) == offset = 0 /\ takes_method(n)
method_corrected(n) == offset > 0 /\ takes_method(n)

on_url(n) ==
  /\ Calls("url", n)
  /\ url_' = Appended(url_, Piece(n))
  /\ UNCHANGED <<http_errno, parser_method, message_status_, header_vars, body_>>

on_header_field(n) ==
  /\ Calls("field", n)
  /\ headers_' = Saved.headers
  /\ current_header_field_' = Appended(Saved.field, Piece(n))
  /\ current_header_value_' = Saved.value
  /\ UNCHANGED <<http_errno, parser_method, message_status_, url_, body_>>

on_header_value(n) ==
  /\ Calls("value", n)
  /\ current_header_value_' = Appended(current_header_value_, Piece(n))
  /\ UNCHANGED <<http_errno, parser_method, message_status_, url_, body_,
                 current_header_field_, headers_>>

on_headers_complete ==
  /\ Calls("headers_complete", 0)
  /\ headers_' = Saved.headers
  /\ current_header_field_' = Saved.field
  /\ current_header_value_' = Saved.value
  /\ UNCHANGED <<http_errno, parser_method, message_status_, url_, body_>>

on_body(n) ==
  /\ Calls("body", n)
  /\ body_' = Appended(body_, Piece(n))
  /\ UNCHANGED <<http_errno, parser_method, message_status_, url_, header_vars>>

(* The parser goes on with the bytes behind the message, if there are any. *)
on_message_complete ==
  /\ Calls("message_complete", 0)
  /\ message_status_' = "complete"
  /\ UNCHANGED <<http_errno, parser_method, url_, header_vars, body_>>

(* The parser gives up; it looks at no byte after that.                    *)
syntax_error ==
  /\ parsing = "more" /\ next <= Len(stream) /\ stream[next].kind = "junk"
  /\ http_errno' = TRUE
  /\ parsing' = "drained"
  /\ next' = next + 1
  /\ UNCHANGED <<stream, offset, parser_method, message_status_, method_, url_,
                 header_vars, body_, answer>>

-----------------------------------------------------------------------------
(* connection::handle_read, with bytes: request_.parse begins ...          *)
parse ==
  /\ parsing = "no"
  /\ message_status_ = "want_more"
  /\ next <= Len(stream)
  /\ parsing' = "more"
  /\ UNCHANGED <<stream, next, offset, http_errno, parser_method,
                 message_status_, method_, url_, header_vars, body_, answer>>

(* ... impl::parse looks at the error, http_message::parse at the status   *)
Verdict == IF http_errno THEN "faild" ELSE message_status_

(* and the method, which stays INVALID if the switch does not know it, ... *)
Method(m) ==
  CASE m = "HTTP_GET"    -> "GET"
    [] m = "HTTP_POST"   -> "POST"
    [] m = "HTTP_PUT"    -> "PUT"
    [] m = "HTTP_DELETE" -> "DEL"
    [] OTHER             -> method_

(* ... and the answer is chosen: response(bad_request), or what dispatch   *)
(* makes of response(), which is "ok" without content until a handler of   *)
(* request_handler, all alike, fills it in.  A text that is not looked     *)
(* into is named; a Content-Length is named for the content it counts.     *)
StatusCode == {200, 201, 202, 204, 300, 301, 302, 304, 400, 401, 403, 404,
               500, 501, 502, 503}
status_line(code) == IF code \in StatusCode THEN code ELSE 500
stock_reply(code) == IF code = 200 THEN "" ELSE ToString(status_line(code))

stock_response(code) ==
  [status  |-> code,
   content |-> stock_reply(code),
   headers |-> With("Content-Length", stock_reply(code), NoHeaders)]
response ==
  [status  |-> 200,
   content |-> "",
   headers |-> With("Content-Type", "text/json",
               With("Server", "tonghao&asio",
               With("Connection", "close", NoHeaders)))]
handled == [response EXCEPT !.content = "complete me"]
dispatch(method) ==
  IF method \in {"GET", "POST", "PUT", "DEL"} THEN handled ELSE response

to_buffers(r) ==
  [line    |-> status_line(r.status),
   headers |-> With("Date", "now", With("Content-Length", r.content, r.headers)),
   content |-> r.content]

Reply(verdict, method) ==
  CASE verdict = "want_more" -> NoAnswer
    [] verdict = "faild"     -> to_buffers(stock_response(400))
    [] verdict = "complete"  -> to_buffers(dispatch(method))

handle_read ==
  /\ parsing = "drained"
  /\ parsing' = "no"
  /\ message_status_' = Verdict
  /\ method_' = IF Verdict = "complete" THEN Method(parser_method) ELSE method_
  /\ answer' = Reply(Verdict, method_')
  /\ UNCHANGED <<stream, next, offset, http_errno, parser_method, url_,
                 header_vars, body_>>

-----------------------------------------------------------------------------
Pieces == IF next <= Len(stream) THEN 0 .. Len(stream[next].text) ELSE {}

Next ==
  \/ parse \/ handle_read \/ syntax_error
  \/ on_headers_complete \/ on_message_complete
  \/ \E n \in Pieces :
       \/ on_message_begin(n) \/ method_corrected(n) \/ on_url(n)
       \/ on_header_field(n) \/ on_header_value(n) \/ on_body(n)

Spec == Init /\ [][Next]_vars

-----------------------------------------------------------------------------
(* What has been handed over, and what should have become of it.           *)

Consumed ==
  SubSeq(stream, 1, next - 1) \o
  (IF offset = 0 THEN <<>>
   ELSE <<Element(stream[next].kind, SubSeq(stream[next].text, 1, offset))>>)

Texts(T, k) ==
  FlattenSeq([i \in DOMAIN T |-> IF T[i].kind = k THEN T[i].text ELSE <<>>])
Seen(k) == \E i \in DOMAIN Consumed : Consumed[i].kind = k

Latest(indices) == Max({0} \cup indices)

(* What the last message begun is taken for.                               *)
MethodOf(T) == Last(T[Latest({i \in DOMAIN T : T[i].kind = "begin"})].text)

(* A line is stored when a later field name or the end of the headers      *)
(* closes it, unless its value is empty: then its name is glued to the     *)
(* next one's.                                                             *)
Values(T) == {i \in DOMAIN T : T[i].kind = "value" /\ T[i].text # <<>>}
Closed(T) == {i \in Values(T) : \E j \in i + 1 .. Len(T) :
                                   T[j].kind \in {"field", "headers_complete"}}
Name(T, i) == Texts(SubSeq(T, Latest({j \in Values(T) : j < i}) + 1, i), "field")
StoredHeaders(T) ==
  [n \in {Name(T, i) : i \in Closed(T)} |->
     T[Latest({i \in Closed(T) : Name(T, i) = n})].text]

(* What the client meant: each line of its own, the last of a name wins.   *)
AllValues(T) == {i \in DOMAIN T : T[i].kind = "value"}
SentHeaders(T) ==
  [n \in {T[i - 1].text : i \in AllValues(T)} |->
     T[Latest({i \in AllValues(T) : T[i - 1].text = n})].text]

(* One message, that ends where the last read ends, without an empty value *)
(* and without a trailer.                                                  *)
Plain(T) ==
  /\ \A i \in DOMAIN T : T[i].kind = "message_complete" <=> i = Len(T)
  /\ T[Len(T) - 1].kind # "value"
  /\ \A i \in AllValues(T) : T[i].text # <<>>

-----------------------------------------------------------------------------
(* The types of the state.                                                 *)
TypeOK ==
  /\ stream \in Streams
  /\ next \in 1 .. Len(stream) + 1
  /\ offset \in Nat
  /\ parsing \in {"no", "more", "drained"}
  /\ http_errno \in BOOLEAN
  /\ parser_method \in Methods
  /\ message_status_ \in {"complete", "want_more", "faild"}
  /\ method_ \in {"GET", "POST", "PUT", "DEL", "INVALID"}
  /\ answer.line \in {0, 200, 400}

(* Where the reads end does not matter: at every moment url_, body_ and    *)
(* headers_ are a function of the bytes parsed so far, however they were   *)
(* cut (message.cpp:79-117, 197-203).                                      *)
SplitsDoNotShow ==
  LET T == Consumed
  IN  /\ url_ = Texts(T, "url")
      /\ body_ = Texts(T, "body")
      /\ headers_ = StoredHeaders(T)

(* A plain request, one that ends where its last read ends, without an     *)
(* empty header value and without a trailer, is stored as it was sent      *)
(* and its method is the one the client wrote, whatever it was taken for   *)
(* before (message.cpp:92-111, 157 and 197-203).                           *)
PlainRequestAsSent ==
  answer.line = 200 /\ Plain(Consumed) =>
    /\ headers_ = SentHeaders(Consumed)
    /\ \E i \in DOMAIN stream :
         /\ {j \in DOMAIN Consumed : Consumed[j].kind = "begin"} = {i}
         /\ parser_method = Last(stream[i].text)

(* The answer is decided by the last byte of the read that completes the   *)
(* request: 200 exactly if a message is complete and nothing the parser    *)
(* refuses came with it, 400 exactly if it came (message.cpp:65-72).       *)
AnswerExact ==
  parsing = "no" =>
    /\ answer.line = 400 <=> Seen("junk")
    /\ answer.line = 200 <=> ~Seen("junk") /\ Seen("message_complete")

(* A client can tell where a reply ends: the Content-Length sent is that   *)
(* of the content sent, although the stock replies set it when they are    *)
(* built and the others get their content later (response.cpp:92 and 225,  *)
(* request_handler.cpp:8-38).  Only the others say that the connection     *)
(* ends with the reply, which it does in both cases.                       *)
ReplyStandsAlone ==
  answer # NoAnswer =>
    /\ {"Date", "Content-Length"} \subseteq DOMAIN answer.headers
    /\ answer.headers["Content-Length"] = answer.content
    /\ "Connection" \in DOMAIN answer.headers <=> answer.line = 200

(* A method nothing is written for is answered 200 without content.  The   *)
(* method looked at is the one the parser takes the last message for that  *)
(* has begun, of which no more than a first byte need have come, although  *)
(* it is an earlier one that is complete (message.cpp:157-173,             *)
(* connection.cpp:34-53).                                                  *)
LastMethodAnswers ==
  answer.line = 200 =>
    (answer.content = "" <=> MethodOf(Consumed) \in Unsupported)

-----------------------------------------------------------------------------
(* The inductive invariant.                                                *)

(* Within an element the parser has handed over a part of it.              *)
Position ==
  offset > 0 => next <= Len(stream) /\ offset < Len(stream[next].text)

(* The line not stored yet: a value that waits for what closes it and its  *)
(* name, or the names since the last value, and no value.                  *)
Pending(T) == Latest(Values(T)) \in Values(T) \ Closed(T)
BufferedName(T) ==
  IF Pending(T) THEN Name(T, Latest(Values(T)))
  ELSE Texts(SubSeq(T, Latest(Values(T)) + 1, Len(T)), "field")
BufferedValue(T) == IF Pending(T) THEN T[Latest(Values(T))].text ELSE <<>>
Buffered ==
  /\ current_header_field_ = BufferedName(Consumed)
  /\ current_header_value_ = BufferedValue(Consumed)

(* The method is the one the last message begun is taken for so far.       *)
Begun == Seen("begin") => parser_method = MethodOf(Consumed)

(* Nothing is answered while a read is parsed; after it the answer is that *)
(* to the verdict, and no read follows the verdict.                        *)
Answering ==
  /\ http_errno <=> Seen("junk")
  /\ message_status_ =
       IF parsing = "no" /\ Seen("junk") THEN "faild"
       ELSE IF Seen("message_complete") THEN "complete" ELSE "want_more"
  /\ IF parsing = "no"
     THEN /\ answer = Reply(message_status_, method_)
          /\ method_ = "INVALID" <=>
               (message_status_ = "complete" => parser_method \in Unsupported)
     ELSE answer = NoAnswer /\ method_ = "INVALID"

Inv == TypeOK /\ Position /\ SplitsDoNotShow /\ Buffered /\ Begun /\ Answering

=============================================================================
