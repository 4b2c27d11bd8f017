------------------------------ MODULE LineEcho ------------------------------
(* What the line server of tutorial/202.async_tcp_server_streambuf.cpp     *)
(* promises to one client: pieces of what it has sent, each up to the end  *)
(* of a line and without its '\n', come back, in their order and none      *)
(* twice.  Not promised is that a piece is a whole line: in front of it as *)
(* many bytes may be missing as the piece before took from the stream.     *)
EXTENDS Naturals, Sequences

CONSTANT Total       \* the bytes the client sends are 1 .. Total

VARIABLES newlines,  \* those that are a '\n'
          heard,     \* the pieces, from their first byte to their last
          returned   \* how many of them have been sent back

echo_vars == <<newlines, heard, returned>>

Piece == [from : 1 .. Total, to : 0 .. Total]

(* What a piece took from the stream, and where it ends, with its '\n'.    *)
Size(p) == p.to + 2 - p.from
End == IF heard = <<>> THEN 0 ELSE heard[Len(heard)].to + 1

IsLineEnd(p) ==
  /\ p.from <= p.to + 1
  /\ p.to + 1 \in newlines
  /\ \A i \in newlines : i < p.from \/ p.to < i

Follows(p) ==
  /\ End < p.from
  /\ p.from - (End + 1) <= (IF heard = <<>> THEN 0 ELSE Size(heard[Len(heard)]))

-----------------------------------------------------------------------------
Init ==
  /\ newlines \in SUBSET (1 .. Total)
  /\ heard = <<>> /\ returned = 0

Hear ==
  /\ \E p \in Piece : IsLineEnd(p) /\ Follows(p) /\ heard' = Append(heard, p)
  /\ UNCHANGED <<newlines, returned>>

Return ==
  /\ returned < Len(heard)
  /\ returned' = returned + 1
  /\ UNCHANGED <<newlines, heard>>

Next == Hear \/ Return

Spec == Init /\ [][Next]_echo_vars
=============================================================================
