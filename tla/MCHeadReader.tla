---------------------------- MODULE MCHeadReader ----------------------------
(* Requests for the runs of HeadReader and Gateway. *)
EXTENDS HeadReader, SequencesExt

CRLF        == <<"CR", "LF">>
Ends        == {CRLF, <<"LF">>, <<"CR">>}
First       == <<"x", "x">>
LengthIs(d) == <<"name", "colon", "space">> \o d
Longer(n)   == [i \in 1..n |-> "x"]

Sent(ls, e)  == FlattenSeq([i \in 1..Len(ls) |-> ls[i] \o e])
Lines(ls, e) == [lines |-> ls, end |-> e, post |-> FALSE, announced |-> 0, body |-> <<>>,
                 query |-> <<>>, form |-> <<>>, head |-> Sent(ls, e) \o e,
                 from |-> [i \in 1..Len(ls) + 1 |-> Len(Sent(SubSeq(ls, 1, i - 1), e))]]
Post(ls, e, n, b) == [Lines(ls, e) EXCEPT !.post = TRUE, !.announced = n, !.body = b]
PostOf(d, n, b)   == Post(<<First, LengthIs(d)>>, CRLF, n, b)

(* All three ways to end a line, with and without a body; lengths that are *)
(* missing, negative or too long; a line longer than the buffer; nothing.  *)
HeadRequests ==
  {Post(<<First, LengthIs(<<"2">>)>>, e, 2, <<"x", "LF">>) : e \in Ends}
  \cup {Lines(<<First, <<"x">>>>, e) : e \in Ends}
  \cup {PostOf(<<"minus", "1">>, -1, <<>>), PostOf(<<"minus", "2">>, -2, <<>>), PostOf(<<"2">>, 2, <<"x">>),
        Post(<<First, Longer(8), LengthIs(<<"1">>)>>, CRLF, 1, <<"x">>),
        Post(<<First>>, CRLF, 0, <<>>), Lines(<<<<>>>>, CRLF)}

EdgeRequests == {Post(<<First, Longer(n), LengthIs(<<"1">>)>>, CRLF, 1, <<"x">>) : n \in 5..7}
=============================================================================
