----------------------------- MODULE HttpReceive -----------------------------
(***************************************************************************)
(* http_request of network_config.c and of networking_config_news.c from   *)
(* the first poll to the result: the receive loop by chunks, then          *)
(* parse_info or parse_news_titles over the bytes that came.  The two are  *)
(* the same loop over buffers of their own, so that a behaviour is that of *)
(* one of the threads, request after request.                              *)
(*                                                                         *)
(* A response is HeaderSize bytes, Content-Length among them, and a body   *)
(* of items, each the three bytes key, first and second half of the value, *)
(* or a body without items: an error of the proxy.  The connection may     *)
(* break or fall silent after any byte.                                    *)
(*                                                                         *)
(* The buffer is cleared before the loop, so that a NUL follows what came, *)
(* unless it fills the buffer: then the parser of the titles reads on into *)
(* whatever lies behind it.  What an overrun of the buffer destroys there  *)
(* is left out.                                                            *)
(***************************************************************************)
EXTENDS FiniteSetsExt, Integers, Sequences

CONSTANTS BufSize,      \* size of shared_http_buf and news_buf: 3072, 5120
          ChunkSize,    \* size of shared_http_chunk and news_chunk: 256
          HeaderSize,   \* bytes up to the end of "\r\n\r\n"
          NEWS_MAX,
          NewsAnswers   \* the bodies of /news: sequences of items (external)

ItemSize  == 3
ErrorSize == 1   \* of a body without items

\* In the order of json.dumps(data), weekday to ip left out, and of fields[].
ResponseOrder == <<"unix_epoch", "city", "country", "latitude", "longitude", "weather", "temperature">>
fields == <<"city", "country", "weather", "temperature", "latitude", "longitude", "unix_epoch">>

\* A title, a title that is null, or a string without a key.
NewsItems == {"title", "null", "string"}

Fields == {fields[n] : n \in DOMAIN fields}
MaxAge == 1      \* bound: of the last response that was parsed (0), or older

\* A chunk holds a byte and its terminator, an answer to /info fits its buffer.
ASSUME BufferAssumption ==
    /\ ChunkSize \in Nat \ {0, 1} /\ BufSize \in Nat /\ HeaderSize \in Nat \ {0}
    /\ HeaderSize + ItemSize * Len(ResponseOrder) < BufSize

ASSUME NewsAssumption == NEWS_MAX \in Nat /\ NewsAnswers \subseteq Seq(NewsItems)

VARIABLES
    path,            \* whose request it is: "info" or "news"
    pc,
    items,           \* the items of the response's body (external)
    total,           \* bytes received
    content_length,  \* -1 until the headers are complete
    broken,          \* history: the loop ended because nothing came
    seen,            \* bytes of the body that the parser finds
    i,               \* the item or field the parser looks at next
    g_info,          \* per field: of which response it is, and what came of it
    g_news           \* the titles: their items, and what came of them

vars == <<path, pc, items, total, content_length, broken, seen, i, g_info, g_news>>

received == <<items, total, content_length, broken>>

BodySize == IF items = <<>> THEN ErrorSize ELSE ItemSize * Len(items)
Size     == HeaderSize + BodySize
HeadersComplete == total >= HeaderSize

Amounts == {"empty", "cut", "whole"}

TypeOK ==
    /\ path \in {"info", "news"}
    /\ pc \in {"connect", "poll", "body", "parse", "close", "sleep forever"}
    /\ total \in 0 .. Size
    /\ content_length \in {-1, BodySize}
    /\ broken \in BOOLEAN /\ seen \in Nat /\ i \in Nat
    /\ g_info \in [Fields -> [age : 0 .. MaxAge, amount : Amounts]]
    /\ Len(g_news) <= NEWS_MAX

Init ==
    /\ path \in {"info", "news"}
    /\ pc = "connect" /\ items = <<>> /\ total = 0 /\ content_length = -1
    /\ broken = FALSE /\ seen = 0 /\ i = 1
    /\ g_info = [f \in Fields |-> [age |-> MaxAge, amount |-> "empty"]]
    /\ g_news = <<>>

Goto(from, to) == pc = from /\ pc' = to

-----------------------------------------------------------------------------
\* External: the proxy answers the request that was sent.
Request ==
    /\ Goto("connect", "poll")
    /\ items' \in IF path = "info" THEN {ResponseOrder, <<>>} ELSE NewsAnswers \cup {<<>>}
    /\ total' = 0 /\ content_length' = -1 /\ broken' = FALSE
    /\ UNCHANGED <<path, seen, i, g_info, g_news>>

LoopCondition == total < BufSize - 1

\* poll times out or fails, or recv returns 0 or less.
Break == /\ LoopCondition
         /\ Goto("poll", "body")
         /\ broken' = TRUE
         /\ UNCHANGED <<path, items, total, content_length, seen, i, g_info, g_news>>

\* Mutant: the chunk that completes the headers does not end the loop.
AllIsHereLater == content_length >= 0 /\ total' >= HeaderSize + content_length

\* Mutant: Content-Length is taken for the size of the whole response.
AllIsHereEarly == content_length' >= 0 /\ total' >= content_length'

AllIsHere == content_length' >= 0 /\ total' >= HeaderSize + content_length'

\* Mutant: a chunk counts for all that came.
ChunkAlone(n) ==
    /\ LoopCondition
    /\ n <= Size - total
    /\ total' = n
    /\ content_length' = IF total' >= HeaderSize THEN BodySize ELSE -1
    /\ Goto("poll", IF AllIsHere THEN "body" ELSE "poll")
    /\ UNCHANGED <<path, items, broken, seen, i, g_info, g_news>>

Chunk(n) ==
    /\ LoopCondition
    /\ n <= Size - total
    /\ total' = total + n
    /\ content_length' = IF total' >= HeaderSize THEN BodySize ELSE -1
    /\ Goto("poll", IF AllIsHere THEN "body" ELSE "poll")
    /\ UNCHANGED <<path, items, broken, seen, i, g_info, g_news>>

BufferFull == /\ ~LoopCondition
              /\ Goto("poll", "body")
              /\ UNCHANGED <<path, received, seen, i, g_info, g_news>>

\* No NUL follows what came before the memory of others begins.
Unterminated == total >= BufSize

\* The body is parsed, however short, if "\r\n\r\n" came.  Of the bytes that were
\* written past the buffer the first few may still be there.
Body ==
    /\ Goto("body", IF HeadersComplete THEN "parse" ELSE "close")
    /\ seen' \in IF HeadersComplete
                 THEN Min({total, BufSize}) - HeaderSize .. total - HeaderSize ELSE {0}
    /\ i' = 1
    /\ g_info' = IF path = "info" /\ HeadersComplete
                 THEN [f \in Fields |-> [g_info[f] EXCEPT !.age = Min({@ + 1, MaxAge})]]
                 ELSE g_info
    /\ g_news' = IF HeadersComplete THEN <<>> ELSE g_news
    /\ UNCHANGED <<path, received>>

\* What the parser finds of the value of item k, if it finds its key.
KeyFound(k) == seen > ItemSize * (k - 1)
Amount(k)   == CASE seen >= ItemSize * k     -> "whole"
                 [] seen = ItemSize * k - 1  -> "cut"
                 [] OTHER                    -> "empty"

Position(f) == CHOOSE k \in DOMAIN ResponseOrder : ResponseOrder[k] = f

Found(f) == items # <<>> /\ KeyFound(Position(f))

\* Mutant: the loop ends at a key it does not find.
ParseFieldOrStop ==
    /\ path = "info" /\ pc = "parse" /\ i <= Len(fields)
    /\ g_info' = IF Found(fields[i])
                 THEN [g_info EXCEPT ![fields[i]] = [age |-> 0, amount |-> Amount(Position(fields[i]))]]
                 ELSE g_info
    /\ i' = IF Found(fields[i]) THEN i + 1 ELSE Len(fields) + 1
    /\ UNCHANGED <<path, pc, received, seen, g_news>>

\* A key that is missing leaves the field as it was.
ParseField ==
    /\ path = "info" /\ pc = "parse" /\ i <= Len(fields)
    /\ g_info' = IF Found(fields[i])
                 THEN [g_info EXCEPT ![fields[i]] = [age |-> 0, amount |-> Amount(Position(fields[i]))]]
                 ELSE g_info
    /\ i' = i + 1
    /\ UNCHANGED <<path, pc, received, seen, g_news>>

\* What the parser takes of the value of item k.  One that is cut goes on with the
\* bytes behind the buffer, which may make a null of its half, or anything of nothing.
Readings(k) == {Amount(k)} \cup
               IF Unterminated /\ (Amount(k) = "empty" \/ (Amount(k) = "cut" /\ items[k] = "null"))
               THEN {"empty", "cut"} ELSE {}

\* Only "title" and "null" have the key the parser looks for.  A null that came
\* whole is no title; one that was cut is taken for one.
IsTitle(k, amount) == /\ items[k] \in {"title", "null"}
                      /\ amount # "empty"
                      /\ items[k] = "null" => amount = "cut"

\* Mutant: <= for <.
MoreTitlesOneMore == Len(g_news) <= NEWS_MAX /\ i <= Len(items) /\ KeyFound(i)

MoreTitles == Len(g_news) < NEWS_MAX /\ i <= Len(items) /\ KeyFound(i)

\* Mutant: a null counts.
ParseTitleOrNull ==
    /\ path = "news" /\ pc = "parse" /\ MoreTitles
    /\ \E amount \in Readings(i) :
          g_news' = IF amount # "empty" THEN Append(g_news, [item |-> i, amount |-> amount]) ELSE g_news
    /\ i' = i + 1
    /\ UNCHANGED <<path, pc, received, seen, g_info>>

ParseTitle ==
    /\ path = "news" /\ pc = "parse" /\ MoreTitles
    /\ \E amount \in Readings(i) :
          g_news' = IF IsTitle(i, amount) THEN Append(g_news, [item |-> i, amount |-> amount]) ELSE g_news
    /\ i' = i + 1
    /\ UNCHANGED <<path, pc, received, seen, g_info>>

\* strstr finds the key behind the buffer: in what an earlier chunk left there, or in
\* anything else.
ParseStray ==
    /\ path = "news" /\ pc = "parse" /\ Unterminated
    /\ ~MoreTitles /\ Len(g_news) < NEWS_MAX
    /\ g_news' = Append(g_news, [item |-> 0, amount |-> "stray"])
    /\ UNCHANGED <<path, pc, received, seen, i, g_info>>

Parsed == /\ IF path = "info" THEN i > Len(fields) ELSE ~MoreTitles
          /\ Goto("parse", "close")
          /\ UNCHANGED <<path, received, seen, i, g_info, g_news>>

\* Mutant: the result does not look at Content-Length.
AnyBytes == total > 0

Succeeded == IF path = "news" /\ content_length > 0
             THEN total >= HeaderSize + content_length
             ELSE total > 0

\* The info thread ignores the result.
Close == /\ Goto("close", IF path = "news" /\ Succeeded /\ g_news # <<>>
                          THEN "sleep forever" ELSE "connect")
         /\ items' = <<>> /\ total' = 0 /\ content_length' = -1 /\ broken' = FALSE
         /\ seen' = 0 /\ i' = 1
         /\ UNCHANGED <<path, g_info, g_news>>

Thread == \/ Request \/ Break \/ BufferFull \/ Body \/ ParseField \/ ParseTitle \/ ParseStray
          \/ Parsed \/ Close
          \/ \E n \in 1 .. ChunkSize - 1 : Chunk(n)

Next == Thread

\* Every poll has a time limit of 8 seconds and recv follows only a poll that found
\* data or an error: each step of a request ends.
Spec == Init /\ [][Next]_vars /\ WF_vars(Thread)

-----------------------------------------------------------------------------
\* Whatever was cut, lost or answered with an error, a field that comes earlier in
\* the response is never older than one that comes later: g_info is the prefix of
\* the last response over longer prefixes of those before it, although parse_info
\* goes by an order of its own and leaves what it does not find.
NewerFirst ==
    pc # "parse" =>
        \A m, n \in DOMAIN ResponseOrder :
            m < n => g_info[ResponseOrder[m]].age <= g_info[ResponseOrder[n]].age

\* A response that does not break off replaces every field, however it was cut into
\* chunks: the loop misses none at the end (AllIsHere), the parser no key.
CompleteInfoIsShown ==
    path = "info" /\ pc = "close" /\ items # <<>> /\ ~broken =>
        \A f \in Fields : g_info[f] = [age |-> 0, amount |-> "whole"]

\* The list begins with the titles that came whole, in their order and without a
\* gap, up to NEWS_MAX of them.  At most one entry follows them, the part of a title or
\* of a null, unless the response fills the buffer: then it may be any number of texts
\* that are not as the response has them (parse_news_titles).
TitlesInOrder ==
    LET whole == {k \in DOMAIN items : items[k] = "title" /\ Amount(k) = "whole"}
        first == {k \in whole : Cardinality({j \in whole : j < k}) < NEWS_MAX}
        taken == {n \in DOMAIN g_news : g_news[n].amount = "whole"}
    IN  path = "news" /\ pc = "close" /\ HeadersComplete =>
            /\ \A k \in first : \E n \in taken : g_news[n].item = k
            /\ \A n \in taken : g_news[n].item \in first
            /\ \A n \in taken : \A m \in 1 .. n - 1 : m \in taken /\ g_news[m].item < g_news[n].item
            /\ ~Unterminated => \A n \in DOMAIN g_news : n \in taken \/ n = Len(g_news)

\* A response whose headers came counts as a success only if all of it came
\* (networking_config_news.c:209).
SuccessMeansAll ==
    path = "news" /\ pc = "close" /\ Succeeded /\ HeadersComplete => total = Size

\* The thread does not wait for more when all of the response is there: if the
\* proxy keeps the connection open, that would cost the 8 seconds of poll.
NoNeedlessWait == pc = "poll" => total < Size

\* Every request ends, however the response trickles in, breaks off or never ends.
RequestEnds == pc = "poll" ~> pc = "close"

\* What came fits the buffer.  The code does not keep this: the loop goes on while
\* there is room for a byte, and then copies up to a chunk.
ResponseStaysInBuffer == total <= BufSize

\* The news that the proxy found reach the list when its response came whole.  The
\* code does not keep this: the proxy answers with a list of strings under the key
\* "titles" (proxi.py:189-193), and the parser looks for the key "title".
NewsOfProxyAreFound ==
    path = "news" /\ pc = "close" /\ items # <<>> /\ total = Size => g_news # <<>>
=============================================================================
