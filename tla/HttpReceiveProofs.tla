------------------------- MODULE HttpReceiveProofs -------------------------
(***************************************************************************)
(* Theorems about HttpReceive, for every size of the buffers and every cut *)
(* of a response: what came is counted and judged right, the fields of     *)
(* /info are never younger than those before them, and the list of titles  *)
(* is the one the response gives.                                          *)
(***************************************************************************)
EXTENDS HttpReceive, FiniteSetTheorems, SequenceTheorems, TLAPS

Items == Fields \cup NewsItems

(***************************************************************************)
(* The receive loop.  total never passes the end of the response, so that  *)
(* the loop is left when all of it is there, when nothing more came or     *)
(* when the buffer is full, and content_length follows from total.         *)
(***************************************************************************)
ReceiveInv ==
    /\ path = "info" => items \in {ResponseOrder, <<>>}
    /\ total <= Size
    /\ content_length = IF HeadersComplete THEN BodySize ELSE -1
    /\ pc = "poll" => total < Size
    /\ pc \in {"body", "parse", "close"} /\ ~broken => total = Size \/ total >= BufSize - 1
    /\ pc = "parse" => HeadersComplete
    /\ pc \in {"parse", "close"} /\ HeadersComplete =>
          seen = total - HeaderSize \/ total > BufSize

(***************************************************************************)
(* The fields of /info.  While parse_info goes through them, those it has  *)
(* done and found are of this response, and among the others the order of  *)
(* the ages is what it was.  The fields it finds come first in the         *)
(* response, so that the order is restored when it has done all.           *)
(***************************************************************************)
ParsingInfo == path = "info" /\ pc = "parse"

Newer(f, g) == g_info[f].age <= g_info[g].age

Done(f) == Found(f) /\ \E k \in DOMAIN fields : k < i /\ fields[k] = f

Ordered ==
    \A m, n \in DOMAIN ResponseOrder : m < n => Newer(ResponseOrder[m], ResponseOrder[n])

RestOrdered ==
    \A m, n \in DOMAIN ResponseOrder :
        m < n /\ ~Done(ResponseOrder[m]) /\ ~Done(ResponseOrder[n]) =>
            Newer(ResponseOrder[m], ResponseOrder[n])

DoneShown == \A f \in Fields : Done(f) => g_info[f] = [age |-> 0, amount |-> Amount(Position(f))]

InfoInv ==
    /\ ~ParsingInfo => Ordered
    /\ ParsingInfo => RestOrdered
    /\ path = "info" /\ pc \in {"parse", "close"} /\ HeadersComplete => DoneShown
    /\ path = "info" /\ pc = "close" /\ HeadersComplete => i > Len(fields)

(***************************************************************************)
(* The titles.  The list holds the whole titles among the items that were  *)
(* looked at, all of them, and parts, in their order and with what the     *)
(* parser took of them.  Strays come last, when the items are used up.     *)
(***************************************************************************)
Entry(k, amount) == [item |-> k, amount |-> amount]

Stray(n) == g_news[n].amount = "stray"

EntryOK(e) ==
    IF e.amount = "stray" THEN Unterminated
    ELSE /\ e.item \in DOMAIN items /\ e.item < i
         /\ e.amount \in Readings(e.item) /\ IsTitle(e.item, e.amount)

WholeTitle(k) == items[k] = "title" /\ Amount(k) = "whole"

ItemsLeft == i <= Len(items) /\ KeyFound(i)

AllTitles  == \A n \in DOMAIN g_news : EntryOK(g_news[n])
Increasing == \A m, n \in DOMAIN g_news :
                 m < n /\ ~Stray(n) => ~Stray(m) /\ g_news[m].item < g_news[n].item
NoneMissed == \A k \in DOMAIN items : k < i /\ WholeTitle(k) =>
                 \E n \in DOMAIN g_news : g_news[n] = Entry(k, "whole")
StraysLast == ItemsLeft => \A n \in DOMAIN g_news : ~Stray(n)

TitlesInv ==
    path = "news" /\ pc \in {"parse", "close"} /\ HeadersComplete =>
        /\ AllTitles /\ Increasing /\ NoneMissed /\ StraysLast
        /\ pc = "close" => ~MoreTitles

Entries == [item : Nat, amount : Amounts \cup {"stray"}]

Typing == TypeOK /\ items \in Seq(Items) /\ g_news \in Seq(Entries) /\ i > 0

HttpInv == Typing /\ ReceiveInv /\ InfoInv /\ TitlesInv

\* The smaller of two numbers, as Min of FiniteSetsExt finds it.
LEMMA MinOfTwo ==
  ASSUME NEW a \in Int, NEW b \in Int
  PROVE  Min({a, b}) = IF a <= b THEN a ELSE b
<1> DEFINE low == IF a <= b THEN a ELSE b
<1>1. low \in {a, b} /\ \A y \in {a, b} : low <= y
  OBVIOUS
<1>2. \A x \in {a, b} : (\A y \in {a, b} : x <= y) => x = low
  OBVIOUS
<1> HIDE DEF low
<1>3. Min({a, b}) = low
  BY <1>1, <1>2, Zenon DEF Min
<1> QED BY <1>3 DEF low

\* The two orders of the fields have the same fields.
LEMMA Orders ==
  /\ DOMAIN ResponseOrder = 1 .. 7 /\ DOMAIN fields = 1 .. 7
  /\ Len(ResponseOrder) = 7 /\ Len(fields) = 7
  /\ \A k \in 1 .. 7 : ResponseOrder[k] \in Fields /\ fields[k] \in Fields
  /\ \A f \in Fields : \E k \in 1 .. 7 : fields[k] = f
  /\ \A f \in Fields : Position(f) \in 1 .. 7 /\ ResponseOrder[Position(f)] = f
  /\ \A k \in 1 .. 7 : Position(ResponseOrder[k]) = k
<1>1. /\ DOMAIN ResponseOrder = 1 .. 7 /\ DOMAIN fields = 1 .. 7
      /\ Len(ResponseOrder) = 7 /\ Len(fields) = 7
  BY DEF ResponseOrder, fields
<1>2. \A k \in 1 .. 7 : fields[k] \in Fields
  BY <1>1 DEF Fields
<1>3. \A f \in Fields : \E k \in 1 .. 7 : fields[k] = f
  BY <1>1 DEF Fields
<1>4. \A k \in 1 .. 7 : \E n \in 1 .. 7 : ResponseOrder[k] = fields[n]
  <2>1. /\ ResponseOrder[1] = fields[7] /\ ResponseOrder[2] = fields[1]
        /\ ResponseOrder[3] = fields[2] /\ ResponseOrder[4] = fields[5]
        /\ ResponseOrder[5] = fields[6] /\ ResponseOrder[6] = fields[3]
        /\ ResponseOrder[7] = fields[4]
    BY DEF ResponseOrder, fields
  <2> QED BY <2>1
<1>5. \A n \in 1 .. 7 : \E k \in 1 .. 7 : ResponseOrder[k] = fields[n]
  <2>1. /\ ResponseOrder[1] = fields[7] /\ ResponseOrder[2] = fields[1]
        /\ ResponseOrder[3] = fields[2] /\ ResponseOrder[4] = fields[5]
        /\ ResponseOrder[5] = fields[6] /\ ResponseOrder[6] = fields[3]
        /\ ResponseOrder[7] = fields[4]
    BY DEF ResponseOrder, fields
  <2> QED BY <2>1
<1>6. \A j, k \in 1 .. 7 : ResponseOrder[j] = ResponseOrder[k] => j = k
  BY DEF ResponseOrder
<1>7. \A k \in 1 .. 7 : ResponseOrder[k] \in Fields
  BY <1>2, <1>4
<1>8. \A f \in Fields : Position(f) \in 1 .. 7 /\ ResponseOrder[Position(f)] = f
  <2> TAKE f \in Fields
  <2>1. \E k \in DOMAIN ResponseOrder : ResponseOrder[k] = f
    BY <1>1, <1>3, <1>5
  <2>2. Position(f) \in DOMAIN ResponseOrder /\ ResponseOrder[Position(f)] = f
    BY <2>1, Zenon DEF Position
  <2> QED BY <1>1, <2>2
<1>9. \A k \in 1 .. 7 : Position(ResponseOrder[k]) = k
  BY <1>6, <1>7, <1>8
<1> QED BY <1>1, <1>2, <1>3, <1>7, <1>8, <1>9

LEMMA ConstantsType ==
  /\ ChunkSize \in Nat /\ ChunkSize > 1 /\ BufSize \in Nat
  /\ HeaderSize \in Nat /\ HeaderSize > 0 /\ HeaderSize + 21 < BufSize
  /\ NEWS_MAX \in Nat
BY BufferAssumption, NewsAssumption, Orders DEF ItemSize

\* A body has at least a byte.
LEMMA Sizes ==
  ASSUME NEW s \in Seq(Items)
  PROVE  LET size == IF s = <<>> THEN ErrorSize ELSE ItemSize * Len(s)
         IN  /\ size \in Nat /\ size > 0
             /\ HeaderSize + size \in Nat /\ 0 <= HeaderSize + size /\ 0 < HeaderSize + size
<1> DEFINE size == IF s = <<>> THEN ErrorSize ELSE ItemSize * Len(s)
<1>1. s # <<>> => Len(s) \in Nat /\ Len(s) > 0
  OBVIOUS
<1>2. size \in Nat /\ size > 0
  BY <1>1 DEF ErrorSize, ItemSize
<1> HIDE DEF size
<1>3. HeaderSize + size \in Nat /\ 0 <= HeaderSize + size /\ 0 < HeaderSize + size
  BY <1>2, ConstantsType
<1> QED BY <1>2, <1>3 DEF size

LEMMA AmountType == \A k : Amount(k) \in Amounts
BY DEF Amount, Amounts

\* The parser takes a value as whole only if it is, and as it came if a NUL follows.
LEMMA ReadingsOf ==
  ASSUME NEW k, NEW amount \in Readings(k)
  PROVE  /\ amount \in {"empty", "cut", "whole"}
         /\ amount = "whole" <=> Amount(k) = "whole"
         /\ ~Unterminated => amount = Amount(k)
<1>1. Amount(k) \in {"empty", "cut", "whole"}
  BY DEF Amount
<1>2. amount = Amount(k) \/ (Unterminated /\ Amount(k) # "whole" /\ amount \in {"empty", "cut"})
  BY DEF Readings
<1> QED BY <1>1, <1>2

\* What a request may be answered with.
LEMMA AnswersType ==
  /\ <<>> \in Seq(Items) /\ ResponseOrder \in Seq(Items)
  /\ \A s \in NewsAnswers : s \in Seq(Items)
<1>1. <<>> \in Seq(Items)
  OBVIOUS
<1>2. ResponseOrder \in Seq(Items)
  <2>1. \A k \in 1 .. 7 : ResponseOrder[k] \in Items
    BY Orders DEF Items
  <2>2. ResponseOrder = [k \in 1 .. 7 |-> ResponseOrder[k]]
    BY DEF ResponseOrder
  <2> DEFINE e(k) == ResponseOrder[k]
  <2>3. 7 \in Nat /\ \A k \in 1 .. 7 : e(k) \in Items
    BY <2>1
  <2>4. [k \in 1 .. 7 |-> e(k)] \in Seq(Items)
    <3> HIDE DEF e
    <3> QED BY <2>3, IsASeq
  <2> QED BY <2>2, <2>4
<1>3. \A s \in NewsAnswers : s \in Seq(Items)
  BY NewsAssumption DEF Items
<1> QED BY <1>1, <1>2, <1>3

InfoType == [Fields -> [age : 0 .. MaxAge, amount : Amounts]]

LEMMA TypesOf ==
  ASSUME Typing
  PROVE  /\ total \in Nat /\ total <= Size /\ Size \in Nat
         /\ g_info \in InfoType
         /\ \A f \in Fields : g_info[f].age \in Nat
         /\ Len(g_news) \in Nat /\ Len(g_news) <= NEWS_MAX /\ i \in Nat /\ seen \in Nat
<1>1. total \in 0 .. Size
  BY DEF Typing, TypeOK
<1>2. total \in Nat /\ total <= Size /\ Size \in Nat
  <2>1. Size \in Nat
    BY Sizes DEF Typing, Size, BodySize
  <2> QED BY <1>1, <2>1
<1>3. g_info \in InfoType
  BY DEF Typing, TypeOK, InfoType
<1>4. \A f \in Fields : g_info[f].age \in Nat
  BY <1>3 DEF InfoType, MaxAge
<1>5. g_news \in Seq(Entries) /\ Len(g_news) <= NEWS_MAX /\ i \in Nat /\ seen \in Nat
  BY DEF Typing, TypeOK
<1> QED BY <1>2, <1>3, <1>4, <1>5

LEMMA TypingKept == Typing /\ ReceiveInv /\ [Next]_vars => Typing'
<1> SUFFICES ASSUME Typing, ReceiveInv, [Next]_vars PROVE Typing'
  OBVIOUS
<1>a. items' = items => BodySize' = BodySize /\ Size' = Size
  BY DEF BodySize, Size
<1>b. items' \in Seq(Items) => 0 \in 0 .. Size'
  BY Sizes DEF BodySize, Size
<1>c. /\ total \in Nat /\ Size \in Nat /\ g_info \in InfoType
      /\ \A f \in Fields : g_info[f].age \in Nat
      /\ Len(g_news) \in Nat /\ Len(g_news) <= NEWS_MAX
  BY TypesOf
<1>0. BodySize \in Nat /\ BodySize' = IF items' = <<>> THEN ErrorSize ELSE ItemSize * Len(items')
  BY Sizes DEF Typing, BodySize
<1>1. CASE Request
  <2>1. items' \in Seq(Items)
    BY <1>1, AnswersType, Zenon DEF Request
  <2> QED BY <1>1, <1>b, <2>1 DEF Request, Goto, Typing, TypeOK
<1>2. CASE Break
  BY <1>2, <1>0, <1>a DEF Break, Goto, Typing, TypeOK, BodySize
<1>3. CASE BufferFull
  BY <1>3, <1>0, <1>a DEF BufferFull, received, Goto, Typing, TypeOK, BodySize
<1>4. ASSUME NEW n \in 1 .. ChunkSize - 1, Chunk(n) PROVE Typing'
  <2>1. total' = total + n /\ n <= Size - total /\ items' = items
    BY <1>4 DEF Chunk
  <2>2. total' \in 0 .. Size'
    BY <1>a, <1>c, <2>1, ConstantsType
  <2>3. pc' \in {"body", "poll"} /\ content_length' \in {-1, BodySize'}
        /\ UNCHANGED <<path, items, broken, seen, i, g_info, g_news>>
    BY <1>4 DEF Chunk, Goto, BodySize
  <2> QED BY <2>2, <2>3 DEF Typing, TypeOK
<1>5. CASE Body
  <2>1. pc' \in {"parse", "close"} /\ i' = 1 /\ UNCHANGED <<path, items, total, content_length, broken>>
    BY <1>5 DEF Body, Goto, received
  <2>2. seen' \in Nat
    <3>1. Min({total, BufSize}) = IF total <= BufSize THEN total ELSE BufSize
      BY <1>c, ConstantsType, MinOfTwo
    <3> QED BY <1>5, <1>c, <3>1, ConstantsType DEF Body, HeadersComplete
  <2>3. g_info' \in InfoType
    <3>1. \A f \in Fields : g_info[f] \in [age : 0 .. MaxAge, amount : Amounts]
      BY <1>c DEF InfoType
    <3>2. ASSUME NEW f \in Fields PROVE Min({g_info[f].age + 1, MaxAge}) \in 0 .. MaxAge
      <4>1. /\ g_info[f].age + 1 \in Int /\ MaxAge \in Int /\ 0 <= MaxAge
            /\ 0 <= g_info[f].age + 1
        BY <1>c DEF MaxAge
      <4>2. Min({g_info[f].age + 1, MaxAge})
              = IF g_info[f].age + 1 <= MaxAge THEN g_info[f].age + 1 ELSE MaxAge
        BY <4>1, MinOfTwo
      <4> QED BY <4>1, <4>2
    <3>3. CASE path = "info" /\ HeadersComplete
      <4>1. g_info' = [f \in Fields |-> [g_info[f] EXCEPT !.age = Min({g_info[f].age + 1, MaxAge})]]
        BY <1>5, <3>3 DEF Body
      <4> QED BY <3>1, <3>2, <4>1 DEF InfoType
    <3>4. CASE ~(path = "info" /\ HeadersComplete)
      BY <1>5, <1>c, <3>4 DEF Body
    <3> QED BY <3>3, <3>4
  <2>4. g_news' \in Seq(Entries) /\ Len(g_news') <= NEWS_MAX
    BY <1>5, <1>c, EmptySeq, ConstantsType DEF Body, Typing
  <2>5. BodySize' = BodySize /\ Size' = Size
    BY <1>a, <2>1
  <2>6. path' \in {"info", "news"} /\ total' \in 0 .. Size'
    BY <2>1, <2>5 DEF Typing, TypeOK
  <2>7. content_length' \in {-1, BodySize'} /\ broken' \in BOOLEAN /\ items' \in Seq(Items)
    BY <2>1, <2>5 DEF Typing, TypeOK
  <2>8. i' \in Nat /\ i' > 0 
    BY <2>1
  <2>9. pc' \in {"connect", "poll", "body", "parse", "close", "sleep forever"}
    BY <2>1
  <2> QED BY <2>2, <2>3, <2>4, <2>6, <2>7, <2>8, <2>9, Zenon DEF Typing, TypeOK, InfoType
<1>6. CASE ParseField
  <2>1. g_info' \in InfoType
    <3>1. [age |-> 0, amount |-> Amount(Position(fields[i]))] \in [age : 0 .. MaxAge, amount : Amounts]
      BY AmountType DEF MaxAge
    <3> QED BY <1>6, <1>c, <3>1 DEF ParseField, InfoType
  <2>2. i' \in Nat /\ i' > 0
    BY <1>6 DEF ParseField, Typing, TypeOK
  <2> QED BY <1>6, <1>a, <2>1, <2>2 DEF ParseField, received, Typing, TypeOK, BodySize, InfoType
<1>7. CASE ParseTitle \/ ParseStray
  <2>1. g_news' \in Seq(Entries) /\ Len(g_news') <= NEWS_MAX
    <3>1. g_news' = g_news \/ \E e \in Entries : g_news' = Append(g_news, e)
      <4>1. i \in Nat /\ 0 \in Nat
        BY DEF Typing, TypeOK
      <4>2. \A amount \in Readings(i) : amount \in Amounts
        BY ReadingsOf DEF Amounts
      <4> QED BY <1>7, <4>1, <4>2 DEF ParseTitle, ParseStray, Entries
    <3>2. g_news \in Seq(Entries) /\ Len(g_news) < NEWS_MAX
      BY <1>7 DEF Typing, ParseTitle, ParseStray, MoreTitles
    <3> QED BY <1>c, <3>1, <3>2, AppendProperties, ConstantsType
  <2>2. i' \in Nat /\ i' > 0
    <3>1. i \in Nat /\ i > 0
      BY DEF Typing, TypeOK
    <3>2. i' = i \/ i' = i + 1
      BY <1>7 DEF ParseTitle, ParseStray
    <3> QED BY <3>1, <3>2
  <2>3. UNCHANGED <<path, pc, items, total, content_length, broken, seen, g_info>>
    BY <1>7 DEF ParseTitle, ParseStray, received
  <2> QED BY <1>a, <2>1, <2>2, <2>3 DEF Typing, TypeOK
<1>8. CASE Parsed
  BY <1>8, <1>a DEF Parsed, Goto, received, Typing, TypeOK, BodySize
<1>9. CASE Close
  <2>1. pc' \in {"sleep forever", "connect"}
    BY <1>9, Zenon DEF Close, Goto
  <2>2. total' \in 0 .. Size' /\ content_length' \in {-1, BodySize'}
    <3>1. items' = <<>> /\ total' = 0 /\ content_length' = -1
      BY <1>9 DEF Close
    <3> QED BY <1>b, <3>1, EmptySeq
  <2>0. i' = 1 /\ seen' = 0
    BY <1>9 DEF Close
  <2>3. i' \in Nat /\ i' > 0 /\ seen' \in Nat
    BY <2>0
  <2>6. broken' \in BOOLEAN /\ items' \in Seq(Items)
    BY <1>9, EmptySeq DEF Close
  <2>4. /\ path' \in {"info", "news"} /\ g_info' \in InfoType
        /\ g_news' \in Seq(Entries) /\ Len(g_news') <= NEWS_MAX
    BY <1>9, <1>c DEF Close, Typing, TypeOK
  <2>5. pc' \in {"connect", "poll", "body", "parse", "close", "sleep forever"}
    BY <2>1
  <2> QED BY <2>2, <2>3, <2>4, <2>5, <2>6, Zenon DEF Typing, TypeOK, InfoType
<1>10. CASE UNCHANGED vars
  BY <1>10, <1>a DEF vars, Typing, TypeOK, BodySize
<1> QED BY <1>1, <1>2, <1>3, <1>4, <1>5, <1>6, <1>7, <1>8, <1>9, <1>10 DEF Next, Thread

LEMMA ReceiveInvKept == Typing /\ ReceiveInv /\ Typing' /\ [Next]_vars => ReceiveInv'
<1> SUFFICES ASSUME Typing, ReceiveInv, Typing', [Next]_vars PROVE ReceiveInv'
  OBVIOUS
<1> USE ConstantsType
<1>0. /\ BodySize \in Nat /\ BodySize' \in Nat /\ BodySize > 0 /\ BodySize' > 0
      /\ total \in Nat /\ total' \in Nat
      /\ Size = HeaderSize + BodySize /\ Size' = HeaderSize + BodySize'
      /\ Size \in Nat /\ Size' \in Nat /\ 0 <= Size' /\ 0 < Size'
  <2>1. Size' \in Nat /\ 0 <= Size' /\ 0 < Size' /\ BodySize' \in Nat /\ BodySize' > 0
    BY Sizes DEF Typing, BodySize, Size
  <2>2. total' \in 0 .. Size'
    BY DEF Typing, TypeOK
  <2>3. total \in Nat /\ total' \in Nat
    BY <2>1, <2>2, TypesOf
  <2> QED BY <2>1, <2>3, Sizes DEF Typing, BodySize, Size
<1>a. items' = items => BodySize' = BodySize /\ Size' = Size
  BY DEF BodySize, Size
<1>1. CASE Request
  <2>1. pc' = "poll" /\ total' = 0 /\ content_length' = -1 /\ path' = path
        /\ (path = "info" => items' \in {ResponseOrder, <<>>})
    BY <1>1 DEF Request, Goto
  <2>2. ~(0 >= HeaderSize)
    BY ConstantsType
  <2> QED BY <1>0, <2>1, <2>2 DEF ReceiveInv, HeadersComplete
<1>2. CASE Break
  BY <1>2, <1>0, <1>a DEF Break, Goto, ReceiveInv, HeadersComplete
<1>3. CASE BufferFull
  BY <1>3, <1>0, <1>a DEF BufferFull, LoopCondition, received, Goto, ReceiveInv, HeadersComplete
<1>4. ASSUME NEW n \in 1 .. ChunkSize - 1, Chunk(n) PROVE ReceiveInv'
  <2>1. /\ total' = total + n /\ n <= Size - total
        /\ content_length' = IF total' >= HeaderSize THEN BodySize ELSE -1
        /\ pc' = IF AllIsHere THEN "body" ELSE "poll"
        /\ UNCHANGED <<path, items, broken, seen, i, g_info, g_news>>
    BY <1>4 DEF Chunk, Goto
  <2>2. AllIsHere <=> total' >= Size
    BY <1>0, <2>1 DEF AllIsHere
  <2>3. total' <= Size
    BY <1>0, <2>1
  <2>4. total' = Size \/ (pc' = "poll" /\ total' < Size)
    BY <1>0, <2>1, <2>2, <2>3
  <2>5. BodySize' = BodySize /\ Size' = Size
    BY <1>a, <2>1
  <2>6. /\ path' = "info" => items' \in {ResponseOrder, <<>>}
        /\ content_length' = IF HeadersComplete' THEN BodySize' ELSE -1
    BY <2>1, <2>5 DEF ReceiveInv, HeadersComplete
  <2>7. /\ pc' = "poll" => total' < Size'
        /\ pc' = "body" => total' = Size'
        /\ pc' \notin {"parse", "close"}
    BY <2>1, <2>2, <2>4, <2>5, <1>0
  <2> QED BY <2>3, <2>5, <2>6, <2>7 DEF ReceiveInv
<1>5. CASE Body
  <2>1. Min({total, BufSize}) = IF total <= BufSize THEN total ELSE BufSize
    BY <1>0, MinOfTwo
  <2>2. HeadersComplete => seen' = total - HeaderSize \/ total > BufSize
    BY <1>0, <1>5, <2>1 DEF Body
  <2> QED BY <1>0, <1>a, <1>5, <2>2 DEF Body, Goto, received, ReceiveInv, HeadersComplete
<1>6. CASE ParseField
  BY <1>6, <1>a DEF ParseField, received, ReceiveInv, HeadersComplete
<1>7. CASE ParseTitle \/ ParseStray
  BY <1>7, <1>a DEF ParseTitle, ParseStray, received, ReceiveInv, HeadersComplete
<1>8. CASE Parsed
  BY <1>8, <1>a DEF Parsed, Goto, received, ReceiveInv, HeadersComplete
<1>9. CASE Close
  <2>1. pc' \in {"sleep forever", "connect"} /\ total' = 0 /\ content_length' = -1 /\ items' = <<>>
    BY <1>9, Zenon DEF Close, Goto
  <2>2. ~(0 >= HeaderSize)
    BY ConstantsType
  <2>3. pc' \notin {"poll", "body", "parse", "close"}
    BY <2>1
  <2> QED BY <1>0, <2>1, <2>2, <2>3 DEF ReceiveInv, HeadersComplete
<1>10. CASE UNCHANGED vars
  BY <1>10, <1>a DEF vars, ReceiveInv, HeadersComplete
<1> QED BY <1>1, <1>2, <1>3, <1>4, <1>5, <1>6, <1>7, <1>8, <1>9, <1>10 DEF Next, Thread

\* The keys that are found come before those that are not.
LEMMA FoundFirst ==
  ASSUME seen \in Nat, NEW m \in 1 .. 7, NEW n \in 1 .. 7, m < n, Found(ResponseOrder[n])
  PROVE  Found(ResponseOrder[m])
<1>1. Position(ResponseOrder[m]) = m /\ Position(ResponseOrder[n]) = n
  BY Orders
<1>2. items # <<>> /\ seen > 3 * (n - 1)
  BY <1>1 DEF Found, KeyFound, ItemSize
<1>3. seen > 3 * (m - 1)
  BY <1>2
<1> QED BY <1>1, <1>2, <1>3 DEF Found, KeyFound, ItemSize

LEMMA InfoInvKept == Typing /\ ReceiveInv /\ InfoInv /\ [Next]_vars => InfoInv'
<1> SUFFICES ASSUME Typing, ReceiveInv, InfoInv, [Next]_vars PROVE InfoInv'
  OBVIOUS
<1>0. /\ path \in {"info", "news"} /\ i \in Nat /\ i > 0 /\ seen \in Nat /\ g_info \in InfoType
      /\ \A f \in Fields : g_info[f].age \in Nat
  BY TypesOf DEF Typing, TypeOK
<1>1. ASSUME UNCHANGED <<path, g_info>>, pc # "parse", pc' \notin {"parse", "close"} PROVE InfoInv'
  BY <1>1 DEF InfoInv, ParsingInfo, Ordered, Newer
<1>2. ASSUME UNCHANGED <<path, g_info>>, path = "news" PROVE InfoInv'
  BY <1>2 DEF InfoInv, ParsingInfo, Ordered, Newer
<1>3. CASE Request \/ Break \/ BufferFull \/ Close
  BY <1>1, <1>3 DEF Request, Break, BufferFull, Close, Goto, received
<1>4. ASSUME NEW n \in 1 .. ChunkSize - 1, Chunk(n) PROVE InfoInv'
  BY <1>1, <1>4 DEF Chunk, Goto
<1>5. CASE Body
  <2>1. /\ pc = "body" /\ i' = 1 /\ path' = path /\ total' = total
        /\ pc' = IF HeadersComplete THEN "parse" ELSE "close"
    BY <1>5 DEF Body, Goto, received
  <2>2. Ordered
    BY <2>1 DEF InfoInv, ParsingInfo
  <2>3. CASE path = "info" /\ HeadersComplete
    <3>1. ParsingInfo'
      BY <2>1, <2>3 DEF ParsingInfo
    <3>2. \A f : ~Done(f)'
      BY <2>1, Orders DEF Done
    <3>3. g_info' = [f \in Fields |-> [g_info[f] EXCEPT !.age = Min({g_info[f].age + 1, MaxAge})]]
      BY <1>5, <2>3 DEF Body
    <3>4. ASSUME NEW f \in Fields
          PROVE g_info'[f].age = IF g_info[f].age + 1 <= MaxAge THEN g_info[f].age + 1 ELSE MaxAge
      <4>1. g_info[f].age + 1 \in Int /\ MaxAge \in Int
        BY <1>0 DEF MaxAge
      <4>2. Min({g_info[f].age + 1, MaxAge})
              = IF g_info[f].age + 1 <= MaxAge THEN g_info[f].age + 1 ELSE MaxAge
        BY <4>1, MinOfTwo
      <4>3. g_info'[f].age = Min({g_info[f].age + 1, MaxAge})
        BY <1>0, <3>3 DEF InfoType
      <4> QED BY <4>2, <4>3
    <3>5. ASSUME NEW m \in 1 .. 7, NEW n \in 1 .. 7, m < n
          PROVE g_info'[ResponseOrder[m]].age <= g_info'[ResponseOrder[n]].age
      <4>1. /\ ResponseOrder[m] \in Fields /\ ResponseOrder[n] \in Fields
            /\ g_info[ResponseOrder[m]].age <= g_info[ResponseOrder[n]].age
        BY <2>2, <3>5, Orders DEF Ordered, Newer
      <4> QED BY <1>0, <3>4, <4>1 DEF MaxAge
    <3>6. RestOrdered'
      BY <3>5, Orders DEF RestOrdered, Newer
    <3>7. DoneShown'
      BY <3>2 DEF DoneShown
    <3> QED BY <3>1, <3>6, <3>7, Zenon DEF InfoInv, ParsingInfo
  <2>4. CASE ~(path = "info" /\ HeadersComplete)
    <3>1. g_info' = g_info
      BY <1>5, <2>4 DEF Body
    <3>2. CASE path = "news"
      BY <1>2, <2>1, <3>1, <3>2
    <3>3. CASE ~HeadersComplete
      BY <2>1, <2>2, <3>1, <3>3 DEF InfoInv, ParsingInfo, Ordered, Newer, HeadersComplete
    <3> QED BY <1>0, <2>4, <3>2, <3>3
  <2> QED BY <2>3, <2>4
<1>6. CASE ParseField
  <2> DEFINE f0 == fields[i]
  <2>1. /\ ParsingInfo /\ ParsingInfo' /\ i \in 1 .. 7 /\ i' = i + 1 /\ UNCHANGED <<path, pc, items, seen, total>>
        /\ g_info' = IF Found(f0)
                     THEN [g_info EXCEPT ![f0] = [age |-> 0, amount |-> Amount(Position(f0))]]
                     ELSE g_info
    BY <1>0, <1>6, Orders DEF ParseField, ParsingInfo, received
  <2>2. RestOrdered /\ DoneShown
    BY <2>1 DEF InfoInv, ParsingInfo, ReceiveInv
  <2>3. f0 \in Fields
    BY <2>1, Orders
  <2>4. ASSUME NEW f PROVE /\ Done(f)' <=> Done(f) \/ (f = f0 /\ Found(f))
                           /\ Amount(Position(f))' = Amount(Position(f))
    <3>1. Found(f)' <=> Found(f)
      BY <2>1 DEF Found, KeyFound
    <3>2. \A k \in 1 .. 7 : k < i' <=> k < i \/ k = i
      BY <2>1
    <3>3. (\E k \in 1 .. 7 : k < i' /\ fields[k] = f) <=> (\E k \in 1 .. 7 : k < i /\ fields[k] = f) \/ f = f0
      BY <2>1, <3>2
    <3>4. Amount(Position(f))' = Amount(Position(f))
      BY <2>1 DEF Amount
    <3> QED BY <3>1, <3>3, <3>4, Orders DEF Done
  <2> HIDE DEF f0
  <2>5. \A f \in Fields : f # f0 \/ ~Found(f0) => g_info'[f] = g_info[f]
    BY <1>0, <2>1, <2>3 DEF InfoType
  <2>6. Found(f0) => g_info'[f0] = [age |-> 0, amount |-> Amount(Position(f0))]
    BY <1>0, <2>1, <2>3 DEF InfoType
  <2>7. DoneShown'
    BY <2>2, <2>3, <2>4, <2>5, <2>6 DEF DoneShown
  <2>8. RestOrdered'
    <3> SUFFICES ASSUME NEW m \in 1 .. 7, NEW n \in 1 .. 7, m < n,
                        ~Done(ResponseOrder[m])', ~Done(ResponseOrder[n])'
                 PROVE  g_info'[ResponseOrder[m]].age <= g_info'[ResponseOrder[n]].age
      BY Orders DEF RestOrdered, Newer
    <3>1. /\ ResponseOrder[m] \in Fields /\ ResponseOrder[n] \in Fields
          /\ ~Done(ResponseOrder[m]) /\ ~Done(ResponseOrder[n])
          /\ g_info'[ResponseOrder[m]] = g_info[ResponseOrder[m]]
          /\ g_info'[ResponseOrder[n]] = g_info[ResponseOrder[n]]
      BY <2>4, <2>5, Orders
    <3> QED BY <2>2, <3>1, Orders DEF RestOrdered, Newer
  <2> QED BY <2>1, <2>7, <2>8, Zenon DEF InfoInv, ParsingInfo
<1>7. CASE ParseTitle \/ ParseStray
  BY <1>2, <1>7 DEF ParseTitle, ParseStray, received
<1>8. CASE Parsed
  <2>1. pc = "parse" /\ pc' = "close" /\ UNCHANGED <<path, items, total, seen, i, g_info>>
    BY <1>8 DEF Parsed, Goto, received
  <2>2. CASE path = "info"
    <3>1. i > 7 /\ ParsingInfo /\ HeadersComplete
      BY <1>8, <2>1, <2>2, Orders DEF Parsed, ParsingInfo, ReceiveInv
    <3>2. RestOrdered /\ DoneShown
      BY <2>1, <2>2, <3>1 DEF InfoInv
    <3>3. \A f \in Fields : Done(f) <=> Found(f)
      <4>1. \A k \in 1 .. 7 : k < i
        BY <1>0, <3>1
      <4> QED BY <4>1, Orders DEF Done
    <3>4. ASSUME NEW m \in 1 .. 7, NEW n \in 1 .. 7, m < n
          PROVE  g_info[ResponseOrder[m]].age <= g_info[ResponseOrder[n]].age
      <4>0. ResponseOrder[m] \in Fields /\ ResponseOrder[n] \in Fields
        BY Orders
      <4>1. CASE Found(ResponseOrder[m])
        <5>1. g_info[ResponseOrder[m]].age = 0
          <6>1. ASSUME NEW f \in Fields, Done(f) PROVE g_info[f].age = 0
            <7>1. g_info[f] = [age |-> 0, amount |-> Amount(Position(f))]
              BY <3>2, <6>1, Zenon DEF DoneShown
            <7> QED BY <7>1
          <6> QED BY <3>3, <4>0, <4>1, <6>1
        <5> QED BY <1>0, <4>0, <5>1
      <4>2. CASE ~Found(ResponseOrder[m])
        <5>1. ~Found(ResponseOrder[n])
          BY <1>0, <3>4, <4>2, FoundFirst
        <5> QED BY <3>2, <3>3, <3>4, <4>0, <4>2, <5>1, Orders DEF RestOrdered, Newer
      <4> QED BY <4>1, <4>2
    <3>5. Ordered'
      BY <2>1, <3>4, Orders DEF Ordered, Newer
    <3>6. DoneShown'
      BY <2>1, <3>2 DEF DoneShown, Done, Found, KeyFound, Amount
    <3>7. ~ParsingInfo' /\ (i > Len(fields))'
      BY <2>1, <3>1, Orders DEF ParsingInfo
    <3> QED BY <3>5, <3>6, <3>7, Zenon DEF InfoInv
  <2>3. CASE path = "news"
    BY <1>2, <2>1, <2>3
  <2> QED BY <1>0, <2>2, <2>3
<1>9. CASE UNCHANGED vars
  BY <1>9 DEF vars, InfoInv, ParsingInfo, Ordered, RestOrdered, DoneShown, Newer, Done, Found,
     KeyFound, Amount, HeadersComplete
<1> QED BY <1>3, <1>4, <1>5, <1>6, <1>7, <1>8, <1>9 DEF Next, Thread

LEMMA TitlesInvKept == Typing /\ ReceiveInv /\ TitlesInv /\ [Next]_vars => TitlesInv'
<1> SUFFICES ASSUME Typing, ReceiveInv, TitlesInv, [Next]_vars PROVE TitlesInv'
  OBVIOUS
<1>0. /\ path \in {"info", "news"} /\ i \in Nat /\ i > 0 /\ seen \in Nat
      /\ g_news \in Seq(Entries) /\ items \in Seq(Items)
  BY TypesOf DEF Typing, TypeOK
<1>1. ASSUME pc' \notin {"parse", "close"} PROVE TitlesInv'
  BY <1>1 DEF TitlesInv
<1>2. ASSUME path' = "info" PROVE TitlesInv'
  BY <1>2 DEF TitlesInv
<1>3. CASE Request \/ Break \/ BufferFull
  BY <1>1, <1>3 DEF Request, Break, BufferFull, Goto
<1>4. ASSUME NEW n \in 1 .. ChunkSize - 1, Chunk(n) PROVE TitlesInv'
  BY <1>1, <1>4 DEF Chunk, Goto
<1>5. CASE Close
  BY <1>1, <1>5 DEF Close, Goto
<1>6. CASE Body
  <2>1. /\ i' = 1 /\ path' = path /\ total' = total /\ items' = items
        /\ HeadersComplete => g_news' = <<>> /\ pc' = "parse"
    BY <1>6 DEF Body, Goto, received
  <2>2. CASE HeadersComplete
    <3>1. AllTitles' /\ Increasing' /\ StraysLast'
      BY <2>1, <2>2 DEF AllTitles, Increasing, StraysLast
    <3>2. NoneMissed'
      <4>1. \A k \in DOMAIN items' : ~(k < i')
        BY <1>0, <2>1
      <4> QED BY <4>1 DEF NoneMissed
    <3>3. pc' # "close"
      BY <2>1, <2>2
    <3> QED BY <3>1, <3>2, <3>3 DEF TitlesInv
  <2>3. CASE ~HeadersComplete
    BY <2>1, <2>3 DEF TitlesInv, HeadersComplete
  <2> QED BY <2>2, <2>3
<1>7. CASE ParseField
  BY <1>2, <1>7 DEF ParseField
<1>a. ASSUME UNCHANGED <<items, total, seen>>
      PROVE  /\ \A k : Amount(k)' = Amount(k) /\ Readings(k)' = Readings(k)
             /\ \A k, amount : IsTitle(k, amount)' <=> IsTitle(k, amount)
             /\ \A k : WholeTitle(k)' <=> WholeTitle(k)
             /\ Unterminated' <=> Unterminated
  <2>1. \A k : Amount(k)' = Amount(k)
    BY <1>a DEF Amount
  <2>2. Unterminated' <=> Unterminated
    BY <1>a DEF Unterminated
  <2>3. \A k : Readings(k)' = Readings(k)
    BY <1>a, <2>1, <2>2 DEF Readings
  <2> QED BY <1>a, <2>1, <2>2, <2>3 DEF IsTitle, WholeTitle
<1>b. ASSUME UNCHANGED <<items, total, seen>>, i' = i \/ i' = i + 1
      PROVE  \A e : EntryOK(e) => EntryOK(e)'
  <2>1. \A k \in DOMAIN items : k < i => k < i'
    BY <1>0, <1>b
  <2>2. SUFFICES ASSUME NEW e, EntryOK(e) PROVE EntryOK(e)'
    OBVIOUS
  <2>3. CASE e.amount = "stray"
    BY <1>a, <1>b, <2>2, <2>3 DEF EntryOK
  <2>4. CASE e.amount # "stray"
    <3>1. /\ e.item \in DOMAIN items /\ e.item < i
          /\ e.amount \in Readings(e.item) /\ IsTitle(e.item, e.amount)
      BY <2>2, <2>4 DEF EntryOK
    <3>2. /\ e.item \in DOMAIN items' /\ e.item < i'
          /\ e.amount \in Readings(e.item)' /\ IsTitle(e.item, e.amount)'
      BY <1>a, <1>b, <2>1, <3>1
    <3> QED BY <2>4, <3>2 DEF EntryOK
  <2> QED BY <2>3, <2>4
<1>8. CASE ParseTitle
  <2>0. PICK amount \in Readings(i) :
          g_news' = IF IsTitle(i, amount) THEN Append(g_news, Entry(i, amount)) ELSE g_news
    BY <1>8 DEF ParseTitle, Entry
  <2>1. /\ path = "news" /\ pc = "parse" /\ ItemsLeft
        /\ i' = i + 1
        /\ UNCHANGED <<path, pc, items, total, seen>>
    BY <1>8 DEF ParseTitle, received, MoreTitles, ItemsLeft
  <2>2. /\ AllTitles /\ Increasing /\ NoneMissed /\ i \in DOMAIN items
        /\ \A n \in DOMAIN g_news : ~Stray(n)
    BY <1>0, <2>1 DEF TitlesInv, ReceiveInv, ItemsLeft, StraysLast
  <2>3. \A k \in DOMAIN items : k < i' <=> k < i \/ k = i
    BY <1>0, <2>1
  <2>4. amount \in {"empty", "cut", "whole"} /\ (amount = "whole" <=> Amount(i) = "whole")
    BY <2>0, ReadingsOf
  <2>5. WholeTitle(i) => IsTitle(i, amount) /\ amount = "whole"
    BY <2>4 DEF WholeTitle, IsTitle
  <2>6. CASE ~IsTitle(i, amount)
    <3>1. g_news' = g_news
      BY <2>0, <2>6
    <3>2. AllTitles'
      BY <1>b, <2>1, <2>2, <3>1 DEF AllTitles
    <3>3. Increasing' /\ StraysLast'
      BY <2>2, <3>1 DEF Increasing, StraysLast, Stray
    <3>4. NoneMissed'
      <4> SUFFICES ASSUME NEW k \in DOMAIN items, k < i', WholeTitle(k)
                   PROVE  \E n \in DOMAIN g_news : g_news[n] = Entry(k, "whole")
        BY <1>a, <2>1, <3>1 DEF NoneMissed, Entry
      <4>1. k < i
        BY <2>3, <2>5, <2>6
      <4> QED BY <2>2, <4>1 DEF NoneMissed
    <3> QED BY <2>1, <3>2, <3>3, <3>4 DEF TitlesInv
  <2>7. CASE IsTitle(i, amount)
    <3>0. PICK entry \in Entries : entry = Entry(i, amount)
      BY <1>0, <2>4 DEF Entries, Entry, Amounts
    <3>1. g_news' = Append(g_news, entry)
      BY <2>0, <2>7, <3>0
    <3>2. entry.item = i /\ entry.amount = amount /\ amount # "stray"
      BY <2>4, <3>0 DEF Entry
    <3>3. /\ Len(g_news) \in Nat /\ DOMAIN g_news = 1 .. Len(g_news)
          /\ DOMAIN g_news' = 1 .. Len(g_news) + 1
          /\ \A n \in DOMAIN g_news : g_news'[n] = g_news[n]
          /\ g_news'[Len(g_news) + 1] = entry
      BY <1>0, <3>1
    <3>a. EntryOK(entry)'
      <4>1. entry.item \in DOMAIN items' /\ entry.item < i'
        BY <1>0, <2>1, <2>2, <3>2
      <4>2. entry.amount \in Readings(entry.item)' /\ IsTitle(entry.item, entry.amount)'
        BY <1>a, <2>0, <2>1, <2>7, <3>2
      <4> QED BY <3>2, <4>1, <4>2 DEF EntryOK
    <3>4. AllTitles'
      <4>1. ASSUME NEW n \in DOMAIN g_news', NEW e, e = g_news'[n] PROVE EntryOK(e)'
        <5>1. CASE n \in DOMAIN g_news
          BY <1>b, <2>1, <2>2, <3>3, <4>1, <5>1 DEF AllTitles
        <5>2. CASE n = Len(g_news) + 1
          BY <3>a, <3>3, <4>1, <5>2
        <5> QED BY <3>3, <5>1, <5>2
      <4> QED BY <4>1 DEF AllTitles, EntryOK
    <3>b. \A n \in DOMAIN g_news' : ~Stray(n)'
      BY <2>2, <3>2, <3>3 DEF Stray
    <3>5. Increasing'
      <4> SUFFICES ASSUME NEW m \in DOMAIN g_news', NEW n \in DOMAIN g_news', m < n
                   PROVE  g_news'[m].item < g_news'[n].item
        BY <3>b DEF Increasing
      <4>1. m \in DOMAIN g_news
        BY <3>3
      <4>2. CASE n \in DOMAIN g_news
        BY <2>2, <3>3, <4>1, <4>2 DEF Increasing
      <4>3. CASE n = Len(g_news) + 1
        BY <2>2, <3>2, <3>3, <4>1, <4>3 DEF AllTitles, EntryOK, Stray
      <4> QED BY <3>3, <4>2, <4>3
    <3>6. NoneMissed'
      <4> SUFFICES ASSUME NEW k \in DOMAIN items, k < i', WholeTitle(k)
                   PROVE  \E n \in DOMAIN g_news' : g_news'[n] = Entry(k, "whole")
        BY <1>a, <2>1 DEF NoneMissed, Entry
      <4>1. CASE k = i
        <5>1. Len(g_news) + 1 \in DOMAIN g_news' /\ entry = Entry(k, "whole")
          BY <2>5, <3>0, <3>3, <4>1
        <5> QED BY <3>3, <5>1
      <4>2. CASE k < i
        <5>1. PICK n \in DOMAIN g_news : g_news[n] = Entry(k, "whole")
          BY <2>2, <4>2 DEF NoneMissed
        <5>2. n \in DOMAIN g_news' /\ g_news'[n] = g_news[n]
          BY <3>3
        <5> QED BY <5>1, <5>2
      <4> QED BY <2>3, <4>1, <4>2
    <3>7. StraysLast'
      BY <3>b DEF StraysLast
    <3> QED BY <2>1, <3>4, <3>5, <3>6, <3>7 DEF TitlesInv
  <2> QED BY <2>6, <2>7
<1>11. CASE ParseStray
  <2>1. /\ path = "news" /\ pc = "parse" /\ Unterminated /\ ~ItemsLeft
        /\ UNCHANGED <<path, pc, items, total, seen, i>>
    BY <1>11 DEF ParseStray, received, MoreTitles, ItemsLeft
  <2>2. AllTitles /\ Increasing /\ NoneMissed
    BY <2>1 DEF TitlesInv, ReceiveInv
  <2>3. PICK entry \in Entries : entry = Entry(0, "stray")
    BY DEF Entries, Entry
  <2>4. g_news' = Append(g_news, entry) /\ entry.amount = "stray"
    BY <1>11, <2>3 DEF ParseStray, Entry
  <2>5. /\ Len(g_news) \in Nat /\ DOMAIN g_news = 1 .. Len(g_news)
        /\ DOMAIN g_news' = 1 .. Len(g_news) + 1
        /\ \A n \in DOMAIN g_news : g_news'[n] = g_news[n]
        /\ g_news'[Len(g_news) + 1] = entry
    BY <1>0, <2>4
  <2>6. AllTitles'
    <3>1. ASSUME NEW n \in DOMAIN g_news', NEW e, e = g_news'[n] PROVE EntryOK(e)'
      <4>1. CASE n \in DOMAIN g_news
        BY <1>b, <2>1, <2>2, <2>5, <3>1, <4>1 DEF AllTitles
      <4>2. CASE n = Len(g_news) + 1
        BY <1>a, <2>1, <2>4, <2>5, <3>1, <4>2 DEF EntryOK
      <4> QED BY <2>5, <4>1, <4>2
    <3> QED BY <3>1 DEF AllTitles, EntryOK
  <2>7. Increasing'
    <3> SUFFICES ASSUME NEW m \in DOMAIN g_news', NEW n \in DOMAIN g_news', m < n, ~Stray(n)'
                 PROVE  ~Stray(m)' /\ g_news'[m].item < g_news'[n].item
      BY DEF Increasing
    <3>1. n \in DOMAIN g_news
      BY <2>4, <2>5 DEF Stray
    <3>2. m \in DOMAIN g_news
      BY <2>5, <3>1
    <3> QED BY <2>2, <2>5, <3>1, <3>2 DEF Increasing, Stray
  <2>8. NoneMissed'
    <3> SUFFICES ASSUME NEW k \in DOMAIN items, k < i, WholeTitle(k)
                 PROVE  \E n \in DOMAIN g_news' : g_news'[n] = Entry(k, "whole")
      BY <1>a, <2>1 DEF NoneMissed, Entry
    <3>1. PICK n \in DOMAIN g_news : g_news[n] = Entry(k, "whole")
      BY <2>2 DEF NoneMissed
    <3>2. n \in DOMAIN g_news' /\ g_news'[n] = g_news[n]
      BY <2>5
    <3> QED BY <3>1, <3>2
  <2>9. StraysLast'
    BY <2>1 DEF StraysLast, ItemsLeft, KeyFound
  <2> QED BY <2>1, <2>6, <2>7, <2>8, <2>9 DEF TitlesInv
<1>c. ASSUME UNCHANGED <<items, total, seen, i, g_news>>
      PROVE  /\ AllTitles => AllTitles'
             /\ Increasing => Increasing'
             /\ NoneMissed => NoneMissed'
             /\ StraysLast => StraysLast'
             /\ ~MoreTitles => ~MoreTitles'
  <2>1. AllTitles => AllTitles'
    BY <1>b, <1>c DEF AllTitles
  <2>2. NoneMissed => NoneMissed'
    BY <1>a, <1>c DEF NoneMissed, Entry
  <2> QED BY <1>c, <2>1, <2>2 DEF Increasing, StraysLast, Stray, ItemsLeft, MoreTitles, KeyFound
<1>9. CASE Parsed
  <2>1. /\ pc = "parse" /\ pc' = "close" /\ UNCHANGED <<path, items, total, seen, i, g_news>>
        /\ path = "news" => ~MoreTitles
    BY <1>9 DEF Parsed, Goto, received
  <2>2. path = "news" => AllTitles /\ Increasing /\ NoneMissed /\ StraysLast
    BY <2>1 DEF TitlesInv, ReceiveInv
  <2> QED BY <1>c, <2>1, <2>2 DEF TitlesInv
<1>10. CASE UNCHANGED vars
  <2>1. UNCHANGED <<path, pc, items, total, seen, i, g_news>>
    BY <1>10 DEF vars
  <2> QED BY <1>c, <2>1 DEF TitlesInv, HeadersComplete
<1> QED BY <1>3, <1>4, <1>5, <1>6, <1>7, <1>8, <1>9, <1>10, <1>11 DEF Next, Thread

LEMMA HttpInvAlways == Spec => []HttpInv
<1>1. Init => HttpInv
  <2> SUFFICES ASSUME Init PROVE HttpInv
    OBVIOUS
  <2>1. Typing
    <3>1. total = 0 /\ total \in 0 .. Size
      BY ConstantsType DEF Init, Size, BodySize, ErrorSize
    <3>2. g_info \in InfoType
      BY DEF Init, InfoType, MaxAge, Amounts
    <3>3. path \in {"info", "news"} /\ pc = "connect" /\ items = <<>> /\ content_length = -1
          /\ broken = FALSE /\ g_news = <<>>
      BY DEF Init
    <3>4. i = 1 /\ seen = 0
      BY DEF Init
    <3>5. i \in Nat /\ i > 0 /\ seen \in Nat
      BY <3>4
    <3>6. Len(g_news) <= NEWS_MAX /\ g_news \in Seq(Entries) /\ items \in Seq(Items)
      BY <3>3, EmptySeq, ConstantsType
    <3> QED BY <3>1, <3>2, <3>3, <3>5, <3>6 DEF Typing, TypeOK, InfoType
  <2>2. ReceiveInv
    <3>1. pc = "connect" /\ total = 0 /\ content_length = -1 /\ items = <<>>
      BY DEF Init
    <3>2. 0 <= Size /\ ~(0 >= HeaderSize)
      BY <3>1, ConstantsType DEF Size, BodySize, ErrorSize
    <3> QED BY <3>1, <3>2 DEF ReceiveInv, HeadersComplete
  <2>3. InfoInv
    <3>1. \A f \in Fields : g_info[f].age = MaxAge
      BY DEF Init
    <3>2. Ordered
      BY <3>1, Orders DEF Ordered, Newer, MaxAge
    <3> QED BY <3>2 DEF Init, InfoInv, ParsingInfo
  <2>4. TitlesInv
    BY DEF Init, TitlesInv
  <2> QED BY <2>1, <2>2, <2>3, <2>4 DEF HttpInv
<1>2. HttpInv /\ [Next]_vars => HttpInv'
  BY TypingKept, ReceiveInvKept, InfoInvKept, TitlesInvKept DEF HttpInv
<1> QED BY <1>1, <1>2, PTL DEF Spec

\* No more is counted than the response has, and the list of titles is never overrun.
THEOREM ReceiveTyping == Spec => []TypeOK
<1>1. HttpInv => TypeOK
  BY DEF HttpInv, Typing
<1> QED BY <1>1, HttpInvAlways, PTL

\* http_request polls only while some of the response is still to come.
THEOREM PollsForMore == Spec => []NoNeedlessWait
<1>1. HttpInv => NoNeedlessWait
  BY DEF HttpInv, ReceiveInv, NoNeedlessWait
<1> QED BY <1>1, HttpInvAlways, PTL

\* A request for news with headers succeeds only with all of its response.
THEOREM SuccessIsWhole == Spec => []SuccessMeansAll
<1>1. HttpInv => SuccessMeansAll
  <2> SUFFICES ASSUME HttpInv, path = "news", Succeeded, HeadersComplete PROVE total = Size
    BY DEF SuccessMeansAll
  <2>1. total \in Nat /\ BodySize \in Nat /\ BodySize > 0 /\ Size = HeaderSize + BodySize
    BY TypesOf, Sizes DEF HttpInv, Typing, BodySize, Size
  <2>2. content_length = BodySize /\ total <= Size
    BY DEF HttpInv, ReceiveInv
  <2>3. total >= HeaderSize + BodySize
    BY <2>1, <2>2 DEF Succeeded
  <2> QED BY <2>1, <2>2, <2>3, ConstantsType
<1> QED BY <1>1, HttpInvAlways, PTL

\* Between two runs of parse_info no field is older than one that comes later.
THEOREM FieldsInOrder == Spec => []NewerFirst
<1>1. HttpInv => NewerFirst
  BY DEF HttpInv, InfoInv, ParsingInfo, Ordered, Newer, NewerFirst
<1> QED BY <1>1, HttpInvAlways, PTL

LEMMA AmountOf ==
  ASSUME seen \in Nat, NEW k \in Nat
  PROVE  /\ Amount(k) = "whole" <=> seen >= 3 * k
         /\ Amount(k) = "cut" <=> seen = 3 * k - 1
         /\ Amount(k) = "empty" <=> seen < 3 * k - 1
BY DEF Amount, ItemSize

\* An answer to /info that came whole replaces every field.
THEOREM WholeAnswerIsShown == Spec => []CompleteInfoIsShown
<1>1. HttpInv => CompleteInfoIsShown
  <2> SUFFICES ASSUME HttpInv, path = "info", pc = "close", items # <<>>, ~broken, NEW f \in Fields
               PROVE  g_info[f] = [age |-> 0, amount |-> "whole"]
    BY DEF CompleteInfoIsShown
  <2>1. total \in Nat /\ seen \in Nat /\ i \in Nat
    BY TypesOf DEF HttpInv
  <2>2. Size = HeaderSize + 21
    <3>1. items = ResponseOrder
      BY DEF HttpInv, ReceiveInv
    <3> QED BY <3>1, Orders DEF Size, BodySize, ItemSize
  <2>3. total <= Size /\ (total = Size \/ total >= BufSize - 1)
    BY DEF HttpInv, ReceiveInv
  <2>4. total = HeaderSize + 21
    BY <2>1, <2>2, <2>3, ConstantsType
  <2>5. HeadersComplete /\ seen = 21
    <3>1. HeadersComplete
      BY <2>4, ConstantsType DEF HeadersComplete
    <3>2. seen = total - HeaderSize \/ total > BufSize
      BY <3>1 DEF HttpInv, ReceiveInv
    <3> QED BY <2>1, <2>4, <3>1, <3>2, ConstantsType
  <2>6. i > 7 /\ DoneShown
    BY <2>5, Orders DEF HttpInv, InfoInv
  <2>7. Position(f) \in 1 .. 7 /\ \E k \in 1 .. 7 : fields[k] = f
    BY Orders
  <2>8. Done(f)
    <3>1. Found(f)
      BY <2>5, <2>7 DEF Found, KeyFound, ItemSize
    <3>2. \A k \in 1 .. 7 : k < i
      BY <2>1, <2>6
    <3> QED BY <2>7, <3>1, <3>2, Orders DEF Done
  <2>9. Amount(Position(f)) = "whole"
    <3>1. seen >= 3 * Position(f) /\ Position(f) \in Nat
      BY <2>5, <2>7
    <3> QED BY <2>1, <3>1, AmountOf
  <2> QED BY <2>6, <2>8, <2>9 DEF DoneShown
<1> QED BY <1>1, HttpInvAlways, PTL

\* The titles that came whole, and those of them before k.
Whole     == {k \in DOMAIN items : items[k] = "title" /\ Amount(k) = "whole"}
Before(k) == {j \in Whole : j < k}

\* The list that parse_news_titles has filled.
LEMMA ListedTitles ==
  ASSUME HttpInv, path = "news", pc = "close", HeadersComplete
  PROVE  /\ Len(g_news) \in Nat /\ Len(g_news) <= NEWS_MAX /\ DOMAIN g_news = 1 .. Len(g_news)
         /\ items \in Seq(Items) /\ i \in Nat /\ seen \in Nat
         /\ AllTitles /\ Increasing /\ NoneMissed /\ StraysLast /\ ~MoreTitles
         /\ \A n \in 1 .. Len(g_news) :
              ~Stray(n) => /\ g_news[n].item \in DOMAIN items /\ g_news[n].item \in Nat
                           /\ g_news[n].item < i
                           /\ g_news[n].amount \in Readings(g_news[n].item)
                           /\ IsTitle(g_news[n].item, g_news[n].amount)
<1>1. /\ Len(g_news) \in Nat /\ Len(g_news) <= NEWS_MAX /\ g_news \in Seq(Entries)
      /\ items \in Seq(Items) /\ i \in Nat /\ seen \in Nat
  BY TypesOf DEF HttpInv, Typing
<1>2. AllTitles /\ Increasing /\ NoneMissed /\ StraysLast /\ ~MoreTitles
  BY DEF HttpInv, TitlesInv
<1> QED BY <1>1, <1>2 DEF AllTitles, EntryOK, Stray

Taken(n) == g_news[n].amount = "whole"

\* An entry that counts as whole is a title that came whole, and so is each before it.
LEMMA TakenAreWhole ==
  ASSUME HttpInv, path = "news", pc = "close", HeadersComplete,
         NEW n \in 1 .. Len(g_news)
  PROVE  /\ Taken(n) => ~Stray(n) /\ g_news[n].item \in Whole
         /\ ~Stray(n) /\ g_news[n].item \in Whole => Taken(n)
         /\ Taken(n) => \A m \in 1 .. n - 1 : Taken(m) /\ g_news[m].item < g_news[n].item
<1>1. ASSUME NEW k \in 1 .. Len(g_news), ~Stray(k)
      PROVE  /\ Taken(k) <=> Amount(g_news[k].item) = "whole"
             /\ Taken(k) => g_news[k].item \in Whole
  <2>1. /\ g_news[k].item \in DOMAIN items
        /\ g_news[k].amount \in Readings(g_news[k].item)
        /\ IsTitle(g_news[k].item, g_news[k].amount)
    BY <1>1, ListedTitles
  <2>2. Taken(k) <=> Amount(g_news[k].item) = "whole"
    BY <2>1, ReadingsOf DEF Taken
  <2>3. Taken(k) => items[g_news[k].item] = "title"
    BY <2>1 DEF IsTitle, Taken
  <2> QED BY <2>1, <2>2, <2>3 DEF Whole
<1>2. Taken(n) => ~Stray(n) /\ g_news[n].item \in Whole
  BY <1>1 DEF Taken, Stray
<1>3. ~Stray(n) /\ g_news[n].item \in Whole => Taken(n)
  BY <1>1 DEF Whole
<1>4. ASSUME Taken(n), NEW m \in 1 .. n - 1 PROVE Taken(m) /\ g_news[m].item < g_news[n].item
  <2>1. m \in 1 .. Len(g_news) /\ m < n /\ ~Stray(n)
    BY <1>2, <1>4, ListedTitles
  <2>2. ~Stray(m) /\ g_news[m].item < g_news[n].item
    BY <2>1, ListedTitles DEF Increasing
  <2>3. g_news[m].item \in Nat /\ g_news[n].item \in Nat /\ seen \in Nat
    BY <2>1, <2>2, ListedTitles
  <2>4. ~(seen < 3 * g_news[n].item)
    BY <1>1, <1>4, <2>1, <2>3, AmountOf
  <2>5. PICK a \in Nat, b \in Nat : a = g_news[m].item /\ b = g_news[n].item
    BY <2>3
  <2>6. seen >= 3 * a
    BY <2>2, <2>3, <2>4, <2>5
  <2>7. Amount(a) = "whole"
    BY <2>3, <2>6, AmountOf
  <2> QED BY <1>1, <2>1, <2>2, <2>5, <2>7
<1> QED BY <1>2, <1>3, <1>4

\* Before an entry that is whole there are no more whole titles than entries.
LEMMA FewBefore ==
  ASSUME HttpInv, path = "news", pc = "close", HeadersComplete,
         NEW n \in 1 .. Len(g_news), Taken(n)
  PROVE  Cardinality(Before(g_news[n].item)) < NEWS_MAX
<1>1. /\ Len(g_news) \in Nat /\ Len(g_news) <= NEWS_MAX /\ DOMAIN g_news = 1 .. Len(g_news)
      /\ items \in Seq(Items) /\ i \in Nat /\ Increasing /\ NoneMissed
  BY ListedTitles
<1>2. ~Stray(n)
  BY TakenAreWhole
<1>3. g_news[n].item \in Nat /\ g_news[n].item < i
  BY <1>1, <1>2, ListedTitles
<1> DEFINE f == [m \in 1 .. n - 1 |-> g_news[m].item]
           T == Before(g_news[n].item)
<1>4. ASSUME NEW m \in 1 .. n - 1 PROVE f[m] \in T
  <2>1. m \in 1 .. Len(g_news)
    BY <1>1
  <2>2. Taken(m) /\ g_news[m].item < g_news[n].item
    BY <1>4, TakenAreWhole
  <2>3. g_news[m].item \in Whole
    BY <2>1, <2>2, TakenAreWhole
  <2> QED BY <2>2, <2>3 DEF Before
<1>5. ASSUME NEW j \in T PROVE \E m \in 1 .. n - 1 : f[m] = j
  <2>1. j \in DOMAIN items /\ j \in Nat /\ j < g_news[n].item /\ WholeTitle(j)
    BY <1>1 DEF Before, Whole, WholeTitle
  <2>2. j < i
    BY <1>1, <1>3, <2>1
  <2>3. PICK m \in DOMAIN g_news : g_news[m] = Entry(j, "whole")
    BY <1>1, <2>1, <2>2 DEF NoneMissed
  <2>4. g_news[m].item = j /\ ~Stray(m)
    BY <2>3 DEF Entry, Stray
  <2>5. ~(n < m) /\ m # n
    <3>1. ~(g_news[n].item < j) /\ g_news[n].item # j
      BY <1>3, <2>1
    <3> QED BY <1>1, <2>4, <3>1 DEF Increasing
  <2>6. m \in 1 .. n - 1
    BY <1>1, <2>3, <2>5
  <2> QED BY <2>4, <2>6
<1>6. f \in Surjection(1 .. n - 1, T)
  BY <1>4, <1>5 DEF Surjection
<1> HIDE DEF f, T
<1>7. IsFiniteSet(1 .. n - 1) /\ Cardinality(1 .. n - 1) = n - 1
  <2>1. n - 1 \in Int /\ 1 \in Int /\ n - 1 >= 0
    BY <1>1
  <2>2. IsFiniteSet(1 .. n - 1) /\ Cardinality(1 .. n - 1) = IF 1 > n - 1 THEN 0 ELSE n - 1 - 1 + 1
    BY <2>1, FS_Interval
  <2> QED BY <2>1, <2>2
<1>8. IsFiniteSet(T) /\ Cardinality(T) <= n - 1
  BY <1>6, <1>7, FS_Surjection
<1>9. Cardinality(T) \in Nat
  BY <1>8, FS_CardinalityType
<1> QED BY <1>1, <1>8, <1>9, ConstantsType DEF T

\* The first NEWS_MAX whole titles are all in the list.
LEMMA FirstAreListed ==
  ASSUME HttpInv, path = "news", pc = "close", HeadersComplete,
         NEW k \in Whole, Cardinality(Before(k)) < NEWS_MAX
  PROVE  \E n \in DOMAIN g_news : g_news[n] = Entry(k, "whole")
<1>1. /\ Len(g_news) \in Nat /\ Len(g_news) <= NEWS_MAX /\ DOMAIN g_news = 1 .. Len(g_news)
      /\ items \in Seq(Items) /\ i \in Nat /\ seen \in Nat
  BY ListedTitles
<1>2. Increasing /\ NoneMissed /\ StraysLast /\ ~MoreTitles
  BY ListedTitles
<1>3. k \in DOMAIN items /\ k \in Nat /\ WholeTitle(k) /\ seen >= 3 * k
  BY <1>1, AmountOf DEF Whole, WholeTitle
<1>4. CASE k < i
  BY <1>2, <1>3, <1>4 DEF NoneMissed
<1>5. CASE ~(k < i)
  <2>0. ItemsLeft
    <3>1. i <= Len(items) /\ seen > 3 * (i - 1)
      BY <1>1, <1>3, <1>5
    <3> QED BY <3>1 DEF ItemsLeft, KeyFound, ItemSize
  <2>1. Len(g_news) = NEWS_MAX
    <3>1. ~(Len(g_news) < NEWS_MAX)
      BY <1>2, <2>0 DEF MoreTitles, ItemsLeft
    <3>2. PICK len \in Nat : len = Len(g_news) /\ len <= NEWS_MAX
      BY <1>1
    <3>3. len = NEWS_MAX
      BY <3>1, <3>2, ConstantsType
    <3> QED BY <3>2, <3>3
  <2>2. ASSUME NEW n \in 1 .. NEWS_MAX PROVE ~Stray(n) /\ g_news[n].item \in Before(k)
    <3>1. n \in 1 .. Len(g_news) /\ ~Stray(n)
      BY <1>1, <1>2, <2>0, <2>1 DEF StraysLast
    <3>2. g_news[n].item \in DOMAIN items /\ g_news[n].item \in Nat /\ g_news[n].item < i
      BY <3>1, ListedTitles
    <3>3. g_news[n].item < k /\ seen >= 3 * g_news[n].item
      BY <1>1, <1>3, <1>5, <3>2
    <3>4. Amount(g_news[n].item) = "whole"
      BY <1>1, <3>2, <3>3, AmountOf
    <3>5. g_news[n].amount \in Readings(g_news[n].item) /\ IsTitle(g_news[n].item, g_news[n].amount)
      BY <3>1, ListedTitles
    <3>6. Taken(n)
      BY <3>4, <3>5, ReadingsOf DEF Taken
    <3>7. g_news[n].item \in Whole
      BY <3>1, <3>6, TakenAreWhole
    <3> QED BY <3>1, <3>3, <3>7 DEF Before
  <2> DEFINE f == [n \in 1 .. NEWS_MAX |-> g_news[n].item]
             T == Before(k)
  <2>3. f \in [1 .. NEWS_MAX -> T]
    BY <2>2
  <2>4. \A m, n \in 1 .. NEWS_MAX : f[m] = f[n] => m = n
    <3> SUFFICES ASSUME NEW m \in 1 .. NEWS_MAX, NEW n \in 1 .. NEWS_MAX, f[m] = f[n], m < n
                 PROVE  FALSE
      BY ConstantsType
    <3>1. g_news[m].item < g_news[n].item
      BY <1>1, <1>2, <2>1, <2>2 DEF Increasing
    <3>2. g_news[m].item \in Nat
      BY <1>1, <2>1, <2>2, ListedTitles
    <3> QED BY <3>1, <3>2
  <2>5. IsFiniteSet(T)
    <3>1. T \subseteq 1 .. Len(items)
      BY <1>1 DEF Before, Whole
    <3>2. IsFiniteSet(1 .. Len(items))
      BY <1>1, FS_Interval
    <3> QED BY <3>1, <3>2, FS_Subset
  <2>6. IsFiniteSet(1 .. NEWS_MAX) /\ Cardinality(1 .. NEWS_MAX) = NEWS_MAX
    BY ConstantsType, FS_Interval
  <2> HIDE DEF f, T
  <2>7. Cardinality(T) < Cardinality(1 .. NEWS_MAX)
    BY <2>6 DEF T
  <2>8. \E x, y \in 1 .. NEWS_MAX : x # y /\ f[x] = f[y]
    BY <2>3, <2>5, <2>6, <2>7, FS_PigeonHole
  <2> QED BY <2>4, <2>8
<1> QED BY <1>4, <1>5

\* If a NUL follows the response, each entry but the last is whole.
LEMMA PartIsLast ==
  ASSUME HttpInv, path = "news", pc = "close", HeadersComplete, ~Unterminated,
         NEW n \in 1 .. Len(g_news), n # Len(g_news)
  PROVE  Taken(n)
<1>1. /\ Len(g_news) \in Nat /\ DOMAIN g_news = 1 .. Len(g_news)
      /\ items \in Seq(Items) /\ seen \in Nat /\ AllTitles /\ Increasing
  BY ListedTitles
<1>2. \A m \in 1 .. Len(g_news) : ~Stray(m)
  BY <1>1 DEF AllTitles, EntryOK, Stray
<1>3. n + 1 \in 1 .. Len(g_news) /\ n < n + 1
  <2>1. PICK len \in Nat : len = Len(g_news)
    BY <1>1
  <2>2. n + 1 \in 1 .. len /\ n < n + 1
    BY <2>1
  <2> QED BY <2>1, <2>2
<1>4. g_news[n].item < g_news[n + 1].item
  BY <1>1, <1>2, <1>3 DEF Increasing
<1>5. /\ g_news[n].item \in Nat /\ g_news[n].amount \in Readings(g_news[n].item)
      /\ g_news[n + 1].item \in Nat /\ g_news[n + 1].amount \in Readings(g_news[n + 1].item)
      /\ g_news[n + 1].amount # "empty"
  BY <1>2, <1>3, ListedTitles DEF IsTitle
<1>6. Amount(g_news[n + 1].item) # "empty"
  BY <1>5, ReadingsOf
<1>7. PICK a \in Nat, b \in Nat : a = g_news[n].item /\ b = g_news[n + 1].item
  BY <1>5
<1>8. ~(seen < 3 * b - 1) /\ a < b
  BY <1>1, <1>4, <1>6, <1>7, AmountOf
<1>9. seen >= 3 * a
  <2>1. seen \in Nat
    BY <1>1
  <2> QED BY <1>8, <2>1
<1>10. Amount(a) = "whole"
  BY <1>1, <1>9, AmountOf
<1> QED BY <1>5, <1>7, <1>10, ReadingsOf DEF Taken

\* The list of titles begins with those that came whole; what follows is one part of
\* an item at most, or strays if the response fills the buffer.
THEOREM ListIsInOrder == Spec => []TitlesInOrder
<1>1. HttpInv => TitlesInOrder
  <2> SUFFICES ASSUME HttpInv, path = "news", pc = "close", HeadersComplete
               PROVE  TitlesInOrder
    BY DEF TitlesInOrder
  <2> DEFINE first == {k \in Whole : Cardinality(Before(k)) < NEWS_MAX}
             taken == {n \in DOMAIN g_news : g_news[n].amount = "whole"}
  <2>0. DOMAIN g_news = 1 .. Len(g_news) /\ \A n \in taken : n \in 1 .. Len(g_news) /\ Taken(n)
    BY ListedTitles DEF Taken
  <2>1. ASSUME NEW k \in first PROVE \E n \in taken : g_news[n].item = k
    <3>1. PICK n \in DOMAIN g_news : g_news[n] = Entry(k, "whole")
      BY <2>1, FirstAreListed
    <3>2. n \in taken /\ g_news[n].item = k
      BY <3>1 DEF Entry
    <3> QED BY <3>2
  <2>2. ASSUME NEW n \in taken PROVE g_news[n].item \in first
    BY <2>0, <2>2, FewBefore, TakenAreWhole
  <2>3. ASSUME NEW n \in taken, NEW m \in 1 .. n - 1
        PROVE  m \in taken /\ g_news[m].item < g_news[n].item
    <3>1. Taken(m) /\ g_news[m].item < g_news[n].item
      BY <2>0, <2>3, TakenAreWhole
    <3>2. m \in 1 .. Len(g_news)
      BY <2>0, <2>3, ListedTitles
    <3> QED BY <2>0, <3>1, <3>2 DEF Taken
  <2>4. ASSUME ~Unterminated, NEW n \in DOMAIN g_news PROVE n \in taken \/ n = Len(g_news)
    BY <2>0, <2>4, PartIsLast DEF Taken
  <2> HIDE DEF first, taken
  <2>5. /\ \A k \in first : \E n \in taken : g_news[n].item = k
        /\ \A n \in taken : g_news[n].item \in first
        /\ \A n \in taken : \A m \in 1 .. n - 1 : m \in taken /\ g_news[m].item < g_news[n].item
        /\ ~Unterminated => \A n \in DOMAIN g_news : n \in taken \/ n = Len(g_news)
    BY <2>1, <2>2, <2>3, <2>4
  <2> QED BY <2>5 DEF TitlesInOrder, first, taken, Before, Whole
<1> QED BY <1>1, HttpInvAlways, PTL

-----------------------------------------------------------------------------
(***************************************************************************)
(* What RequestEnds rests on: each round of a loop uses up some of what    *)
(* bounds it.                                                              *)
(***************************************************************************)
LoopsAdvance ==
    [][/\ pc = "poll" /\ pc' = "poll" => total < total' /\ total' < Size' /\ Size' = Size
       /\ pc = "parse" /\ pc' = "parse" =>
             /\ i + Len(g_news) < i' + Len(g_news')
             /\ i' # i => i' <= 1 + (IF path = "info" THEN Len(fields) ELSE Len(items))
             /\ Len(g_news') <= NEWS_MAX]_vars

\* A round of the receive loop takes bytes of the response of which some are left, a
\* round of a parser a field, an item or a place of the list, so that none of the loops
\* of http_request, parse_info and parse_news_titles can go round for ever.
THEOREM LoopsEnd == Spec => LoopsAdvance
<1> DEFINE Parses ==
      /\ i + Len(g_news) < i' + Len(g_news')
      /\ i' # i => i' <= 1 + (IF path = "info" THEN Len(fields) ELSE Len(items))
      /\ Len(g_news') <= NEWS_MAX
           Advance ==
      /\ pc = "poll" /\ pc' = "poll" => total < total' /\ total' < Size' /\ Size' = Size
      /\ pc = "parse" /\ pc' = "parse" => Parses
<1>1. HttpInv /\ HttpInv' /\ [Next]_vars => [Advance]_vars
  <2> SUFFICES ASSUME HttpInv, HttpInv', Next PROVE Advance
    OBVIOUS
  <2>0. /\ total \in Nat /\ i \in Nat /\ Len(items) \in Nat /\ Len(fields) = 7
        /\ g_news \in Seq(Entries) /\ Len(g_news) \in Nat
    BY TypesOf, Orders DEF HttpInv, Typing
  <2>1. ASSUME pc = "poll", pc' = "poll"
        PROVE  total < total' /\ total' < Size' /\ Size' = Size
    <3>1. PICK n \in 1 .. ChunkSize - 1 : Chunk(n)
      BY <2>1 DEF Next, Thread, Request, Break, BufferFull, Body, ParseField, ParseTitle,
                  ParseStray, Parsed, Close, Goto
    <3>2. total' = total + n /\ items' = items /\ n \in Nat /\ n > 0
      BY <3>1, ConstantsType DEF Chunk
    <3>3. total < total'
      BY <2>0, <3>2
    <3>4. Size' = Size
      BY <3>2 DEF Size, BodySize
    <3>5. total' < Size'
      BY <2>1 DEF HttpInv, ReceiveInv
    <3> QED BY <3>3, <3>4, <3>5
  <2>2. ASSUME pc = "parse", pc' = "parse" PROVE Parses
    <3>0. Len(g_news') <= NEWS_MAX
      BY DEF HttpInv, Typing, TypeOK
    <3>1. ParseField \/ ParseTitle \/ ParseStray
      BY <2>2 DEF Next, Thread, Request, Break, BufferFull, Body, Chunk, Parsed, Close, Goto
    <3>2. g_news' = g_news \/ \E e : g_news' = Append(g_news, e)
      BY <3>1 DEF ParseField, ParseTitle, ParseStray
    <3>3. Len(g_news') \in {Len(g_news), Len(g_news) + 1}
      BY <2>0, <3>2
    <3>4. CASE ParseField \/ ParseTitle
      <4>1. /\ i' = i + 1
            /\ i <= (IF path = "info" THEN Len(fields) ELSE Len(items))
        BY <3>4 DEF ParseField, ParseTitle, MoreTitles
      <4> QED BY <2>0, <3>0, <3>3, <4>1
    <3>5. CASE ParseStray
      <4>1. i' = i /\ Len(g_news') = Len(g_news) + 1
        BY <2>0, <3>5 DEF ParseStray
      <4> QED BY <2>0, <3>0, <4>1
    <3> QED BY <3>1, <3>4, <3>5
  <2> QED BY <2>1, <2>2
<1>2. Spec => [][Advance]_vars
  BY <1>1, HttpInvAlways, PTL DEF Spec
<1> QED BY <1>2 DEF LoopsAdvance
=============================================================================
