------------------------------- MODULE MCHttp -------------------------------
(* Small instances of Http for TLC. *)
EXTENDS Http

\* Sizes of responses: around the powers of two, of which utility_u32_len makes its
\* guess, and of ten, where it corrects it.
AnswerSizes ==
  UNION ({{2 ^ e - 1, 2 ^ e} : e \in 0 .. 30} \cup {{10 ^ e - 1, 10 ^ e, 10 ^ e + 1} : e \in 0 .. 9})
    \cup {2147483000}

Field_(name, value) == [name |-> name, value |-> value]
Host    == Field_("Host", <<"host">>)
Size(k) == Field_("Content-Length", <<k>>)
Coding(c) == Field_("Transfer-Encoding", <<c>>)

Request(method, fields, pieces) ==
  [formed |-> TRUE, method |-> method, fields |-> fields, pieces |-> pieces,
   says |-> [k \in DOMAIN pieces |-> Len(pieces[k])], asks |-> 0]

a == <<"data", 1>>
b == <<"data", 2>>

Get == Request("GET", <<Host>>, <<>>)

Piece == Request("POST", <<Coding("chunked")>>, <<<<b, a, LF>>>>)

Good ==
  {Get,
   Request("POST", <<Size(0)>>, <<>>),
   Request("POST", <<Host, Size(2)>>, <<<<a, LF>>>>),
   Request("POST", <<Coding("chunked")>>, <<>>),
   Request("POST", <<Coding("chunked"), Host>>, <<<<a>>, <<LF, b>>>>),
   Piece}

Bad ==
  {[Get EXCEPT !.formed = FALSE],
   Request("POST", <<Host>>, <<>>),
   Request("POST", <<Size(1), Coding("chunked")>>, <<<<a>>>>),
   Request("POST", <<Coding("weird")>>, <<<<a>>>>)}

\* Sizes that are not those of the body: a little less or more, and so much that the sum
\* with the head or the line does not fit a size_t, or all but does; or negative.
FalseSizes ==
  {0, 1, 3, 9, -1, -3, 5 - SizeMod, 2 * SizeMod} \cup {SizeMod - d : d \in -1 .. 8}
    \cup {SizeMod - d : d \in {15, 20, 25, 30, 60}}

False_ ==
  {[Request("POST", <<Coding("chunked")>>, <<<<a>>, <<a, LF>>>>) EXCEPT !.says = says] :
     says \in {<<1, v>> : v \in FalseSizes} \cup {<<v, 2>> : v \in FalseSizes \ {1}}}
  \cup {Request("POST", <<Size(v)>>, <<<<a, LF>>>>) : v \in FalseSizes}

\* Bodies with which the size of the request is around what an int can tell: with the
\* head, and for a chunk also its lines and the last chunk.
Long ==
  LET sizes == {IntMod \div 2 + e : e \in -1 .. 1} \cup {IntMod + e : e \in -2 .. 1}
      Of(n) == [k \in 1 .. n |-> IF k % 3 = 0 THEN LF ELSE a]
  IN  {Request("POST", <<Size(n - 2)>>, <<Of(n - 2)>>) : n \in sizes}
        \cup {Request("POST", <<Coding("chunked")>>, <<Of(n - 12)>>) : n \in sizes}

MCScripts ==
  {<<[Get EXCEPT !.asks = n]>> : n \in AnswerSizes}
    \cup {<<r, s, t>> : r \in Good, s \in Good, t \in {Get, Piece}}
    \cup {<<r, s>> : r \in Good, s \in Bad}
    \cup {<<r, Get>> : r \in False_} \cup {<<r>> : r \in Long}
==============================================================================
