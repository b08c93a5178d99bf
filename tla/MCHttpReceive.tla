--------------------------- MODULE MCHttpReceive ---------------------------
(***************************************************************************)
(* Answers to /news: articles, each an object with a "title", as the parser*)
(* expects them, and the proxy's list of strings.  With headers of 3 bytes *)
(* and a buffer of 27, articles up to the fifth leave room in the buffer,  *)
(* 8 fill it, 9 end in the chunk that overruns it, and 10 are longer.      *)
(***************************************************************************)
EXTENDS HttpReceive

ProxyAnswers == {<<"string", "string">>, <<"string", "string", "string", "string">>}

Articles == {<<"title">>, <<"null", "title", "null">>,
             <<"title", "null", "title", "title", "title">>,
             <<"title", "null", "null", "title", "null", "null", "null", "null">>,
             <<"title", "null", "null", "null", "null", "null", "null", "null", "title">>,
             <<"title", "null", "null", "title", "null", "null", "null", "null", "null", "title">>}

MCAnswers == Articles \cup ProxyAnswers
=============================================================================
