------------------------------- MODULE MCTcp -------------------------------
(* Instances of TcpStack for TLC: files, requests and scenarios.           *)
EXTENDS TcpStack

SmallFiles ==
  [f \in {"page", "data", "torn"} |->
     [path |-> CASE f = "page" -> IndexHtm [] f = "data" -> <<<<97>>, <<98>>>> [] f = "torn" -> <<<<98>>, <<>>>>,
      length |-> IF f = "page" THEN 1 ELSE 2, html |-> f = "page", torn |-> f = "torn"]]

\* "GET / ", "GET /A.b?a=0 ", "GET /%62 ", "GET /a ", "HEAD / ", "GET a ", "PUT"
SmallRequests ==
  [t \in {"GET page", "GET data", "GET torn", "GET missing", "HEAD page", "bad", "unknown"} |->
     CASE t = "GET page"    -> GET \o <<32, 47, 32>>
       [] t = "GET data"    -> GET \o <<32, 47, 65, 46, 98, 63, 97, 61, 48, 32>>
       [] t = "GET torn"    -> GET \o <<32, 47, 37, 54, 50, 32>>
       [] t = "GET missing" -> GET \o <<32, 47, 97, 32>>
       [] t = "HEAD page"   -> HEAD \o <<32, 47, 32>>
       [] t = "bad"         -> GET \o <<32, 97, 32>>
       [] t = "unknown"     -> <<80, 85, 84>>]

\* what may follow GET or HEAD: up to four bytes of each kind, after a path's beginnings
Words(S) == UNION {[1..n -> S] : n \in 0..4}
Paths ==
  {p \o w : p \in {<<>>, <<47>>, <<47, 65, 65, 65, 65>>, <<47, 65, 46, 65, 65>>},
            w \in Words({Char.space, Char.percent, Char.dot, Char.slash, Char.zero,
                         Char.question, Char.A})}
Queries ==
  {<<47, 63>> \o w : w \in Words({Char.space, Char.percent, Char.and, Char.plus,
                                  Char.zero, Char.equals, Char.A})}

SmallTexts == Paths \cup Queries

\* one client, one request, one mishap
Client == [role |-> "client", ends |-> {"a"}, opens |-> 1, requests |-> 1,
           asks |-> {"GET page", "GET data", "GET torn", "bad"}, silent |-> {}, mishaps |-> 1,
           inactive |-> TRUE, patient |-> FALSE, hurried |-> FALSE, knows |-> TRUE, arps |-> 0,
           delayed |-> FALSE, drains |-> FALSE, timely |-> TRUE]

SmallScenarios ==
  {Client,
   [Client EXCEPT !.role = "server"],
   \* a server whose address is not known
   [Client EXCEPT !.role = "server", !.knows = FALSE, !.arps = 1],
   \* a client that comes back
   [Client EXCEPT !.opens = 2, !.asks = {"HEAD page"}, !.inactive = FALSE],
   \* a connection kept for a second request, which may bring a late
   \* acknowledgement, or follow one that is lost
   [Client EXCEPT !.requests = 2, !.mishaps = 0, !.asks = {"GET data", "HEAD page"},
                  !.delayed = TRUE],
   [Client EXCEPT !.requests = 2, !.asks = {"HEAD page"}, !.inactive = FALSE],
   \* a client that closes with its request
   [Client EXCEPT !.hurried = TRUE, !.mishaps = 0, !.asks = {"GET data"}],
   \* every request; acknowledgements that come late, or with the FIN
   [Client EXCEPT !.asks = DOMAIN SmallRequests, !.delayed = TRUE, !.mishaps = 0],
   \* two clients at a time, one of which only opens and closes
   [Client EXCEPT !.ends = {"a", "b"}, !.asks = {"bad"}, !.silent = {"b"}, !.mishaps = 0,
                  !.inactive = FALSE]}
=============================================================================
