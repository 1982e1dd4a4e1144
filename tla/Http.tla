-------------------------------- MODULE Http --------------------------------
(***************************************************************************)
(* The HTTP server (application/ibexukIP/eth-http.c) on top of the TCP     *)
(* sockets: operators on a record w that has the fields of Tcp and http,   *)
(* the server's sockets.  HttpRequest reads a request.  A file is a number *)
(* of segments; the response is a header and then the file.                *)
(***************************************************************************)
EXTENDS TcpProcess, HttpRequest

CONSTANTS
  NumHttp,        \* HTTP_NO_OF_AVAILABLE_SOCKETS
  Files,          \* the files: name -> its path, its length, whether it is HTML, and
                  \* whether HTTP_EXTERNAL_FILE_NEXT_BYTES may fail to read it
  Requests,       \* the requests: name -> its bytes
  Asked           \* what each asks for, as it is read: Reading, evaluated once

ASSUME HttpAssumption ==
  /\ NumHttp \in Nat \ {0}
  /\ Files \in [DOMAIN Files -> [path : Seq(Byte) \X Seq(Byte), length : Nat,
                                 html : BOOLEAN, torn : BOOLEAN]]
  /\ Requests \in [DOMAIN Requests -> Seq(Byte)]

HttpSockets == 0..(NumHttp - 1)

\* what each request asks for: "" is a file there is not
Found(q) ==
  LET found == {f \in DOMAIN Files : Files[f].path = q.path}
  IN [type |-> q.type, file |-> IF found = {} THEN "" ELSE CHOOSE f \in found : TRUE]
Reading == [t \in DOMAIN Requests |-> Found(ReadRequest(Requests[t]))]
ASSUME AskedAssumption == Asked = Reading

NotStarted == -1     \* file_bytes_sent_last_time = 0xffff
ErrorSent  == -2     \* file_bytes_sent_last_time = 0xfffe

\* what is sent: the header, the k-th segment of a file, an error page
Header    == "200 OK"
ErrorPage == "error"
Part(f, k) == f \o ToString(k)
Page(f, head) == <<Header>> \o (IF head THEN <<>>
                                ELSE [k \in 1..Files[f].length |-> Part(f, k)])

ErrorStates == {"RETURN_BAD_REQUEST", "RETURN_NOT_FOUND", "RETURN_NOT_IMPLEMENTED",
                "RETURN_SERVICE_UNAVAILABLE"}
ResponseStates == {"START_HEAD_RESPONSE", "START_RESPONSE", "CONTINUE_RESPONSE"}
HttpStates == {"WAITING_FOR_CONNECTION", "CONNECTED_TO_CLIENT", "CLOSE_CONNECTION"}
              \cup ErrorStates \cup ResponseStates

HttpType == [HttpSockets -> [sm : HttpStates, socket : Sockets \cup {TCP_INVALID_SOCKET},
                             file : DOMAIN Files \cup {""},
                             remaining : Nat,   \* response_bytes_remaining
                             sent : Int]]       \* file_bytes_sent_last_time

http_initialise ==
  [h \in HttpSockets |-> [sm |-> "WAITING_FOR_CONNECTION", socket |-> TCP_INVALID_SOCKET,
                          file |-> "", remaining |-> 0, sent |-> 0]]

State(w, h, sm) == [w EXCEPT !.http[h].sm = sm]

\* http_setup_response
http_setup_response(w, h, type, file) ==
  IF file \notin DOMAIN Files THEN State(w, h, "RETURN_NOT_FOUND")
  ELSE [w EXCEPT !.http[h] = [@ EXCEPT !.file = file, !.remaining = Files[file].length,
                                !.sent = NotStarted,
                                !.sm = IF type = "HEAD" THEN "START_HEAD_RESPONSE"
                                       ELSE "START_RESPONSE"]]

\* the whole request is in one segment, which is dumped in every case; in other data
\* there is neither GET nor HEAD
http_process_rx(w, h, text) ==
  LET d == tcp_dump_rx_packet([w EXCEPT !.http[h].sent = 0])
      q == IF text \in DOMAIN Asked THEN Asked[text] ELSE [type |-> "UNKNOWN", file |-> ""]
  IN CASE q.type = "UNKNOWN" -> State(d, h, "RETURN_NOT_IMPLEMENTED")
       [] q.type = "BAD"     -> State(d, h, "RETURN_BAD_REQUEST")
       [] q.type \in {"GET", "HEAD"} -> http_setup_response(d, h, q.type, q.file)

-----------------------------------------------------------------------------
(* Responses.  fails: the file cannot be read this time.                   *)

\* the header, or the next segment of the file; the sequence number has moved
\* on before a read fails
SendNext(w, h, fails) ==
  LET p    == w.http[h]
      s    == p.socket
      next == Files[p.file].length - p.remaining + 1
      k    == w.tcp.socket[s]
  IN CASE p.sm \in {"START_HEAD_RESPONSE", "START_RESPONSE"} ->
            SendData([w EXCEPT !.http[h].sent = 0], s, Header)
       [] p.sm = "CONTINUE_RESPONSE" /\ p.remaining = 0 ->
            SendData([w EXCEPT !.http[h].sent = 0], s, NoData)
       [] p.sm = "CONTINUE_RESPONSE" /\ p.remaining > 0 /\ ~fails ->
            SendData([w EXCEPT !.http[h].sent = 1], s, Part(p.file, next))
       [] p.sm = "CONTINUE_RESPONSE" /\ p.remaining > 0 /\ fails ->
            Become([w EXCEPT !.http[h].sent = 0, !.http[h].sm = "RETURN_SERVICE_UNAVAILABLE"], s,
                   [(IF k.resend THEN k ELSE Advanced(k)) EXCEPT !.had_data = FALSE, !.last_flags = {"ACK"}])

\* what was sent last has been acknowledged
NextPart(w, h) ==
  LET p == w.http[h]
      r == p.remaining - p.sent
  IN CASE p.sent = NotStarted -> w
       [] p.sent = 0 /\ p.sm = "START_HEAD_RESPONSE" -> State(w, h, "CONNECTED_TO_CLIENT")
       [] p.sent = 0 /\ p.sm # "START_HEAD_RESPONSE" -> State(w, h, "CONTINUE_RESPONSE")
       [] p.sent > 0 -> [w EXCEPT !.http[h].remaining = r,
                           !.http[h].sm = IF r > 0 THEN @
                                          ELSE IF Files[p.file].html THEN "CLOSE_CONNECTION"
                                          ELSE "CONNECTED_TO_CLIENT"]

\* mutant: the registers of the file move on for a packet that is sent again
http_transmit_next_response_packet_Moves(w, h, resend, fails) ==
  LET n == NextPart(w, h)
  IN IF n.http[h].sm \in ResponseStates THEN SendNext(n, h, fails) ELSE n

http_transmit_next_response_packet(w, h, resend, fails) ==
  LET n == IF resend THEN w ELSE NextPart(w, h)
  IN IF n.http[h].sm \in ResponseStates THEN SendNext(n, h, fails) ELSE n

http_transmit_error_response(w, h, resend) ==
  IF ~resend /\ w.http[h].sent = ErrorSent
  THEN [w EXCEPT !.http[h].sent = 0, !.http[h].sm = "CLOSE_CONNECTION"]
  ELSE SendData([w EXCEPT !.http[h].sent = ErrorSent], w.http[h].socket, ErrorPage)

Responding(w, h, fails) ==
  LET s      == w.http[h].socket
      resend == tcp_does_socket_require_resend_of_last_packet(w, s)
  IN IF ~tcp_is_socket_ready_to_tx_new_packet(w, s) THEN w
     ELSE IF w.http[h].sm \in ErrorStates THEN http_transmit_error_response(w, h, resend)
     ELSE http_transmit_next_response_packet(w, h, resend, fails)

-----------------------------------------------------------------------------
(* process_http, for one of its sockets.  Before it has a TCP socket it    *)
(* reads a state outside of the table, which changes nothing.              *)

Connect(w, h) ==
  LET s == IF w.http[h].socket = TCP_INVALID_SOCKET THEN FreeSocket(w) ELSE w.http[h].socket
      o == IF w.http[h].socket = TCP_INVALID_SOCKET
           THEN tcp_open_socket_to_listen(w, HTTP_PORT) ELSE w
  IN [o EXCEPT !.http[h].socket = s,
               !.http[h].sm = IF tcp_is_socket_connected(o, s) THEN "CONNECTED_TO_CLIENT" ELSE @]

\* inactive: HTTP_NO_ACTIVITY_TIMEOUT_TIME has passed; text: the request waiting
Listen(w, h, inactive, text) ==
  LET s == w.http[h].socket
  IN IF inactive THEN State(tcp_close_socket(w, s), h, "WAITING_FOR_CONNECTION")
     ELSE IF tcp_check_socket_for_rx(w, s) THEN http_process_rx(w, h, text) ELSE w

process_http(w0, h, inactive, fails) ==
  LET s == w0.http[h].socket
      w == IF tcp_is_socket_connected(w0, s) THEN w0 ELSE State(w0, h, "WAITING_FOR_CONNECTION")
  IN CASE w.http[h].sm = "WAITING_FOR_CONNECTION" -> Connect(w, h)
       [] w.http[h].sm = "CONNECTED_TO_CLIENT" -> Listen(w, h, inactive, w.rx.data)
       [] w.http[h].sm \in ResponseStates \cup ErrorStates -> Responding(w, h, fails)
       [] w.http[h].sm = "CLOSE_CONNECTION" ->
            State(tcp_request_disconnect_socket(w, s), h, "WAITING_FOR_CONNECTION")
=============================================================================
