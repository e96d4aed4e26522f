----------------------------- MODULE HttpRequest -----------------------------
(***************************************************************************)
(* ReadHttpRequest (web_server.cpp): a request arrives in pieces, and the  *)
(* pieces are not the client's choice alone.  A request is its length up   *)
(* to and with the blank line, whether its first line is a request line,   *)
(* what its headers declare the body to be, the number of bytes that come  *)
(* and whether the client then closes or only says no more.                *)
(***************************************************************************)
EXTENDS Integers

CONSTANTS MaxRequest,   \* kMaxRequestBytes
          MaxBody,      \* kMaxBodyBytes
          Piece,        \* bytes of the buffer of one read
          MaxSent       \* bound: bytes a client sends

ASSUME HttpAssumption ==
  /\ MaxRequest \in Nat \ {0} /\ MaxBody \in Nat /\ Piece \in Nat \ {0} /\ MaxSent \in Nat

VARIABLES http,       \* where the reader is
          head,       \* bytes up to and with the blank line
          requestLine, \* the first line has a method, a path and a version
          declared,   \* the last Content-Length, 0 without one, -1 if it is no length
          sent,       \* bytes that come
          closes,     \* the connection ends behind them
          got,        \* bytes read
          body        \* bytes of the body

httpVars == <<http, head, requestLine, declared, sent, closes, got, body>>

(* The blank line alone is 4 bytes, with a request line it is more.        *)
HttpInit ==
  /\ http = "head"
  /\ head \in 4 .. MaxSent
  /\ requestLine \in BOOLEAN /\ (requestLine => head > 4)
  /\ declared \in -1 .. MaxSent /\ sent \in 0 .. MaxSent /\ closes \in BOOLEAN
  /\ got = 0 /\ body = 0

Answers(verdict) ==
  http' = verdict /\ UNCHANGED <<head, requestLine, declared, sent, closes, got, body>>

Pieces == {n \in 1 .. Piece : got + n <= sent}

(* The read fails; before the client closes it would wait (no step).       *)
ClientGone == got = sent /\ closes

(* mutant: what came of the body with the head is forgotten                *)
ReadHeadForgets ==
  /\ http = "head"
  /\ \/ (got >= MaxRequest \/ ClientGone) /\ Answers("refused")
     \/ /\ got < MaxRequest
        /\ \E n \in Pieces :
             /\ got' = got + n
             /\ http' = IF got' >= head THEN "parse" ELSE "head"
             /\ body' = 0
             /\ UNCHANGED <<head, requestLine, declared, sent, closes>>


ReadHead ==
  /\ http = "head"
  /\ \/ (got >= MaxRequest \/ ClientGone) /\ Answers("refused")
     \/ /\ got < MaxRequest
        /\ \E n \in Pieces :
             /\ got' = got + n
             /\ http' = IF got' >= head THEN "parse" ELSE "head"
             /\ body' = IF got' >= head THEN got' - head ELSE 0
             /\ UNCHANGED <<head, requestLine, declared, sent, closes>>


(* The headers; what came of the body with them is a part of it.           *)
ParseHead ==
  /\ http = "parse"
  /\ Answers(IF ~requestLine \/ declared = -1 \/ declared > MaxBody THEN "refused" ELSE "body")

ReadBody ==
  /\ http = "body" /\ body < declared
  /\ \/ ClientGone /\ Answers("refused")
     \/ \E n \in Pieces :
          /\ got' = got + n /\ body' = body + n
          /\ http' = IF body' > MaxBody THEN "refused" ELSE "body"
          /\ UNCHANGED <<head, requestLine, declared, sent, closes>>

(* What came too much is cut off.                                          *)
BodyRead ==
  /\ http = "body" /\ body >= declared
  /\ http' = "accepted" /\ body' = declared
  /\ UNCHANGED <<head, requestLine, declared, sent, closes, got>>

HttpNext == ReadHead \/ ParseHead \/ ReadBody \/ BodyRead

HttpSpec == HttpInit /\ [][HttpNext]_httpVars

-----------------------------------------------------------------------------
Acceptable == requestLine /\ declared \in 0 .. MaxBody /\ head + declared <= sent

(* The reader waits for a client that says no more and does not close.     *)
Stalled ==
  /\ ~closes /\ got = sent
  /\ \/ http = "head" /\ got < MaxRequest
     \/ http = "body" /\ body < declared

(* A request is judged by what it is and not by the pieces it came in: one *)
(* that is complete and within the limits is accepted, and nothing else,   *)
(* with the whole of its body, and the reader waits for no more than that. *)
(* Left open are a head longer than the limit, and bytes behind the body   *)
(* (web_server.cpp:831-919).                                               *)
RequestVerdict ==
  /\ http = "accepted" => Acceptable /\ body = declared
  /\ http = "refused" /\ head <= MaxRequest /\ sent <= head + declared => ~Acceptable
  /\ Stalled => ~Acceptable
  /\ got < MaxRequest + MaxBody + 2 * Piece

=============================================================================
