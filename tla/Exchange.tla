------------------------------ MODULE Exchange ------------------------------
(***************************************************************************)
(* One request of a client and its answer.  On the server api_router       *)
(* collects the body that libmicrohttpd hands over in pieces, runs the     *)
(* handler and queues the answer (server/src/api_handlers.c); the client   *)
(* is do_post of the Linux client (client/src/client_api.c) or PostJson of *)
(* the Windows one (windows/client/src/win_http.cpp).  Pieces of a body    *)
(* are numbered; what a handler does to the sessions is AuthServer's.      *)
(***************************************************************************)
EXTENDS Integers, Sequences

CONSTANTS
    MaxBody,      \* MAX_BODY_SIZE, in pieces
    MaxAnswer,    \* MAX_RESPONSE_SIZE of the Windows client, in pieces
    Sizes,        \* how many pieces a request may have
    Answers,      \* how many pieces an answer may have
    NetFaults     \* "memory": an allocation fails; "net": a connection breaks;
                  \* "read": WinHttpReadData fails; "handle": a handle or curl_easy_init

ASSUME ExchangeAssumption ==
    /\ MaxBody \in Nat /\ MaxAnswer \in Nat
    /\ Sizes \subseteq Nat /\ Answers \subseteq Nat \ {0}
    /\ NetFaults \subseteq {"memory", "net", "read", "handle"}

VARIABLES
    cpc, client, mine, verdict,    \* the client, what it holds, what it tells
    code, got,                     \* the answer, as far as the client has it
    conn, size, up,                \* the connection; the request's pieces to come
    reply, answer, down,           \* the answer's status; its pieces to come
    spc, theirs, body, done        \* api_router, what it holds, the body so far

clientVars == <<cpc, client, mine, verdict, code, got>>
wire == <<conn, size, up, reply, answer, down>>
serverVars == <<spc, theirs, body, done>>
exchange == <<clientVars, wire, serverVars>>

Whole(n) == [i \in 1 .. n |-> i]

(* What cJSON_Parse may make of the pieces s of a body of n: all of them   *)
(* are JSON, the beginning alone never is, and with a gap they may be.     *)
MayParse(s, n) == IF s = Whole(n) THEN {TRUE}
                  ELSE IF \E i \in DOMAIN s : s[i] = n THEN BOOLEAN ELSE {FALSE}

MayLack(what) == what \in NetFaults

ExchangeInit ==
    /\ cpc = "idle" /\ client = "curl" /\ mine = {} /\ verdict = "none"
    /\ code = 0 /\ got = <<>>
    /\ conn = "none" /\ size = 0 /\ up = <<>> /\ reply = 0 /\ answer = 0 /\ down = <<>>
    /\ spc = "idle" /\ theirs = {} /\ body = <<>> /\ done = FALSE

-----------------------------------------------------------------------------
(* The client asks *)

(* The function returns v, having given back freed. *)
Return(v, freed) == /\ cpc' = "idle"
                    /\ verdict' = v
                    /\ mine' = mine \ freed

CurlBlocks == {"request", "chunk", "curl", "headers"}
WinHandles == {"hSession", "hConnect", "hRequest"}

(* do_post, or do_get when n is 0, up to curl_easy_perform; PostJson up to *)
(* WinHttpOpen.                                                            *)
Request(c, n) ==
    /\ cpc = "idle" /\ spc = "idle" /\ conn # "open"
    /\ client' = c /\ size' = n /\ up' = Whole(n)
    /\ code' = 0 /\ got' = <<>>
    /\ conn' = "none" /\ reply' = 0 /\ answer' = 0 /\ down' = <<>>
    /\ done' = FALSE
    /\ \/ /\ c = "curl"
          /\ cpc' = "send" /\ mine' = CurlBlocks /\ verdict' = "none"
       \/ /\ c = "curl" /\ MayLack("handle")
          /\ cpc' = "idle" /\ mine' = {} /\ verdict' = "failed"
       \/ /\ c = "winhttp" /\ n > 0
          /\ cpc' = "session" /\ mine' = {"request"} /\ verdict' = "none"
    /\ UNCHANGED <<spc, theirs, body>>

(* WinHttpOpen, WinHttpConnect, WinHttpOpenRequest *)
HandleOf == [session |-> "hSession", connect |-> "hConnect", open |-> "hRequest"]
NextCall == [session |-> "connect", connect |-> "open", open |-> "send"]

WinAcquire == /\ cpc \in DOMAIN HandleOf
              /\ mine' = mine \cup {HandleOf[cpc]}
              /\ cpc' = NextCall[cpc]
              /\ UNCHANGED <<client, verdict, code, got, wire, serverVars>>

(* Variant: the session's handle is forgotten where two are open. *)
ClosedLast == [session |-> {}, connect |-> {"hSession"}, open |-> {"hConnect"}]

(* What is closed where the next handle cannot be had. *)
Closed == [session |-> {}, connect |-> {"hSession"}, open |-> {"hConnect", "hSession"}]

WinAcquireFails == /\ cpc \in DOMAIN HandleOf
                   /\ MayLack("handle")
                   /\ Return("failed", Closed[cpc] \cup {"request"})
                   /\ UNCHANGED <<client, code, got, wire, serverVars>>

(* A connection, *)
Connect == /\ cpc = "send"
           /\ cpc' = "wait"
           /\ conn' = "open"
           /\ UNCHANGED <<client, mine, verdict, code, got, size, up, reply, answer, down>>
           /\ UNCHANGED serverVars

(* or none. *)
ConnectFails == /\ cpc = "send"
                /\ cpc' = "wait"
                /\ conn' = "closed"
                /\ UNCHANGED <<client, mine, verdict, code, got, size, up, reply, answer, down>>
                /\ UNCHANGED serverVars

-----------------------------------------------------------------------------
(* api_router *)

(* The first call for a request; it is repeated while calloc fails. *)
RouterFirst == /\ spc = "idle" /\ conn = "open"
               /\ spc' = "upload"
               /\ theirs' = {"info"}
               /\ body' = <<>>
               /\ UNCHANGED <<clientVars, wire, done>>

(* send_json_response of an answer of m pieces with status st.  Where the  *)
(* text cannot be allocated a constant goes out with status 500.           *)
Queue(st, m) ==
    \/ /\ reply' = st /\ answer' = m /\ down' = Whole(m)
       /\ theirs' = theirs \cup {"answer"}
       /\ spc' = "answer"
       /\ UNCHANGED conn
    \/ /\ MayLack("memory")
       /\ reply' = 500 /\ answer' = m /\ down' = Whole(m)
       /\ spc' = "answer"
       /\ UNCHANGED <<theirs, conn>>

(* MHD_NO: the connection is closed without an answer. *)
Refuse == conn' = "closed" /\ UNCHANGED <<reply, answer, down, theirs, spc>>

(* Variant: the size of the piece is not added. *)
TooLargeLate == Len(body) > MaxBody
TooLarge == Len(body) + 1 > MaxBody

(* A piece is added to the body, or, when realloc fails, dropped.  MHD may *)
(* not take an answer while the body is still coming in.                   *)
RouterUpload ==
    /\ spc = "upload" /\ conn = "open"
    /\ up # <<>>
    /\ up' = Tail(up)
    /\ IF TooLarge
       THEN /\ (\E m \in Answers : Queue(413, m)) \/ Refuse
            /\ UNCHANGED body
       ELSE /\ \/ /\ body' = Append(body, Head(up))
                  /\ theirs' = theirs \cup {"data"}
               \/ /\ MayLack("memory")
                  /\ UNCHANGED <<body, theirs>>
            /\ UNCHANGED <<conn, reply, answer, down, spc>>
    /\ UNCHANGED <<clientVars, size, done>>

(* Variant: a body that makes no sense is not answered. *)
RouterDispatchParsed ==
    /\ spc = "upload" /\ conn = "open"
    /\ up = <<>>
    /\ TRUE \in IF size = 0 THEN {TRUE} ELSE MayParse(body, size)
    /\ \E m \in Answers : \/ Queue(200, m) /\ done' = TRUE
                          \/ Queue(400, m) /\ UNCHANGED done
    /\ UNCHANGED <<clientVars, size, up, body>>

(* The whole request is there: the handler.  When it cannot make sense of  *)
(* the body, handle_login closes the connection, the others answer 400.    *)
RouterDispatch ==
    /\ spc = "upload" /\ conn = "open"
    /\ up = <<>>
    /\ \E m \in Answers, parsed \in IF size = 0 THEN {TRUE} ELSE MayParse(body, size) :
        \/ parsed /\ (Queue(200, m) \/ (MayLack("memory") /\ Refuse)) /\ done' = TRUE
        \/ Queue(400, m) /\ UNCHANGED done
        \/ ~ parsed /\ Refuse /\ UNCHANGED done
    /\ UNCHANGED <<clientVars, size, up, body>>

(* Variant: only the bookkeeping is freed. *)
RequestCompletedInfo ==
    /\ spc # "idle"
    /\ spc = "answer" \/ conn = "closed"
    /\ spc' = "idle" /\ conn' = "closed"
    /\ theirs' = theirs \ {"info", "answer"}
    /\ UNCHANGED <<clientVars, size, up, reply, answer, down, body, done>>

(* request_completed, after the answer has left or the connection is gone; *)
(* MHD frees the answer's text.                                            *)
RequestCompleted ==
    /\ spc # "idle"
    /\ spc = "answer" \/ conn = "closed"
    /\ spc' = "idle" /\ conn' = "closed"
    /\ theirs' = theirs \ {"info", "data", "answer"}
    /\ UNCHANGED <<clientVars, size, up, reply, answer, down, body, done>>

(* The connection breaks: what is on its way is lost. *)
Break == /\ MayLack("net")
         /\ conn = "open"
         /\ conn' = "closed"
         /\ up' = <<>> /\ down' = <<>>
         /\ UNCHANGED <<clientVars, size, reply, answer, serverVars>>

-----------------------------------------------------------------------------
(* The client hears *)

(* The status line. *)
Status == /\ cpc = "wait" /\ down # <<>> /\ code = 0
          /\ code' = reply
          /\ UNCHANGED <<cpc, client, mine, verdict, got, wire, serverVars>>

(* write_memory_cb; where it fails curl gives up. *)
CurlReads ==
    /\ client = "curl" /\ cpc = "wait" /\ down # <<>> /\ code # 0
    /\ \/ /\ got' = Append(got, Head(down))
          /\ down' = Tail(down)
          /\ UNCHANGED <<cpc, mine, verdict, conn>>
       \/ /\ MayLack("memory")
          /\ Return("failed", CurlBlocks)
          /\ conn' = "closed" /\ down' = <<>>
          /\ UNCHANGED got
    /\ UNCHANGED <<client, code, size, up, reply, answer, serverVars>>

(* One round of PostJson's loop: a read that fails leaves its piece out,   *)
(* and an answer that grows too large ends the call.                       *)
WinReads ==
    /\ client = "winhttp" /\ cpc = "wait" /\ down # <<>> /\ code # 0
    /\ \/ got' = Append(got, Head(down))
       \/ MayLack("read") /\ UNCHANGED got
    /\ IF Len(got') > MaxAnswer
       THEN /\ Return("failed", WinHandles \cup {"request"})
            /\ conn' = "closed" /\ down' = <<>>
       ELSE /\ down' = Tail(down)
            /\ UNCHANGED <<cpc, mine, verdict, conn>>
    /\ UNCHANGED <<client, code, size, up, reply, answer, serverVars>>

(* Variant: the status is not looked at. *)
AcceptedAnyStatus == got = Whole(answer)

(* CURLE_OK, status 200, and a body to parse *)
Accepted == got = Whole(answer) /\ code = 200

(* curl_easy_perform returns.  It fails unless the whole answer came. *)
CurlReturns ==
    /\ client = "curl" /\ cpc = "wait" /\ conn = "closed" /\ down = <<>>
    /\ \/ Accepted /\ Return("ok", CurlBlocks)
       \/ (~ Accepted \/ MayLack("memory")) /\ Return("failed", CurlBlocks)
    /\ UNCHANGED <<client, code, got, wire, serverVars>>

(* PostJson returns the body it has, and its caller parses it. *)
WinReturns ==
    /\ client = "winhttp" /\ cpc = "wait" /\ conn = "closed" /\ down = <<>>
    /\ \E parsed \in MayParse(got, answer) :
          Return(IF parsed /\ code = 200 THEN "ok" ELSE "failed", WinHandles \cup {"request"})
    /\ UNCHANGED <<client, code, got, wire, serverVars>>

ClientStep == \/ WinAcquire \/ WinAcquireFails
              \/ Status \/ CurlReads \/ WinReads \/ CurlReturns \/ WinReturns
ServerStep == RouterFirst \/ RouterUpload \/ RouterDispatch \/ RequestCompleted

=============================================================================
