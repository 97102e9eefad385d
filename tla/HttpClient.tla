----------------------------- MODULE HttpClient -----------------------------
(***************************************************************************)
(* The library client of Tema3: the commands of client.c, each a request   *)
(* on a connection of its own, the reading of the response in pieces of    *)
(* any size, and what the client keeps of it; against the service it is    *)
(* written for, which is external.                                         *)
(***************************************************************************)
EXTENDS HttpText

CONSTANTS
    MaxSessions,   \* sessions the service hands out in this model
    CookieLength,  \* letters in the cookie of each session
    OPEN_MAX,      \* descriptors the process may have; none is closed before "exit"
    BUFLEN,        \* units one read() returns at most
    SIZE,          \* 2^(width of size_t)
    Cuts,          \* TRUE: a connection may break before all of a response is there
    Expires,       \* TRUE: the service may end a session by itself
    Careful        \* TRUE: the user does not log in twice without logging out

Sessions == 1..MaxSessions

ASSUME HttpAssumption ==
    /\ MaxSessions \in Nat
    /\ CookieLength \in [Sessions -> Nat \ {0}]
    /\ OPEN_MAX \in Nat \ {0}
    /\ BUFLEN \in Nat \ {0}
    /\ SIZE \in Nat \ {0}
    /\ Cuts \in BOOLEAN /\ Expires \in BOOLEAN /\ Careful \in BOOLEAN
    /\ NULL \notin Strings

VARIABLES
    \* main()
    pc,             \* "prompt", "header" and "body" (the two loops of
                    \* receive_from_server), "process", "exited", "crashed"
    command, is_logged_out, cookie, token,
    opened,         \* descriptors opened
    \* receive_from_server()
    buffer, header_end, content_length,
    \* the last connection
    request,        \* sent, not answered
    answer,         \* what the service answered, whole
    wire,           \* what of it is on the way
    closed, cut,    \* the service has closed its end; before the answer's end
    \* the service
    session         \* "unused", "live", "expired" or "ended" (by a logout)

client == <<command, is_logged_out, cookie, token>>
reader == <<buffer, header_end, content_length>>
connection == <<request, answer, wire, closed, cut>>
vars == <<pc, command, is_logged_out, cookie, token, opened, buffer, header_end,
          content_length, request, answer, wire, closed, cut, session>>

Init ==
    /\ pc = "prompt"
    /\ command = "none"
    /\ is_logged_out = TRUE
    /\ cookie = <<>> /\ token = <<>>
    /\ opened = 1
    /\ buffer = <<>> /\ header_end = 0 /\ content_length = 0
    /\ request = <<>> /\ answer = <<>> /\ wire = <<>>
    /\ closed = FALSE /\ cut = FALSE
    /\ session = [s \in Sessions |-> "unused"]
-----------------------------------------------------------------------------
(* Commands: a new connection, the request, and a fresh buffer *)

\* Mutant: that there is no descriptor left goes unnoticed.
AskUnchecked(name, message) ==
    /\ pc = "prompt"
    /\ opened' = opened + 1
    /\ command' = name
    /\ request' = message
    /\ answer' = <<>> /\ wire' = <<>>
    /\ closed' = FALSE /\ cut' = FALSE
    /\ buffer' = <<>> /\ header_end' = 0 /\ content_length' = 0
    /\ pc' = "header"
    /\ UNCHANGED <<is_logged_out, cookie, token, session>>

Ask(name, message) ==
    /\ pc = "prompt"
    /\ opened < OPEN_MAX
    /\ opened' = opened + 1
    /\ command' = name
    /\ request' = message
    /\ answer' = <<>> /\ wire' = <<>>
    /\ closed' = FALSE /\ cut' = FALSE
    /\ buffer' = <<>> /\ header_end' = 0 /\ content_length' = 0
    /\ pc' = "header"
    /\ UNCHANGED <<is_logged_out, cookie, token, session>>

Register == Ask("register", compute_post_request("register", NULL, make_payload))
Login ==
    /\ Careful => is_logged_out
    /\ Ask("login", compute_post_request("login", NULL, make_payload))
EnterLibrary == Ask("enter_library", compute_get_request("access", cookie, NULL))
GetBooks == Ask("get_books", compute_get_request("books", cookie, token))
GetBook == Ask("get_book", compute_get_request("book", cookie, token))
AddBook == Ask("add_book", compute_post_request("books", token, make_payload_book))
DeleteBook == Ask("delete_book", compute_delete_request("book", token))
Logout == Ask("logout", compute_get_request("logout", cookie, NULL))

\* "exit" or the end of the input; or open_connection() fails, for want of a
\* descriptor or because nobody listens.
Exit ==
    /\ pc = "prompt"
    /\ pc' = "exited"
    /\ UNCHANGED <<client, opened, reader, connection, session>>
-----------------------------------------------------------------------------
(* The service *)

CookieOf(s) == [i \in 1..CookieLength[s] |-> s]
TokenOf(s) == <<s>>

LengthLine(n) == <<Word("Content-Length"), Text("digit", <<n \div 2>>),
                   Text("digit", <<n % 2>>), Eol>>
Response(fields, body, withLength) ==
    <<Word("status"), Eol>> \o fields
      \o (IF withLength THEN LengthLine(Len(body)) ELSE <<>>) \o <<Eol>> \o body

\* An answer without a length ends with the connection.
Answer(fields, body) ==
    \E withLength \in BOOLEAN, closes \in BOOLEAN :
      /\ withLength \/ closes
      /\ request' = <<>>
      /\ answer' = Response(fields, body, withLength)
      /\ \/ /\ wire' = answer'
            /\ closed' = closes
            /\ cut' = FALSE
         \/ /\ Cuts
            /\ \E n \in 0..Len(answer') - 1 : wire' = SubSeq(answer', 1, n)
            /\ closed' = TRUE
            /\ cut' = TRUE
      /\ UNCHANGED <<pc, client, opened, reader>>

Plain == <<Word("body")>>
Asks(url) == \E i \in 1..Len(request) : request[i].kind = url

ServeLogin(s) ==
    /\ Asks("login")
    /\ session[s] = "unused"
    /\ \A r \in Sessions : r < s => session[r] # "unused"
    /\ session' = [session EXCEPT ![s] = "live"]
    /\ Answer(<<Text("Set-Cookie", CookieOf(s)), Word("semicolon"), Eol>>, Plain)

Bears(s) == Field(request, "Cookie") = CookieOf(s) /\ session[s] = "live"

ServeAccess(s) ==
    /\ Asks("access")
    /\ Bears(s)
    /\ UNCHANGED session
    /\ Answer(<<>>, <<Text("token", TokenOf(s)), Word("quote")>>)

ServeLogout(s) ==
    /\ Asks("logout")
    /\ Bears(s)
    /\ session' = [session EXCEPT ![s] = "ended"]
    /\ Answer(<<>>, Plain)

\* Everything else, and what is refused.
ServeOther ==
    /\ request # <<>>
    /\ Asks("access") \/ Asks("logout") => \A s \in Sessions : ~Bears(s)
    /\ UNCHANGED session
    /\ Answer(<<>>, Plain)

Serve ==
    \/ \E s \in Sessions : ServeLogin(s) \/ ServeAccess(s) \/ ServeLogout(s)
    \/ ServeOther

Expire(s) ==
    /\ Expires
    /\ session[s] = "live"
    /\ session' = [session EXCEPT ![s] = "expired"]
    /\ UNCHANGED <<pc, client, opened, reader, connection>>
-----------------------------------------------------------------------------
(* receive_from_server() *)

\* read() returns some of what has arrived; buffer_add().
Read ==
    \E n \in 1..BUFLEN :
      /\ n <= Len(wire)
      /\ buffer' = buffer \o SubSeq(wire, 1, n)
      /\ wire' = SubSeq(wire, n + 1, Len(wire))

\* read() returns 0.
AtEnd == wire = <<>> /\ closed

\* Mutant: the header is taken to end at the end of its first line.
EndAtFirstLine(b) == LET at == FindKind(b, "\r\n") IN IF at < 0 THEN at ELSE at + 1

\* -1 if the end is not there.
HeaderEnd(b) == LET at == FindTerminator(b) IN IF at < 0 THEN at ELSE at + 2

LengthStart(b) == FindKind(b, "Content-Length")
HasLength(b) == HeaderEnd(b) >= 0 /\ LengthStart(b) >= 0

ReadHeader ==
    /\ pc = "header"
    /\ Read
    /\ header_end' = HeaderEnd(buffer')
    /\ \/ /\ HasLength(buffer')
          /\ content_length' = strtol(buffer', LengthStart(buffer') + 1)
          /\ pc' = "body"
       \/ /\ ~HasLength(buffer')
          /\ UNCHANGED <<content_length, pc>>
    /\ UNCHANGED <<client, opened, request, answer, closed, cut, session>>

EndInHeader ==
    /\ pc = "header"
    /\ AtEnd
    /\ pc' = "body"
    /\ UNCHANGED <<client, opened, reader, connection, session>>

\* Mutant: the header and one more than the length.
TotalAndOne == (content_length + header_end + 1) % SIZE

\* A header_end of -1 makes it the largest size_t.
total == (content_length + header_end) % SIZE

ReadBody ==
    /\ pc = "body"
    /\ Len(buffer) < total
    /\ Read
    /\ UNCHANGED <<pc, client, opened, header_end, content_length, request, answer,
                   closed, cut, session>>

Received ==
    /\ pc = "body"
    /\ Len(buffer) >= total \/ AtEnd
    /\ pc' = "process"
    /\ UNCHANGED <<client, opened, reader, connection, session>>

\* read() fails: error() exits.
ReadFails ==
    /\ pc = "header" \/ (pc = "body" /\ Len(buffer) < total)
    /\ cut
    /\ wire = <<>>
    /\ pc' = "exited"
    /\ UNCHANGED <<client, opened, reader, connection, session>>
-----------------------------------------------------------------------------
(* What a command does with its response *)

\* strstr() of a word, then of what ends its text; NULL is not tested for, and
\* copying from or up to it ends the program.
Copied(kind, end, old) ==
    LET at == FindKind(buffer, kind)
    IN  IF at < 0 \/ FindKind(buffer, end) < at
        THEN NULL ELSE strncpy(old, buffer[at + 1].text)

HandleLogin ==
    /\ pc = "process"
    /\ command = "login"
    /\ \/ /\ FindKind(buffer, "Set-Cookie") < 0
          /\ pc' = "prompt"
          /\ UNCHANGED <<cookie, is_logged_out>>
       \/ /\ FindKind(buffer, "Set-Cookie") >= 0
          /\ Copied("Set-Cookie", "semicolon", cookie) # NULL
          /\ cookie' = Copied("Set-Cookie", "semicolon", cookie)
          /\ is_logged_out' = FALSE
          /\ pc' = "prompt"
       \/ /\ FindKind(buffer, "Set-Cookie") >= 0
          /\ Copied("Set-Cookie", "semicolon", cookie) = NULL
          /\ pc' = "crashed"
          /\ UNCHANGED <<cookie, is_logged_out>>
    /\ UNCHANGED <<command, token, opened, reader, connection, session>>

\* Mutant: a token is taken whether or not the client is logged in.
TakesTokenAlways == TRUE

TakesToken == ~is_logged_out

HandleEnter ==
    /\ pc = "process"
    /\ command = "enter_library"
    /\ \/ /\ ~TakesToken
          /\ pc' = "prompt"
          /\ UNCHANGED token
       \/ /\ TakesToken
          /\ Copied("token", "quote", <<>>) # NULL
          /\ token' = Copied("token", "quote", <<>>)
          /\ pc' = "prompt"
       \/ /\ TakesToken
          /\ Copied("token", "quote", <<>>) = NULL
          /\ token' = <<>>
          /\ pc' = "crashed"
    /\ UNCHANGED <<command, is_logged_out, cookie, opened, reader, connection, session>>

\* Mutants: one of the two is forgotten, the other kept; or both are kept.
ForgetNothing == UNCHANGED <<token, cookie>>
ForgetCookieOnly == token' = token /\ cookie' = <<>>
ForgetTokenOnly == token' = <<>> /\ cookie' = cookie

Forget == token' = <<>> /\ cookie' = <<>>

HandleLogout ==
    /\ pc = "process"
    /\ command = "logout"
    /\ Forget
    /\ is_logged_out' = TRUE
    /\ pc' = "prompt"
    /\ UNCHANGED <<command, opened, reader, connection, session>>

\* The response is only printed.
HandleOther ==
    /\ pc = "process"
    /\ command \notin {"login", "enter_library", "logout"}
    /\ pc' = "prompt"
    /\ UNCHANGED <<client, opened, reader, connection, session>>

Handle == HandleLogin \/ HandleEnter \/ HandleLogout \/ HandleOther
-----------------------------------------------------------------------------
Command ==
    \/ Register \/ Login \/ EnterLibrary \/ GetBooks \/ GetBook
    \/ AddBook \/ DeleteBook \/ Logout \/ Exit

Receive == ReadHeader \/ EndInHeader \/ ReadBody \/ Received \/ ReadFails

Next == Command \/ Serve \/ (\E s \in Sessions : Expire(s)) \/ Receive \/ Handle

Spec == Init /\ [][Next]_vars

\* The service answers, and the client runs; the user need not type.
FairSpec == Spec /\ WF_vars(Serve) /\ WF_vars(Receive) /\ WF_vars(Handle)
-----------------------------------------------------------------------------
(* Properties *)

\* Every variable keeps its type.
TypeOK ==
    /\ pc \in {"prompt", "header", "body", "process", "exited", "crashed"}
    /\ command \in {"none", "register", "login", "enter_library", "get_books", "get_book",
                    "add_book", "delete_book", "logout"}
    /\ is_logged_out \in BOOLEAN /\ closed \in BOOLEAN /\ cut \in BOOLEAN
    /\ cookie \in Strings /\ token \in Strings
    /\ opened \in 1..OPEN_MAX
    /\ header_end \in Int /\ content_length \in Int
    /\ buffer \in Seq(Units) /\ wire \in Seq(Units)
    /\ answer \in Seq(Units) /\ request \in Seq(Units)
    /\ session \in [Sessions -> {"unused", "live", "expired", "ended"}]

\* However a response is cut into reads, receive_from_server returns all of it
\* once all of it comes: the length is never taken from a header that is still
\* arriving, nor the end of the body missed by a part of it (helpers.c:80-123).
Whole == pc = "process" /\ ~cut => buffer = answer

\* What a service reads in a request is what the client holds: the credential
\* the command is to carry, in the header, and its payload after it
\* (requests.c).
ReadsCookie == command \in {"enter_library", "logout"}
ReadsToken == command \in {"get_books", "get_book", "add_book", "delete_book"}
Posted == CASE command \in {"register", "login"} -> <<make_payload>>
            [] command = "add_book" -> <<make_payload_book>>
            [] OTHER -> <<>>
Understood ==
    request # <<>> =>
      /\ Field(request, "Cookie") = (IF ReadsCookie THEN cookie ELSE NULL)
      /\ Field(request, "Authorization") = (IF ReadsToken THEN token ELSE NULL)
      /\ BodyOf(request) = Posted

\* What is said on a connection is what was meant, in both directions.
Exchanged == Whole /\ Understood

\* Cookie and token are those of one session, whole, and are held exactly while
\* the client takes itself to be logged in (client.c:142, 163-169, 302-304).
OneSession ==
    \/ is_logged_out /\ cookie = <<>> /\ token = <<>>
    \/ /\ ~is_logged_out
       /\ \E s \in Sessions : cookie = CookieOf(s) /\ token \in {<<>>, TokenOf(s)}

\* No request bears the cookie or the token of a session its user has logged
\* out of, whichever of the answers on the way got lost (client.c:291-305).
EndedForGood ==
    request # <<>> =>
      \A s \in Sessions : session[s] = "ended" =>
        /\ Field(request, "Cookie") # CookieOf(s)
        /\ Field(request, "Authorization") # TokenOf(s)

\* The unchecked strstr() ends the program only on a response that broke off or
\* when the service ended the session by itself (client.c:141, 166-169;
\* README:15-18 for the check that prevents it after a logout).
FallsOnlyThen ==
    pc = "crashed" => cut \/ \E s \in Sessions : cookie = CookieOf(s) /\ session[s] = "expired"

\* Requests, reads and losses apart, the client goes from session to session.
Library == INSTANCE LibrarySession WITH
    inside <- IF cookie = <<>> THEN 0 ELSE Head(cookie),
    access <- IF token = <<>> THEN 0 ELSE Head(token),
    state <- [s \in Sessions |-> CASE session[s] = "unused" -> "fresh"
                                   [] session[s] = "ended" -> "over"
                                   [] OTHER -> "open"]
ImplementsSession == Library!Spec

\* A command comes to an end, with or without a length in its response, and
\* also when the connection stays open after it (helpers.c:100-102, 111).
Answered ==
    pc \in {"header", "body", "process"} ~> pc \in {"prompt", "exited", "crashed"}
=============================================================================
