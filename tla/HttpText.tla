------------------------------ MODULE HttpText ------------------------------
(***************************************************************************)
(* The texts the HTTP client of Tema3 writes and reads: requests.c, and    *)
(* what helpers.c and buffer.c find in a response.                         *)
(*                                                                         *)
(* A text is a sequence of units: a word of the protocol, the end of a     *)
(* line, one digit, a whole credential.  What a read() can cut apart and   *)
(* the code must put together again is more than one unit: the end of a    *)
(* header is two ends of line, a length its name and its digits, a cookie  *)
(* its text and the semicolon after it, a token its text and the quote.    *)
(***************************************************************************)
EXTENDS Integers, Sequences, FiniteSetsExt

CONSTANT NULL

\* A C string that is a credential: <<>> is the empty string.
Strings == Seq(Nat)

Text(kind, string) == [kind |-> kind, text |-> string]
Word(kind) == Text(kind, <<>>)
Eol == Word("\r\n")
Lf == Word("\n")

Methods == {"GET", "POST", "DELETE"}
Urls == {"register", "login", "access", "books", "book", "logout"}
Kinds == Methods \cup Urls \cup
         {"\r\n", "\n", "Host", "Cookie", "Authorization", "Content-Type",
          "Content-Length", "account", "volume", "status", "Set-Cookie", "semicolon", "token",
          "quote", "digit", "body"}
Units == {u \in [kind : Kinds, text : Strings] : u.kind = "digit" => Len(u.text) = 1}
-----------------------------------------------------------------------------
(* requests.c and the helper it is written with *)

\* What is posted: a name with a password, or the data of a book.
make_payload == Word("account")
make_payload_book == Word("volume")

compute_message(message, line) == message \o line \o <<Eol>>

\* No caller passes a cookie that is NULL.
compute_get_request(url, cookie, token) ==
    LET line == compute_message(<<>>, <<Word("GET"), Word(url)>>)
        host == compute_message(line, <<Word("Host")>>)
        credential == IF token = NULL THEN Text("Cookie", cookie)
                                      ELSE Text("Authorization", token)
        named == compute_message(host, <<credential, Lf>>)
    IN  compute_message(named, <<>>)

\* The length of a payload is counted in payloads.
PostHead(url) ==
    LET line == compute_message(<<>>, <<Word("POST"), Word(url)>>)
        host == compute_message(line, <<Word("Host")>>)
        type == compute_message(host, <<Word("Content-Type")>>)
    IN  compute_message(type, <<Text("Content-Length", <<1>>)>>)

\* Mutant: the blank line before the payload is left out.
compute_post_request_unparted(url, token, payload) ==
    LET head == PostHead(url)
        named == IF token = NULL THEN head
                 ELSE compute_message(head, <<Text("Authorization", token)>>)
    IN  compute_message(compute_message(named, <<payload>>), <<>>)

compute_post_request(url, token, payload) ==
    LET head == PostHead(url)
        named == IF token = NULL THEN head
                 ELSE compute_message(head, <<Text("Authorization", token)>>)
    IN  compute_message(compute_message(named, <<Lf, payload>>), <<>>)

compute_delete_request(url, token) ==
    LET line == compute_message(<<>>, <<Word("DELETE"), Word(url)>>)
        host == compute_message(line, <<Word("Host")>>)
        named == IF token = NULL THEN host
                 ELSE compute_message(host, <<Text("Authorization", token)>>)
    IN  compute_message(named, <<>>)
-----------------------------------------------------------------------------
(* How a service reads a request: a line ends with CR LF or with LF alone, *)
(* and an empty line ends the header.                                      *)

EndsLine(unit) == unit \in {Eol, Lf}
EndOfHeader(m) ==
    LET blank == {i \in 2..Len(m) : EndsLine(m[i - 1]) /\ EndsLine(m[i])}
    IN  IF blank = {} THEN Len(m) ELSE Min(blank)

Field(m, kind) ==
    LET at == {i \in 1..EndOfHeader(m) : m[i].kind = kind}
    IN  IF at = {} THEN NULL ELSE m[Min(at)].text

\* The payload is as long as the header says, or what there is of it.
BodyOf(m) ==
    LET n == Field(m, "Content-Length")
    IN  IF n = NULL THEN <<>>
        ELSE SubSeq(m, EndOfHeader(m) + 1, Min({EndOfHeader(m) + n[1], Len(m)}))
-----------------------------------------------------------------------------
(* buffer.c and string.h on what has been received *)

\* The first place of a word in a buffer, counted from 0 as in C, or -1.
FirstOf(places) == IF places = {} THEN -1 ELSE Min(places)

\* buffer_find() of HEADER_TERMINATOR, which is two ends of line.
FindTerminator(b) ==
    FirstOf({i \in 0..(Len(b) - 2) : b[i + 1] = Eol /\ b[i + 2] = Eol})

FindKind(b, kind) == FirstOf({i \in 0..(Len(b) - 1) : b[i + 1].kind = kind})

\* strtol(): the digits from a place on, up to the first unit that is none.
\* A length is written in binary, with two digits.
IsDigit(b, i) == i < Len(b) /\ b[i + 1].kind = "digit"
strtol(b, i) ==
    IF ~IsDigit(b, i) THEN 0
    ELSE IF ~IsDigit(b, i + 1) THEN b[i + 1].text[1]
    ELSE 2 * b[i + 1].text[1] + b[i + 2].text[1]

\* strncpy() of a string over another: what is longer keeps its end.
strncpy(old, new) == new \o SubSeq(old, Len(new) + 1, Len(old))
=============================================================================
