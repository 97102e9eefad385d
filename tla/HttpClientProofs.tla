--------------------------- MODULE HttpClientProofs ---------------------------
(***************************************************************************)
(* What the client keeps, sends and reads, for any number of sessions,     *)
(* cookies of any length, reads of any size, and connections that break    *)
(* anywhere: types, one session at a time and none gone back to, what a    *)
(* service reads in the requests, responses that are read whole, and what  *)
(* ends the program.                                                       *)
(***************************************************************************)
EXTENDS HttpClient, SequenceTheorems, WellFoundedInduction, TLAPS

-----------------------------------------------------------------------------
(* Lemmas on places in a text *)

LEMMA MinIsLeast ==
    ASSUME NEW S \in SUBSET Nat, S # {}
    PROVE  Min(S) \in S /\ \A y \in S : Min(S) <= y
<1> DEFINE R == OpToRel(<, Nat)
<1>1. IsWellFoundedOn(R, Nat) /\ S \subseteq Nat
  BY NatLessThanWellFounded
<1>2. R = {ss \in Nat \X Nat : ss[1] < ss[2]}
  BY DEF OpToRel
<1> HIDE DEF R
<1>3. \E x \in S : \A y \in S : ~(<<y, x>> \in R)
  BY <1>1, WFMin, Zenon
<1>4. PICK x \in S : \A y \in S : ~(<<y, x>> \in R)
  BY <1>3
<1>5. ASSUME NEW y \in S
      PROVE  x <= y
  <2>1. <<y, x>> \in Nat \X Nat
    OBVIOUS
  <2>2. ~(y < x)
    BY <1>2, <1>4, <2>1
  <2> QED
    BY <2>2
<1> QED
  BY <1>5 DEF Min

LEMMA FirstOfPlaces ==
    ASSUME NEW n \in Nat, NEW places \in SUBSET (0..n)
    PROVE  /\ FirstOf(places) \in {-1} \cup places
           /\ FirstOf(places) \in Int
           /\ places # {} => FirstOf(places) \in places
<1>1. places \in SUBSET Nat
  OBVIOUS
<1>2. CASE places = {}
  BY <1>2 DEF FirstOf
<1>3. CASE places # {}
  <2>1. Min(places) \in places
    BY <1>1, <1>3, MinIsLeast
  <2>2. FirstOf(places) = Min(places)
    BY <1>3 DEF FirstOf
  <2>3. FirstOf(places) \in places
    BY <2>1, <2>2
  <2>4. FirstOf(places) \in Nat
    BY <1>1, <2>3
  <2> QED
    BY <2>3, <2>4
<1> QED
  BY <1>2, <1>3

\* Where a word is found there is one.
LEMMA KindFound ==
    ASSUME NEW b \in Seq(Units), NEW kind
    PROVE  /\ FindKind(b, kind) \in Int
           /\ FindKind(b, kind) >= 0 =>
                /\ FindKind(b, kind) + 1 \in 1..Len(b)
                /\ b[FindKind(b, kind) + 1].kind = kind
<1> DEFINE places == {i \in 0..(Len(b) - 1) : b[i + 1].kind = kind}
<1>1. Len(b) \in Nat
  OBVIOUS
<1>2. places \in SUBSET (0..Len(b))
  BY <1>1
<1>3. FirstOf(places) \in {-1} \cup places /\ FirstOf(places) \in Int
  BY <1>1, <1>2, FirstOfPlaces
<1> QED
  BY <1>1, <1>3 DEF FindKind

LEMMA HeaderEndIsInt ==
    ASSUME NEW b \in Seq(Units)
    PROVE  HeaderEnd(b) \in Int
<1> DEFINE places == {i \in 0..(Len(b) - 2) : b[i + 1] = Eol /\ b[i + 2] = Eol}
<1>1. Len(b) \in Nat
  OBVIOUS
<1>2. places \in SUBSET (0..Len(b))
  BY <1>1
<1>3. FirstOf(places) \in Int
  BY <1>1, <1>2, FirstOfPlaces
<1> QED
  BY <1>3 DEF HeaderEnd, FindTerminator

LEMMA LengthIsInt ==
    ASSUME NEW b \in Seq(Units), NEW i \in Nat
    PROVE  strtol(b, i) \in Int
<1>1. ASSUME NEW j \in Nat, IsDigit(b, j)
      PROVE  b[j + 1].text[1] \in Int
  <2>1. Len(b) \in Nat /\ j + 1 \in 1..Len(b)
    BY <1>1 DEF IsDigit
  <2>2. b[j + 1] \in Units /\ b[j + 1].kind = "digit"
    BY <1>1, <2>1 DEF IsDigit
  <2>3. b[j + 1].text \in Seq(Nat) /\ Len(b[j + 1].text) = 1
    BY <2>2 DEF Units, Strings
  <2>4. 1 \in 1..Len(b[j + 1].text)
    BY <2>3
  <2> QED
    BY <2>3, <2>4, ElementOfSeq
<1>2. CASE ~IsDigit(b, i)
  BY <1>2 DEF strtol
<1>3. CASE IsDigit(b, i) /\ ~IsDigit(b, i + 1)
  BY <1>1, <1>3 DEF strtol
<1>4. CASE IsDigit(b, i) /\ IsDigit(b, i + 1)
  <2>1. b[i + 1].text[1] \in Int /\ b[i + 2].text[1] \in Int
    <3>1. i + 1 \in Nat /\ (i + 1) + 1 = i + 2
      OBVIOUS
    <3>2. b[i + 1].text[1] \in Int
      BY <1>1, <1>4
    <3>3. b[(i + 1) + 1].text[1] \in Int
      BY <1>1, <1>4, <3>1
    <3> QED
      BY <3>1, <3>2, <3>3
  <2>2. strtol(b, i) = 2 * b[i + 1].text[1] + b[i + 2].text[1]
    BY <1>4 DEF strtol
  <2>3. \A x, y \in Int : 2 * x + y \in Int
    OBVIOUS
  <2>4. 2 * b[i + 1].text[1] + b[i + 2].text[1] \in Int
    BY <2>1, <2>3, Zenon
  <2> QED
    BY <2>2, <2>4, Zenon
<1> QED
  BY <1>2, <1>3, <1>4 DEF IsDigit

\* Where a message names a field, it has a unit of that kind with its value.
LEMMA FieldIsThere ==
    ASSUME NEW m \in Seq(Units), NEW kind, Field(m, kind) # NULL
    PROVE  \E i \in 1..Len(m) : m[i].kind = kind /\ m[i].text = Field(m, kind)
<1> DEFINE at == {i \in 1..EndOfHeader(m) : m[i].kind = kind}
           blank == {i \in 2..Len(m) : EndsLine(m[i - 1]) /\ EndsLine(m[i])}
<1>1. Len(m) \in Nat
  OBVIOUS
<1>2. EndOfHeader(m) \in 0..Len(m)
  <2>1. blank \in SUBSET Nat
    BY <1>1
  <2>2. blank # {} => Min(blank) \in blank
    BY <2>1, MinIsLeast
  <2>3. blank \in SUBSET (0..Len(m))
    BY <1>1
  <2>4. EndOfHeader(m) = IF blank = {} THEN Len(m) ELSE Min(blank)
    BY DEF EndOfHeader
  <2>5. CASE blank = {}
    BY <1>1, <2>4, <2>5
  <2>6. CASE blank # {}
    <3>1. EndOfHeader(m) = Min(blank) /\ Min(blank) \in blank
      BY <2>2, <2>4, <2>6
    <3> HIDE DEF blank
    <3> QED
      BY <2>3, <3>1
  <2> QED
    BY <2>5, <2>6
<1>3. at # {} /\ Field(m, kind) = m[Min(at)].text
  BY DEF Field
<1>4. at \in SUBSET Nat
  BY <1>2
<1>5. Min(at) \in at
  BY <1>3, <1>4, MinIsLeast
<1>6. Min(at) \in 1..Len(m) /\ m[Min(at)].kind = kind
  <2>1. Min(at) \in 1..EndOfHeader(m)
    BY <1>5
  <2> QED
    BY <1>1, <1>2, <1>5, <2>1
<1> HIDE DEF at
<1> QED
  BY <1>3, <1>6
-----------------------------------------------------------------------------
(* Lemmas on sequences over a set *)

LEMMA Joined ==
    ASSUME NEW S, NEW s \in Seq(S), NEW t \in Seq(S)
    PROVE  s \o t \in Seq(S)
  OBVIOUS

LEMMA Part ==
    ASSUME NEW S, NEW s \in Seq(S), NEW a \in 1..(Len(s) + 1), NEW b \in 0..Len(s)
    PROVE  SubSeq(s, a, b) \in Seq(S)
  BY SubSeqProperties

\* strncpy() over any string gives a string, and over the empty one the copy.
LEMMA CopyIsString ==
    ASSUME NEW old \in Strings, NEW new \in Strings
    PROVE  strncpy(old, new) \in Strings
<1>1. Len(old) \in Nat /\ Len(new) \in Nat
  BY DEF Strings
<1>2. SubSeq(old, Len(new) + 1, Len(old)) \in Seq(Nat)
  <2>1. CASE Len(new) + 1 > Len(old)
    BY <1>1, <2>1, SubSeqEmpty, EmptySeq DEF Strings
  <2>2. CASE Len(new) + 1 <= Len(old)
    BY <1>1, <2>2, Part DEF Strings
  <2> QED
    BY <1>1, <2>1, <2>2
<1> QED
  BY <1>2, Joined DEF Strings, strncpy

LEMMA CopyOverEmpty ==
    ASSUME NEW new \in Strings
    PROVE  strncpy(<<>>, new) = new
<1>1. SubSeq(<<>>, Len(new) + 1, Len(<<>>)) = <<>>
  <2>1. Len(new) \in Nat /\ Len(<<>>) = 0
    BY DEF Strings
  <2>2. <<>> \in Seq(Nat)
    BY EmptySeq
  <2> QED
    BY <2>1, <2>2, SubSeqEmpty
<1> QED
  BY <1>1, ConcatEmptySeq DEF Strings, strncpy

\* A response is made of its fields, its body, and units that are always there.
LEMMA ResponseOf ==
    ASSUME NEW S \in SUBSET Units,
           Eol \in S, Word("status") \in S, Word("Content-Length") \in S,
           \A d \in Nat : Text("digit", <<d>>) \in S,
           NEW fields \in Seq(S), NEW body \in Seq(S), NEW withLength \in BOOLEAN
    PROVE  Response(fields, body, withLength) \in Seq(S)
<1> DEFINE n == Len(body)
           length == IF withLength THEN LengthLine(n) ELSE <<>>
<1>1. n \in Nat /\ n \div 2 \in Nat /\ n % 2 \in Nat
  OBVIOUS
<1>2. LengthLine(n) \in Seq(S)
  BY <1>1 DEF LengthLine
<1>3. length \in Seq(S)
  BY <1>2, EmptySeq
<1>4. <<Word("status"), Eol>> \in Seq(S) /\ <<Eol>> \in Seq(S)
  OBVIOUS
<1>5. Response(fields, body, withLength)
        = <<Word("status"), Eol>> \o fields \o length \o <<Eol>> \o body
  BY DEF Response
<1> HIDE DEF length
<1>6. <<Word("status"), Eol>> \o fields \in Seq(S)
  BY <1>4, Joined
<1>7. <<Word("status"), Eol>> \o fields \o length \in Seq(S)
  BY <1>3, <1>6, Joined
<1>8. <<Word("status"), Eol>> \o fields \o length \o <<Eol>> \in Seq(S)
  BY <1>4, <1>7, Joined
<1>9. <<Word("status"), Eol>> \o fields \o length \o <<Eol>> \o body \in Seq(S)
  BY <1>8, Joined
<1> QED
  BY <1>5, <1>9

\* compute_message() adds the units of the line and the end of line.
LEMMA MessageOf ==
    ASSUME NEW S, Eol \in S, NEW message \in Seq(S), NEW line \in Seq(S)
    PROVE  compute_message(message, line) \in Seq(S)
<1>1. <<Eol>> \in Seq(S) /\ message \o line \in Seq(S)
  BY Joined
<1>2. message \o line \o <<Eol>> \in Seq(S)
  BY <1>1, Joined
<1> QED
  BY <1>2 DEF compute_message
-----------------------------------------------------------------------------
(* The units a request is made of *)

\* A request has the credential it is given and no other, and the method, the
\* address and the payload it is given.
Common == {Eol, Lf, Word("Host"), Word("Content-Type"), Text("Content-Length", <<1>>)}
Credential(cookie_, token_) ==
    IF token_ = NULL THEN Text("Cookie", cookie_) ELSE Text("Authorization", token_)

LEMMA GetUnits ==
    ASSUME NEW url, NEW c, NEW t
    PROVE  compute_get_request(url, c, t)
             \in Seq(Common \cup {Word("GET"), Word(url), Credential(c, t)})
<1> DEFINE S == Common \cup {Word("GET"), Word(url), Credential(c, t)}
           line == compute_message(<<>>, <<Word("GET"), Word(url)>>)
           host == compute_message(line, <<Word("Host")>>)
           named == compute_message(host, <<Credential(c, t), Lf>>)
<1>1. /\ Eol \in S /\ Lf \in S /\ Word("Host") \in S
      /\ Word("GET") \in S /\ Word(url) \in S /\ Credential(c, t) \in S
  BY DEF Common
<1>2. compute_get_request(url, c, t) = compute_message(named, <<>>)
  BY DEF compute_get_request, Credential
<1> HIDE DEF S
<1>3. <<>> \in Seq(S)
  BY EmptySeq
<1>4. line \in Seq(S)
  <2>1. <<Word("GET"), Word(url)>> \in Seq(S)
    BY <1>1
  <2> QED
    BY <1>1, <1>3, <2>1, MessageOf
<1>5. host \in Seq(S)
  <2>1. <<Word("Host")>> \in Seq(S)
    BY <1>1
  <2> HIDE DEF line
  <2> QED
    BY <1>1, <1>4, <2>1, MessageOf
<1>6. named \in Seq(S)
  <2>1. <<Credential(c, t), Lf>> \in Seq(S)
    BY <1>1
  <2> HIDE DEF host
  <2> QED
    BY <1>1, <1>5, <2>1, MessageOf
<1>7. compute_message(named, <<>>) \in Seq(S)
  <2> HIDE DEF named
  <2> QED
    BY <1>1, <1>3, <1>6, MessageOf
<1> QED
  BY <1>2, <1>7 DEF S

LEMMA PostHeadUnits ==
    ASSUME NEW url, NEW S, Common \cup {Word("POST"), Word(url)} \subseteq S
    PROVE  PostHead(url) \in Seq(S)
<1> DEFINE line == compute_message(<<>>, <<Word("POST"), Word(url)>>)
           host == compute_message(line, <<Word("Host")>>)
           type == compute_message(host, <<Word("Content-Type")>>)
<1>1. /\ Eol \in S /\ Word("Host") \in S /\ Word("Content-Type") \in S
      /\ Text("Content-Length", <<1>>) \in S /\ Word("POST") \in S /\ Word(url) \in S
  BY DEF Common
<1>2. line \in Seq(S)
  <2>1. <<Word("POST"), Word(url)>> \in Seq(S) /\ <<>> \in Seq(S)
    BY <1>1, EmptySeq
  <2> QED
    BY <1>1, <2>1, MessageOf
<1>3. host \in Seq(S)
  <2>1. <<Word("Host")>> \in Seq(S)
    BY <1>1
  <2> HIDE DEF line
  <2> QED
    BY <1>1, <1>2, <2>1, MessageOf
<1>4. type \in Seq(S)
  <2>1. <<Word("Content-Type")>> \in Seq(S)
    BY <1>1
  <2> HIDE DEF host
  <2> QED
    BY <1>1, <1>3, <2>1, MessageOf
<1>5. compute_message(type, <<Text("Content-Length", <<1>>)>>) \in Seq(S)
  <2>1. <<Text("Content-Length", <<1>>)>> \in Seq(S)
    BY <1>1
  <2> HIDE DEF type
  <2> QED
    BY <1>1, <1>4, <2>1, MessageOf
<1> QED
  BY <1>5 DEF PostHead

Bearer(t) == IF t = NULL THEN {} ELSE {Text("Authorization", t)}

LEMMA PostUnits ==
    ASSUME NEW url, NEW t, NEW payload
    PROVE  compute_post_request(url, t, payload)
             \in Seq(Common \cup {Word("POST"), Word(url), payload} \cup Bearer(t))
<1> DEFINE S == Common \cup {Word("POST"), Word(url), payload} \cup Bearer(t)
           head == PostHead(url)
           named == IF t = NULL THEN head
                    ELSE compute_message(head, <<Text("Authorization", t)>>)
           parted == compute_message(named, <<Lf, payload>>)
<1>1. /\ Eol \in S /\ Lf \in S /\ payload \in S
      /\ t # NULL => Text("Authorization", t) \in S
  BY DEF Common, Bearer
<1>2. head \in Seq(S)
  <2>1. Common \cup {Word("POST"), Word(url)} \subseteq S
    OBVIOUS
  <2> HIDE DEF S
  <2> QED
    BY <2>1, PostHeadUnits
<1>3. compute_post_request(url, t, payload) = compute_message(parted, <<>>)
  BY DEF compute_post_request
<1> HIDE DEF S, head
<1>4. named \in Seq(S)
  <2>1. CASE t = NULL
    BY <1>2, <2>1
  <2>2. CASE t # NULL
    <3>1. <<Text("Authorization", t)>> \in Seq(S)
      BY <1>1, <2>2
    <3> QED
      BY <1>1, <1>2, <2>2, <3>1, MessageOf
  <2> QED
    BY <2>1, <2>2
<1>5. parted \in Seq(S)
  <2>1. <<Lf, payload>> \in Seq(S)
    BY <1>1
  <2> HIDE DEF named
  <2> QED
    BY <1>1, <1>4, <2>1, MessageOf
<1>6. compute_message(parted, <<>>) \in Seq(S)
  <2> HIDE DEF parted
  <2>1. <<>> \in Seq(S)
    BY EmptySeq
  <2> QED
    BY <1>1, <1>5, <2>1, MessageOf
<1> QED
  BY <1>3, <1>6 DEF S

LEMMA DeleteUnits ==
    ASSUME NEW url, NEW t
    PROVE  compute_delete_request(url, t)
             \in Seq(Common \cup {Word("DELETE"), Word(url)} \cup Bearer(t))
<1> DEFINE S == Common \cup {Word("DELETE"), Word(url)} \cup Bearer(t)
           line == compute_message(<<>>, <<Word("DELETE"), Word(url)>>)
           host == compute_message(line, <<Word("Host")>>)
           named == IF t = NULL THEN host
                    ELSE compute_message(host, <<Text("Authorization", t)>>)
<1>1. /\ Eol \in S /\ Word("Host") \in S /\ Word("DELETE") \in S /\ Word(url) \in S
      /\ t # NULL => Text("Authorization", t) \in S
  BY DEF Common, Bearer
<1>2. compute_delete_request(url, t) = compute_message(named, <<>>)
  BY DEF compute_delete_request
<1> HIDE DEF S
<1>3. line \in Seq(S) /\ <<>> \in Seq(S)
  <2>1. <<Word("DELETE"), Word(url)>> \in Seq(S) /\ <<>> \in Seq(S)
    BY <1>1, EmptySeq
  <2> QED
    BY <1>1, <2>1, MessageOf
<1>4. host \in Seq(S)
  <2>1. <<Word("Host")>> \in Seq(S)
    BY <1>1
  <2> HIDE DEF line
  <2> QED
    BY <1>1, <1>3, <2>1, MessageOf
<1> HIDE DEF host
<1>5. named \in Seq(S)
  <2>1. CASE t = NULL
    BY <1>4, <2>1
  <2>2. CASE t # NULL
    <3>1. <<Text("Authorization", t)>> \in Seq(S)
      BY <1>1, <2>2
    <3> QED
      BY <1>1, <1>4, <2>2, <3>1, MessageOf
  <2> QED
    BY <2>1, <2>2
<1>6. compute_message(named, <<>>) \in Seq(S)
  <2> HIDE DEF named
  <2> QED
    BY <1>1, <1>3, <1>5, MessageOf
<1> QED
  BY <1>2, <1>6 DEF S

LEMMA UnitOf ==
    ASSUME NEW kind \in Kinds, kind # "digit", NEW string \in Strings
    PROVE  Text(kind, string) \in Units
  BY DEF Text, Units

LEMMA WordOf ==
    ASSUME NEW kind \in Kinds, kind # "digit"
    PROVE  Word(kind) \in Units /\ Word(kind).kind = kind
<1>1. <<>> \in Strings
  BY EmptySeq DEF Strings
<1> QED
  BY <1>1, UnitOf DEF Word, Text

LEMMA CommonUnits == Common \subseteq Units
<1>1. <<1>> \in Strings
  BY DEF Strings
<1>2. Eol \in Units /\ Lf \in Units
  BY WordOf DEF Eol, Lf, Kinds
<1>3. Word("Host") \in Units /\ Word("Content-Type") \in Units
  BY WordOf DEF Kinds
<1>4. Text("Content-Length", <<1>>) \in Units
  BY <1>1, UnitOf DEF Kinds
<1> QED
  BY <1>2, <1>3, <1>4 DEF Common

LEMMA SeqOfMore ==
    ASSUME NEW S, NEW T, S \subseteq T, NEW s \in Seq(S)
    PROVE  s \in Seq(T)
  OBVIOUS
-----------------------------------------------------------------------------
(* What a request may hold, given the command and what the client keeps *)

Fits(name, c, t) ==
    {u \in Units : /\ u.kind = "Cookie" => name \in {"enter_library", "logout"} /\ u.text = c
                   /\ u.kind = "Authorization" => u.text = t
                   /\ u.kind = "login" => name = "login"
                   /\ u.kind = "access" => name = "enter_library"
                   /\ u.kind = "logout" => name = "logout"}

LEMMA CommonFits ==
    ASSUME NEW name, NEW c, NEW t
    PROVE  Common \subseteq Fits(name, c, t)
<1>1. \A u \in Common : u.kind \in {"\r\n", "\n", "Host", "Content-Type", "Content-Length"}
  BY DEF Common, Eol, Lf, Word, Text
<1> QED
  BY <1>1, CommonUnits DEF Fits

\* A word that is no credential, no address with a meaning and no digit fits.
LEMMA WordFits ==
    ASSUME NEW name, NEW c, NEW t, NEW kind \in Kinds \ {"digit", "Cookie", "Authorization"},
           kind = "login" => name = "login",
           kind = "access" => name = "enter_library",
           kind = "logout" => name = "logout"
    PROVE  Word(kind) \in Fits(name, c, t)
<1>1. Word(kind) \in Units /\ Word(kind).kind = kind
  BY WordOf
<1> QED
  BY <1>1 DEF Fits

LEMMA TokenFits ==
    ASSUME NEW name, NEW c, NEW t \in Strings
    PROVE  Text("Authorization", t) \in Fits(name, c, t)
<1>1. Text("Authorization", t) \in Units
  BY UnitOf DEF Kinds
<1>2. Text("Authorization", t).kind = "Authorization" /\ Text("Authorization", t).text = t
  BY DEF Text
<1> QED
  BY <1>1, <1>2 DEF Fits

LEMMA CookieFits ==
    ASSUME NEW name \in {"enter_library", "logout"}, NEW c \in Strings, NEW t
    PROVE  Text("Cookie", c) \in Fits(name, c, t)
<1>1. Text("Cookie", c) \in Units
  BY UnitOf DEF Kinds
<1>2. Text("Cookie", c).kind = "Cookie" /\ Text("Cookie", c).text = c
  BY DEF Text
<1> QED
  BY <1>1, <1>2 DEF Fits

LEMMA AskCookie ==
    ASSUME NEW name \in {"enter_library", "logout"}, NEW url \in {"access", "logout"},
           url = "access" <=> name = "enter_library",
           NEW c \in Strings, NEW t
    PROVE  compute_get_request(url, c, NULL) \in Seq(Fits(name, c, t))
<1> DEFINE S == Common \cup {Word("GET"), Word(url), Credential(c, NULL)}
<1>1. Word("GET") \in Fits(name, c, t)
  BY WordFits DEF Kinds, Methods
<1>2. Word(url) \in Fits(name, c, t)
  <2>1. url \in Kinds \ {"digit", "Cookie", "Authorization"}
    BY DEF Kinds, Urls
  <2> QED
    BY <2>1, WordFits
<1>3. Credential(c, NULL) \in Fits(name, c, t)
  BY CookieFits DEF Credential
<1>4. S \subseteq Fits(name, c, t)
  BY <1>1, <1>2, <1>3, CommonFits
<1>5. compute_get_request(url, c, NULL) \in Seq(S)
  BY GetUnits
<1> HIDE DEF S
<1> QED
  BY <1>4, <1>5, SeqOfMore

LEMMA AskToken ==
    ASSUME NEW name, NEW url \in {"books", "book"}, NEW c, NEW t \in Strings
    PROVE  /\ compute_get_request(url, c, t) \in Seq(Fits(name, c, t))
           /\ compute_post_request(url, t, make_payload_book) \in Seq(Fits(name, c, t))
           /\ compute_delete_request(url, t) \in Seq(Fits(name, c, t))
<1>1. t # NULL
  BY HttpAssumption
<1>2. /\ Word("GET") \in Fits(name, c, t) /\ Word("POST") \in Fits(name, c, t)
      /\ Word("DELETE") \in Fits(name, c, t) /\ make_payload_book \in Fits(name, c, t)
  BY WordFits DEF Kinds, Methods, make_payload_book
<1>3. Word(url) \in Fits(name, c, t)
  <2>1. url \in Kinds \ {"digit", "Cookie", "Authorization"}
    BY DEF Kinds, Urls
  <2> QED
    BY <2>1, WordFits
<1>4. Text("Authorization", t) \in Fits(name, c, t)
  BY TokenFits
<1>5. compute_get_request(url, c, t) \in Seq(Fits(name, c, t))
  <2> DEFINE S == Common \cup {Word("GET"), Word(url), Credential(c, t)}
  <2>1. S \subseteq Fits(name, c, t)
    BY <1>1, <1>2, <1>3, <1>4, CommonFits DEF Credential
  <2>2. compute_get_request(url, c, t) \in Seq(S)
    BY GetUnits
  <2> HIDE DEF S
  <2> QED
    BY <2>1, <2>2, SeqOfMore
<1>6. compute_post_request(url, t, make_payload_book) \in Seq(Fits(name, c, t))
  <2> DEFINE S == Common \cup {Word("POST"), Word(url), make_payload_book} \cup Bearer(t)
  <2>1. S \subseteq Fits(name, c, t)
    BY <1>1, <1>2, <1>3, <1>4, CommonFits DEF Bearer
  <2>2. compute_post_request(url, t, make_payload_book) \in Seq(S)
    BY PostUnits
  <2> HIDE DEF S
  <2> QED
    BY <2>1, <2>2, SeqOfMore
<1>7. compute_delete_request(url, t) \in Seq(Fits(name, c, t))
  <2> DEFINE S == Common \cup {Word("DELETE"), Word(url)} \cup Bearer(t)
  <2>1. S \subseteq Fits(name, c, t)
    BY <1>1, <1>2, <1>3, <1>4, CommonFits DEF Bearer
  <2>2. compute_delete_request(url, t) \in Seq(S)
    BY DeleteUnits
  <2> HIDE DEF S
  <2> QED
    BY <2>1, <2>2, SeqOfMore
<1> QED
  BY <1>5, <1>6, <1>7

LEMMA AskNothing ==
    ASSUME NEW name \in {"register", "login"}, NEW c, NEW t
    PROVE  compute_post_request(name, NULL, make_payload) \in Seq(Fits(name, c, t))
<1> DEFINE S == Common \cup {Word("POST"), Word(name), make_payload} \cup Bearer(NULL)
<1>1. Word("POST") \in Fits(name, c, t) /\ make_payload \in Fits(name, c, t)
  BY WordFits DEF Kinds, Methods, make_payload
<1>2. Word(name) \in Fits(name, c, t)
  <2>1. name \in Kinds \ {"digit", "Cookie", "Authorization"}
    BY DEF Kinds, Urls
  <2> QED
    BY <2>1, WordFits
<1>3. S \subseteq Fits(name, c, t)
  BY <1>1, <1>2, CommonFits DEF Bearer
<1>4. compute_post_request(name, NULL, make_payload) \in Seq(S)
  BY PostUnits
<1> HIDE DEF S
<1> QED
  BY <1>3, <1>4, SeqOfMore
-----------------------------------------------------------------------------
(* What a response may hold *)

\* A cookie comes in answer to a login, a token in answer to a request that
\* bears the cookie of its session.
Known(name, c, ss) ==
    {u \in Units :
       /\ u.kind = "Set-Cookie" =>
            /\ name = "login"
            /\ \E s \in Sessions : u.text = CookieOf(s) /\ ss[s] \in {"live", "expired"}
       /\ u.kind = "token" =>
            /\ name = "enter_library"
            /\ \E s \in Sessions : c = CookieOf(s) /\ u.text = TokenOf(s)}

LEMMA CookieIsString ==
    ASSUME NEW s \in Sessions
    PROVE  /\ CookieOf(s) \in Strings
           /\ CookieOf(s) # <<>>
           /\ CookieOf(s)[1] = s
           /\ TokenOf(s) \in Strings
<1>1. CookieLength[s] \in Nat \ {0} /\ s \in Nat
  BY HttpAssumption DEF Sessions
<1>2. CookieOf(s) \in [1..CookieLength[s] -> Nat]
  BY <1>1 DEF CookieOf
<1>3. CookieOf(s) \in Strings
  BY <1>1, <1>2 DEF Strings
<1>4. 1 \in 1..CookieLength[s]
  BY <1>1
<1>5. CookieOf(s)[1] = s
  BY <1>4 DEF CookieOf
<1>6. CookieOf(s) # <<>>
  <2>1. DOMAIN CookieOf(s) = 1..CookieLength[s]
    BY DEF CookieOf
  <2>2. 1 \in DOMAIN CookieOf(s)
    BY <1>4, <2>1
  <2>3. 1 \notin DOMAIN <<>>
    OBVIOUS
  <2> QED
    BY <2>2, <2>3
<1>7. TokenOf(s) \in Strings
  BY <1>1 DEF TokenOf, Strings
<1> QED
  BY <1>3, <1>5, <1>6, <1>7

\* Different sessions have different cookies and tokens.
LEMMA CookiesDiffer ==
    ASSUME NEW r \in Sessions, NEW s \in Sessions
    PROVE  /\ CookieOf(r) = CookieOf(s) => r = s
           /\ TokenOf(r) = TokenOf(s) => r = s
<1>1. CookieOf(r)[1] = r /\ CookieOf(s)[1] = s
  BY CookieIsString
<1>2. TokenOf(r)[1] = r /\ TokenOf(s)[1] = s
  BY DEF TokenOf
<1> QED
  BY <1>1, <1>2

\* What all responses are made of.
Frame(S) ==
    /\ S \subseteq Units
    /\ Eol \in S /\ Word("status") \in S /\ Word("Content-Length") \in S
    /\ Word("semicolon") \in S /\ Word("quote") \in S /\ Word("body") \in S
    /\ \A d \in Nat : Text("digit", <<d>>) \in S

LEMMA DigitOf ==
    ASSUME NEW d \in Nat
    PROVE  Text("digit", <<d>>) \in Units
<1>1. <<d>> \in Strings /\ Len(<<d>>) = 1
  BY DEF Strings
<1> QED
  BY <1>1 DEF Text, Units, Kinds

LEMMA KnownFrames ==
    ASSUME NEW name, NEW c, NEW ss
    PROVE  Frame(Known(name, c, ss))
<1>1. \A u \in Units : u.kind \notin {"Set-Cookie", "token"} => u \in Known(name, c, ss)
  BY DEF Known
<1>2. ASSUME NEW k \in {"\r\n", "status", "Content-Length", "semicolon", "quote", "body"}
      PROVE  Word(k) \in Known(name, c, ss)
  <2>1. Word(k) \in Units /\ Word(k).kind = k
    BY WordOf DEF Kinds
  <2> QED
    BY <1>1, <2>1
<1>3. ASSUME NEW d \in Nat
      PROVE  Text("digit", <<d>>) \in Known(name, c, ss)
  <2>1. Text("digit", <<d>>) \in Units /\ Text("digit", <<d>>).kind = "digit"
    BY DigitOf DEF Text
  <2> QED
    BY <1>1, <2>1
<1>4. Known(name, c, ss) \subseteq Units
  BY DEF Known
<1> QED
  BY <1>2, <1>3, <1>4 DEF Frame, Eol

LEMMA UnitsFrame == Frame(Units)
<1>1. ASSUME NEW k \in {"\r\n", "status", "Content-Length", "semicolon", "quote", "body"}
      PROVE  Word(k) \in Units
  BY WordOf DEF Kinds
<1> QED
  BY <1>1, DigitOf DEF Frame, Eol

\* What an answer leaves on the way is made of what it is made of.
LEMMA AnswerSends ==
    ASSUME NEW S, Frame(S), NEW fields \in Seq(S), NEW body \in Seq(S),
           Answer(fields, body)
    PROVE  /\ request' = <<>>
           /\ answer' \in Seq(S) /\ wire' \in Seq(S)
           /\ closed' \in BOOLEAN /\ cut' \in BOOLEAN
           /\ UNCHANGED <<pc, command, is_logged_out, cookie, token, opened,
                          buffer, header_end, content_length>>
<1>1. PICK withLength \in BOOLEAN, closes \in BOOLEAN :
        /\ request' = <<>>
        /\ answer' = Response(fields, body, withLength)
        /\ \/ /\ wire' = answer'
              /\ closed' = closes
              /\ cut' = FALSE
           \/ /\ \E n \in 0..Len(answer') - 1 : wire' = SubSeq(answer', 1, n)
              /\ closed' = TRUE
              /\ cut' = TRUE
        /\ UNCHANGED <<pc, client, opened, reader>>
  BY DEF Answer
<1>2. answer' \in Seq(S)
  <2>1. Response(fields, body, withLength) \in Seq(S)
    BY ResponseOf DEF Frame
  <2> QED
    BY <1>1, <2>1
<1>3. wire' \in Seq(S)
  <2>1. CASE wire' = answer'
    BY <1>2, <2>1
  <2>2. ASSUME NEW n \in 0..Len(answer') - 1, wire' = SubSeq(answer', 1, n)
        PROVE  wire' \in Seq(S)
    <3>1. Len(answer') \in Nat
      BY <1>2
    <3>2. 1 \in 1..(Len(answer') + 1) /\ n \in 0..Len(answer')
      BY <3>1
    <3>3. SubSeq(answer', 1, n) \in Seq(S)
      BY <1>2, <3>2, Part
    <3> QED
      BY <2>2, <3>3
  <2> QED
    BY <1>1, <2>1, <2>2
<1>4. closed' \in BOOLEAN /\ cut' \in BOOLEAN
  BY <1>1
<1> QED
  BY <1>1, <1>2, <1>3, <1>4 DEF client, reader
-----------------------------------------------------------------------------
(* Types *)

LEMMA AskType ==
    ASSUME TypeOK,
           NEW name \in {"register", "login", "enter_library", "get_books", "get_book",
                         "add_book", "delete_book", "logout"},
           NEW message \in Seq(Units), Ask(name, message)
    PROVE  TypeOK'
<1>1. <<>> \in Seq(Units)
  BY EmptySeq
<1>2. opened' \in 1..OPEN_MAX
  BY HttpAssumption DEF Ask, TypeOK
<1>3. request' \in Seq(Units) /\ command' = name /\ pc' = "header"
  BY DEF Ask
<1>4. closed' \in BOOLEAN /\ cut' \in BOOLEAN
  BY DEF Ask
<1>5. /\ answer' \in Seq(Units) /\ wire' \in Seq(Units) /\ buffer' \in Seq(Units)
      /\ header_end' \in Int /\ content_length' \in Int
  BY <1>1 DEF Ask
<1>6. UNCHANGED <<is_logged_out, cookie, token, session>>
  BY DEF Ask
<1> QED
  BY <1>2, <1>3, <1>4, <1>5, <1>6 DEF TypeOK

LEMMA CommandType ==
    ASSUME TypeOK, Command
    PROVE  TypeOK'
<1>1. \A name, c, t : Fits(name, c, t) \subseteq Units
  BY DEF Fits
<1>2. ASSUME NEW name, NEW m \in Seq(Fits(name, cookie, token))
      PROVE  m \in Seq(Units)
  BY <1>1, SeqOfMore
<1>3. cookie \in Strings /\ token \in Strings
  BY DEF TypeOK
<1>4. CASE Register
  BY <1>2, <1>4, AskNothing, AskType DEF Register
<1>5. CASE Login
  BY <1>2, <1>5, AskNothing, AskType DEF Login
<1>6. CASE EnterLibrary
  BY <1>2, <1>3, <1>6, AskCookie, AskType DEF EnterLibrary
<1>7. CASE GetBooks
  BY <1>2, <1>3, <1>7, AskToken, AskType DEF GetBooks
<1>8. CASE GetBook
  BY <1>2, <1>3, <1>8, AskToken, AskType DEF GetBook
<1>9. CASE AddBook
  BY <1>2, <1>3, <1>9, AskToken, AskType DEF AddBook
<1>10. CASE DeleteBook
  BY <1>2, <1>3, <1>10, AskToken, AskType DEF DeleteBook
<1>11. CASE Logout
  BY <1>2, <1>3, <1>11, AskCookie, AskType DEF Logout
<1>12. CASE Exit
  BY <1>12 DEF Exit, TypeOK, client, reader, connection
<1> QED
  BY <1>4, <1>5, <1>6, <1>7, <1>8, <1>9, <1>10, <1>11, <1>12 DEF Command

\* What the service answers with, in terms of the units it may use.
LEMMA PlainIn ==
    ASSUME NEW S, Frame(S)
    PROVE  Plain \in Seq(S) /\ <<>> \in Seq(S)
<1>1. Word("body") \in S
  BY DEF Frame
<1> QED
  BY <1>1, EmptySeq DEF Plain

LEMMA ThreeOf ==
    ASSUME NEW S, NEW a \in S, NEW b \in S, NEW c \in S
    PROVE  <<a, b, c>> \in Seq(S)
  OBVIOUS

LEMMA LoginAnswer ==
    ASSUME NEW S, Frame(S), NEW s, Text("Set-Cookie", CookieOf(s)) \in S
    PROVE  <<Text("Set-Cookie", CookieOf(s)), Word("semicolon"), Eol>> \in Seq(S)
<1>1. Word("semicolon") \in S /\ Eol \in S
  BY DEF Frame
<1> QED
  BY <1>1, ThreeOf

LEMMA AccessAnswer ==
    ASSUME NEW S, Frame(S), NEW s, Text("token", TokenOf(s)) \in S
    PROVE  <<Text("token", TokenOf(s)), Word("quote")>> \in Seq(S)
<1>1. Word("quote") \in S
  BY DEF Frame
<1> QED
  BY <1>1

LEMMA ServeType ==
    ASSUME TypeOK, Serve
    PROVE  TypeOK'
<1>1. Frame(Units) /\ Plain \in Seq(Units) /\ <<>> \in Seq(Units)
  BY UnitsFrame, PlainIn
<1>2. ASSUME NEW fields \in Seq(Units), NEW body \in Seq(Units), Answer(fields, body),
             session' \in [Sessions -> {"unused", "live", "expired", "ended"}]
      PROVE  TypeOK'
  <2>1. /\ request' = <<>>
        /\ answer' \in Seq(Units) /\ wire' \in Seq(Units)
        /\ closed' \in BOOLEAN /\ cut' \in BOOLEAN
        /\ UNCHANGED <<pc, command, is_logged_out, cookie, token, opened,
                       buffer, header_end, content_length>>
    BY <1>1, <1>2, AnswerSends
  <2> QED
    BY <1>1, <1>2, <2>1 DEF TypeOK
<1>3. ASSUME NEW s \in Sessions
      PROVE  Text("Set-Cookie", CookieOf(s)) \in Units /\ Text("token", TokenOf(s)) \in Units
  BY CookieIsString, UnitOf DEF Kinds
<1>4. CASE \E s \in Sessions : ServeLogin(s)
  <2>1. PICK s \in Sessions : ServeLogin(s)
    BY <1>4
  <2>2. <<Text("Set-Cookie", CookieOf(s)), Word("semicolon"), Eol>> \in Seq(Units)
    BY <1>1, <1>3, LoginAnswer
  <2>3. session' \in [Sessions -> {"unused", "live", "expired", "ended"}]
    BY <2>1 DEF ServeLogin, TypeOK
  <2>4. Answer(<<Text("Set-Cookie", CookieOf(s)), Word("semicolon"), Eol>>, Plain)
    BY <2>1 DEF ServeLogin
  <2> QED
    BY <1>1, <1>2, <2>2, <2>3, <2>4
<1>5. CASE \E s \in Sessions : ServeAccess(s)
  <2>1. PICK s \in Sessions : ServeAccess(s)
    BY <1>5
  <2>2. <<Text("token", TokenOf(s)), Word("quote")>> \in Seq(Units)
    BY <1>1, <1>3, AccessAnswer
  <2>3. Answer(<<>>, <<Text("token", TokenOf(s)), Word("quote")>>) /\ session' = session
    BY <2>1 DEF ServeAccess
  <2> QED
    BY <1>1, <1>2, <2>2, <2>3 DEF TypeOK
<1>6. CASE \E s \in Sessions : ServeLogout(s)
  <2>1. PICK s \in Sessions : ServeLogout(s)
    BY <1>6
  <2>2. session' \in [Sessions -> {"unused", "live", "expired", "ended"}]
    BY <2>1 DEF ServeLogout, TypeOK
  <2>3. Answer(<<>>, Plain)
    BY <2>1 DEF ServeLogout
  <2> QED
    BY <1>1, <1>2, <2>2, <2>3
<1>7. CASE ServeOther
  <2>1. Answer(<<>>, Plain) /\ session' = session
    BY <1>7 DEF ServeOther
  <2> QED
    BY <1>1, <1>2, <2>1 DEF TypeOK
<1> QED
  BY <1>4, <1>5, <1>6, <1>7 DEF Serve

\* A read moves units from the way into the buffer.
LEMMA ReadMoves ==
    ASSUME NEW S, buffer \in Seq(S), wire \in Seq(S), Read
    PROVE  buffer' \in Seq(S) /\ wire' \in Seq(S) /\ Len(wire) > 0
<1>1. PICK n \in 1..BUFLEN :
        /\ n <= Len(wire)
        /\ buffer' = buffer \o SubSeq(wire, 1, n)
        /\ wire' = SubSeq(wire, n + 1, Len(wire))
  BY DEF Read
<1>2. Len(wire) \in Nat /\ n \in Nat /\ n >= 1
  BY HttpAssumption
<1>3. SubSeq(wire, 1, n) \in Seq(S)
  BY <1>1, <1>2, Part
<1>4. SubSeq(wire, n + 1, Len(wire)) \in Seq(S)
  BY <1>1, <1>2, Part
<1> QED
  BY <1>1, <1>2, <1>3, <1>4, Joined

LEMMA ReceiveType ==
    ASSUME TypeOK, Receive
    PROVE  TypeOK'
<1>1. CASE ReadHeader
  <2>1. buffer' \in Seq(Units) /\ wire' \in Seq(Units)
    BY <1>1, ReadMoves DEF ReadHeader, TypeOK
  <2>2. header_end' \in Int
    BY <1>1, <2>1, HeaderEndIsInt DEF ReadHeader
  <2>3. content_length' \in Int
    <3>1. CASE HasLength(buffer')
      <4>1. LengthStart(buffer') \in Int /\ LengthStart(buffer') >= 0
        BY <2>1, <3>1, KindFound DEF HasLength, LengthStart
      <4>2. LengthStart(buffer') + 1 \in Nat
        BY <4>1
      <4>3. content_length' = strtol(buffer', LengthStart(buffer') + 1)
        BY <1>1, <3>1 DEF ReadHeader
      <4> QED
        BY <2>1, <4>2, <4>3, LengthIsInt
    <3>2. CASE ~HasLength(buffer')
      BY <1>1, <3>2 DEF ReadHeader, TypeOK
    <3> QED
      BY <3>1, <3>2
  <2>4. pc' \in {"header", "body"}
    BY <1>1 DEF ReadHeader
  <2> QED
    BY <1>1, <2>1, <2>2, <2>3, <2>4 DEF ReadHeader, TypeOK, client
<1>2. CASE ReadBody
  <2>1. buffer' \in Seq(Units) /\ wire' \in Seq(Units)
    BY <1>2, ReadMoves DEF ReadBody, TypeOK
  <2> QED
    BY <1>2, <2>1 DEF ReadBody, TypeOK, client
<1>3. CASE EndInHeader \/ Received \/ ReadFails
  BY <1>3 DEF EndInHeader, Received, ReadFails, TypeOK, client, reader, connection
<1> QED
  BY <1>1, <1>2, <1>3 DEF Receive

\* What is copied is the text of a unit of the buffer over the old string.
LEMMA CopiedText ==
    ASSUME TypeOK, NEW kind, NEW end, NEW old, Copied(kind, end, old) # NULL
    PROVE  \E i \in 1..Len(buffer) :
             /\ buffer[i].kind = kind
             /\ buffer[i].text \in Strings
             /\ Copied(kind, end, old) = strncpy(old, buffer[i].text)
<1> DEFINE at == FindKind(buffer, kind)
<1>1. at >= 0 /\ Copied(kind, end, old) = strncpy(old, buffer[at + 1].text) /\ at \in Int
  BY KindFound DEF Copied, TypeOK
<1>2. at + 1 \in 1..Len(buffer) /\ buffer[at + 1].kind = kind
  BY <1>1, KindFound DEF TypeOK
<1>3. buffer[at + 1] \in Units
  BY <1>2 DEF TypeOK
<1> QED
  BY <1>1, <1>2, <1>3 DEF Units

LEMMA HandleType ==
    ASSUME TypeOK, Handle
    PROVE  TypeOK'
<1>1. cookie \in Strings /\ token \in Strings /\ <<>> \in Strings
  BY EmptySeq DEF TypeOK, Strings
<1>2. ASSUME NEW kind, NEW end, NEW old \in Strings, Copied(kind, end, old) # NULL
      PROVE  Copied(kind, end, old) \in Strings
  BY <1>2, CopiedText, CopyIsString
<1>3. CASE HandleLogin
  <2>1. is_logged_out' \in BOOLEAN
    <3>1. is_logged_out \in BOOLEAN
      BY DEF TypeOK
    <3>2. is_logged_out' = is_logged_out \/ is_logged_out' = FALSE
      BY <1>3 DEF HandleLogin
    <3> QED
      BY <3>1, <3>2
  <2>4. cookie' \in Strings
    <3>1. cookie' = cookie \/ (/\ Copied("Set-Cookie", "semicolon", cookie) # NULL
                              /\ cookie' = Copied("Set-Cookie", "semicolon", cookie))
      BY <1>3 DEF HandleLogin
    <3> QED
      BY <1>1, <1>2, <3>1
  <2>2. pc' \in {"prompt", "crashed"}
    BY <1>3 DEF HandleLogin
  <2> QED
    BY <1>3, <2>1, <2>2, <2>4 DEF HandleLogin, TypeOK, reader, connection
<1>4. CASE HandleEnter
  <2>1. token' \in Strings
    BY <1>1, <1>2, <1>4 DEF HandleEnter, TypeOK
  <2>2. pc' \in {"prompt", "crashed"}
    BY <1>4 DEF HandleEnter
  <2> QED
    BY <1>4, <2>1, <2>2 DEF HandleEnter, TypeOK, reader, connection
<1>5. CASE HandleLogout
  BY <1>1, <1>5 DEF HandleLogout, Forget, TypeOK, reader, connection
<1>6. CASE HandleOther
  BY <1>6 DEF HandleOther, TypeOK, client, reader, connection
<1> QED
  BY <1>3, <1>4, <1>5, <1>6 DEF Handle

LEMMA TypeNext == TypeOK /\ [Next]_vars => TypeOK'
<1> SUFFICES ASSUME TypeOK, [Next]_vars
             PROVE  TypeOK'
  OBVIOUS
<1>1. CASE \E s \in Sessions : Expire(s)
  <2>1. PICK s \in Sessions : Expire(s)
    BY <1>1
  <2>2. session' \in [Sessions -> {"unused", "live", "expired", "ended"}]
    BY <2>1 DEF Expire, TypeOK
  <2> QED
    BY <2>1, <2>2 DEF Expire, TypeOK, client, reader, connection
<1>2. CASE UNCHANGED vars
  BY <1>2 DEF vars, TypeOK
<1> QED
  BY <1>1, <1>2, CommandType, ServeType, ReceiveType, HandleType DEF Next

LEMMA TypeInit == Init => TypeOK
<1> SUFFICES ASSUME Init
             PROVE  TypeOK
  OBVIOUS
<1>1. <<>> \in Seq(Units) /\ <<>> \in Strings
  BY EmptySeq DEF Strings
<1>2. opened \in 1..OPEN_MAX
  BY HttpAssumption DEF Init
<1>3. /\ buffer \in Seq(Units) /\ request \in Seq(Units)
      /\ answer \in Seq(Units) /\ wire \in Seq(Units)
      /\ cookie \in Strings /\ token \in Strings
  BY <1>1 DEF Init
<1>4. is_logged_out \in BOOLEAN /\ closed \in BOOLEAN /\ cut \in BOOLEAN
  BY DEF Init
<1>5. session \in [Sessions -> {"unused", "live", "expired", "ended"}]
  BY DEF Init
<1>6. header_end \in Int /\ content_length \in Int /\ pc = "prompt" /\ command = "none"
  BY DEF Init
<1> QED
  BY <1>2, <1>3, <1>4, <1>5, <1>6 DEF TypeOK

\* The client's variables and what is on its connection keep their types,
\* however long its cookies and however its responses are cut.
THEOREM HttpTypeCorrect == Spec => []TypeOK
<1> QED
  BY TypeInit, TypeNext, PTL DEF Spec
-----------------------------------------------------------------------------
(* The session *)

\* A request that is not answered is one the client can have written now, and
\* nothing of an answer is there.
Pending ==
    request # <<>> =>
      /\ pc = "header"
      /\ request \in Seq(Fits(command, cookie, token))
      /\ buffer = <<>> /\ wire = <<>>
      /\ closed = FALSE /\ cut = FALSE

Arriving ==
    /\ buffer \in Seq(Known(command, cookie, session))
    /\ wire \in Seq(Known(command, cookie, session))

\* A careful user's login finds no other session.
LogsInFromOutside ==
    command = "login" /\ pc \in {"header", "body", "process"} => is_logged_out

\* A session that was logged out of is forgotten before the next command.
EndedOnlyInLogout ==
    \A s \in Sessions : cookie = CookieOf(s) /\ session[s] = "ended"
      => command = "logout" /\ pc # "prompt" /\ request = <<>>

IInv == TypeOK /\ OneSession /\ Pending /\ Arriving /\ LogsInFromOutside /\ EndedOnlyInLogout

LEMMA KnownStays ==
    ASSUME NEW name, NEW c, NEW d, NEW ss, NEW tt,
           \A s \in Sessions : ss[s] \in {"live", "expired"} => tt[s] \in {"live", "expired"},
           c = d \/ name # "enter_library"
    PROVE  Known(name, c, ss) \subseteq Known(name, d, tt)
  BY DEF Known

LEMMA IInit == Init => IInv
<1> SUFFICES ASSUME Init
             PROVE  IInv
  OBVIOUS
<1>1. TypeOK
  BY TypeInit
<1>2. OneSession /\ Pending /\ LogsInFromOutside
  BY DEF Init, OneSession, Pending, LogsInFromOutside
<1>3. Arriving
  <2>1. <<>> \in Seq(Known(command, cookie, session))
    BY EmptySeq
  <2> QED
    BY <2>1 DEF Init, Arriving
<1>4. EndedOnlyInLogout
  BY DEF Init, EndedOnlyInLogout
<1> QED
  BY <1>1, <1>2, <1>3, <1>4 DEF IInv

LEMMA AskKeeps ==
    ASSUME IInv, NEW name, NEW message \in Seq(Fits(name, cookie, token)),
           Ask(name, message), name = "login" => is_logged_out, TypeOK'
    PROVE  IInv'
<1>1. OneSession'
  BY DEF IInv, OneSession, Ask
<1>2. Pending'
  BY DEF Pending, Ask
<1>3. Arriving'
  <2>1. <<>> \in Seq(Known(command', cookie', session'))
    BY EmptySeq
  <2>2. buffer' = <<>> /\ wire' = <<>>
    BY DEF Ask
  <2> QED
    BY <2>1, <2>2 DEF Arriving
<1>4. LogsInFromOutside'
  BY DEF LogsInFromOutside, Ask
<1>5. EndedOnlyInLogout'
  BY DEF IInv, EndedOnlyInLogout, Ask
<1> QED
  BY <1>1, <1>2, <1>3, <1>4, <1>5 DEF IInv

LEMMA CommandKeeps ==
    ASSUME Careful, IInv, Command, TypeOK'
    PROVE  IInv'
<1>1. cookie \in Strings /\ token \in Strings
  BY DEF IInv, TypeOK
<1>2. CASE Register
  BY <1>2, AskNothing, AskKeeps DEF Register
<1>3. CASE Login
  BY <1>3, AskNothing, AskKeeps DEF Login
<1>4. CASE EnterLibrary
  BY <1>1, <1>4, AskCookie, AskKeeps DEF EnterLibrary
<1>5. CASE GetBooks
  BY <1>1, <1>5, AskToken, AskKeeps DEF GetBooks
<1>6. CASE GetBook
  BY <1>1, <1>6, AskToken, AskKeeps DEF GetBook
<1>7. CASE AddBook
  BY <1>1, <1>7, AskToken, AskKeeps DEF AddBook
<1>8. CASE DeleteBook
  BY <1>1, <1>8, AskToken, AskKeeps DEF DeleteBook
<1>9. CASE Logout
  BY <1>1, <1>9, AskCookie, AskKeeps DEF Logout
<1>10. CASE Exit
  <2>1. UNCHANGED <<command, is_logged_out, cookie, token, buffer, request, wire,
                    closed, cut, session>> /\ pc = "prompt" /\ pc' = "exited"
    BY <1>10 DEF Exit, client, reader, connection
  <2>2. OneSession' /\ Arriving' /\ LogsInFromOutside' /\ EndedOnlyInLogout'
    BY <2>1 DEF IInv, OneSession, Arriving, LogsInFromOutside, EndedOnlyInLogout
  <2>3. Pending'
    BY <2>1 DEF IInv, Pending
  <2> QED
    BY <2>2, <2>3 DEF IInv
<1> QED
  BY <1>2, <1>3, <1>4, <1>5, <1>6, <1>7, <1>8, <1>9, <1>10 DEF Command

\* A cookie or token in a request on the way is the client's own.
LEMMA RequestBears ==
    ASSUME IInv
    PROVE  /\ \A s \in Sessions : Field(request, "Cookie") = CookieOf(s) => cookie = CookieOf(s)
           /\ \A s \in Sessions :
                Field(request, "Authorization") = TokenOf(s) => token = TokenOf(s)
<1>1. request \in Seq(Fits(command, cookie, token))
  <2>1. CASE request = <<>>
    BY <2>1, EmptySeq
  <2>2. CASE request # <<>>
    BY <2>2 DEF IInv, Pending
  <2> QED
    BY <2>1, <2>2
<1>2. request \in Seq(Units)
  BY DEF IInv, TypeOK
<1>3. \A s \in Sessions : CookieOf(s) # NULL /\ TokenOf(s) # NULL
  BY CookieIsString, HttpAssumption
<1>4. ASSUME NEW s \in Sessions, Field(request, "Cookie") = CookieOf(s)
      PROVE  cookie = CookieOf(s)
  <2>1. PICK i \in 1..Len(request) :
          request[i].kind = "Cookie" /\ request[i].text = CookieOf(s)
    BY <1>2, <1>3, <1>4, FieldIsThere
  <2>2. request[i] \in Fits(command, cookie, token)
    BY <1>1, <2>1
  <2> QED
    BY <2>1, <2>2 DEF Fits
<1>5. ASSUME NEW s \in Sessions, Field(request, "Authorization") = TokenOf(s)
      PROVE  token = TokenOf(s)
  <2>1. PICK i \in 1..Len(request) :
          request[i].kind = "Authorization" /\ request[i].text = TokenOf(s)
    BY <1>2, <1>3, <1>5, FieldIsThere
  <2>2. request[i] \in Fits(command, cookie, token)
    BY <1>1, <2>1
  <2> QED
    BY <2>1, <2>2 DEF Fits
<1> QED
  BY <1>4, <1>5

\* The address of a request tells the command it was written for.
LEMMA AddressOfCommand ==
    ASSUME IInv, request # <<>>
    PROVE  /\ Asks("login") => command = "login"
           /\ Asks("access") => command = "enter_library"
           /\ Asks("logout") => command = "logout"
<1>1. request \in Seq(Fits(command, cookie, token))
  BY DEF IInv, Pending
<1>2. \A i \in 1..Len(request) : request[i] \in Fits(command, cookie, token)
  BY <1>1
<1> QED
  BY <1>2 DEF Asks, Fits

LEMMA AnswerKeeps ==
    ASSUME IInv, request # <<>>, TypeOK',
           NEW fields \in Seq(Known(command, cookie, session')),
           NEW body \in Seq(Known(command, cookie, session')),
           Answer(fields, body),
           \A s \in Sessions : session'[s] = "ended" =>
             session[s] = "ended" \/ (cookie = CookieOf(s) /\ command = "logout")
    PROVE  IInv'
<1>1. /\ request' = <<>>
      /\ wire' \in Seq(Known(command, cookie, session'))
      /\ UNCHANGED <<pc, command, is_logged_out, cookie, token, buffer>>
  BY KnownFrames, AnswerSends
<1>2. OneSession' /\ LogsInFromOutside'
  BY <1>1 DEF IInv, OneSession, LogsInFromOutside
<1>3. Pending'
  BY <1>1 DEF Pending
<1>4. Arriving'
  <2>1. buffer' = <<>>
    BY <1>1 DEF IInv, Pending
  <2>2. <<>> \in Seq(Known(command', cookie', session'))
    BY EmptySeq
  <2> QED
    BY <1>1, <2>1, <2>2 DEF Arriving
<1>5. EndedOnlyInLogout'
  <2>1. pc = "header"
    BY DEF IInv, Pending
  <2>2. \A s \in Sessions : ~(cookie = CookieOf(s) /\ session[s] = "ended")
    BY DEF IInv, EndedOnlyInLogout
  <2> QED
    BY <1>1, <2>1, <2>2 DEF EndedOnlyInLogout
<1> QED
  BY <1>2, <1>3, <1>4, <1>5 DEF IInv

LEMMA AsksSomething ==
    ASSUME NEW url, Asks(url)
    PROVE  request # <<>>
  BY DEF Asks

LEMMA ServeKeeps ==
    ASSUME IInv, Serve, TypeOK'
    PROVE  IInv'
<1> DEFINE K == Known(command, cookie, session')
<1>1. Frame(K) /\ Plain \in Seq(K) /\ <<>> \in Seq(K)
  BY KnownFrames, PlainIn
<1>2. CASE \E s \in Sessions : ServeLogin(s)
  <2>1. PICK s \in Sessions : ServeLogin(s)
    BY <1>2
  <2>2. request # <<>> /\ command = "login"
    <3>1. request # <<>>
      BY <2>1, AsksSomething DEF ServeLogin
    <3> QED
      BY <2>1, <3>1, AddressOfCommand DEF ServeLogin
  <2>3. session'[s] = "live" /\ \A r \in Sessions : r # s => session'[r] = session[r]
    BY <2>1 DEF ServeLogin, IInv, TypeOK
  <2>4. Text("Set-Cookie", CookieOf(s)) \in K
    <3>1. Text("Set-Cookie", CookieOf(s)) \in Units
      BY CookieIsString, UnitOf DEF Kinds
    <3>2. /\ Text("Set-Cookie", CookieOf(s)).kind = "Set-Cookie"
          /\ Text("Set-Cookie", CookieOf(s)).text = CookieOf(s)
      BY DEF Text
    <3> QED
      BY <2>2, <2>3, <3>1, <3>2 DEF Known
  <2>5. <<Text("Set-Cookie", CookieOf(s)), Word("semicolon"), Eol>> \in Seq(K)
    <3> HIDE DEF K
    <3> QED
      BY <1>1, <2>4, LoginAnswer
  <2>6. Answer(<<Text("Set-Cookie", CookieOf(s)), Word("semicolon"), Eol>>, Plain)
    BY <2>1 DEF ServeLogin
  <2> QED
    BY <1>1, <2>2, <2>3, <2>5, <2>6, AnswerKeeps
<1>3. CASE \E s \in Sessions : ServeAccess(s)
  <2>1. PICK s \in Sessions : ServeAccess(s)
    BY <1>3
  <2>2. request # <<>> /\ command = "enter_library" /\ session' = session
    <3>1. request # <<>>
      BY <2>1, AsksSomething DEF ServeAccess
    <3> QED
      BY <2>1, <3>1, AddressOfCommand DEF ServeAccess
  <2>3. cookie = CookieOf(s)
    BY <2>1, RequestBears DEF ServeAccess, Bears
  <2>4. Text("token", TokenOf(s)) \in K
    <3>1. Text("token", TokenOf(s)) \in Units
      BY CookieIsString, UnitOf DEF Kinds
    <3>2. /\ Text("token", TokenOf(s)).kind = "token"
          /\ Text("token", TokenOf(s)).text = TokenOf(s)
      BY DEF Text
    <3> QED
      BY <2>2, <2>3, <3>1, <3>2 DEF Known
  <2>5. <<Text("token", TokenOf(s)), Word("quote")>> \in Seq(K)
    <3> HIDE DEF K
    <3> QED
      BY <1>1, <2>4, AccessAnswer
  <2>6. Answer(<<>>, <<Text("token", TokenOf(s)), Word("quote")>>)
    BY <2>1 DEF ServeAccess
  <2> QED
    BY <1>1, <2>2, <2>5, <2>6, AnswerKeeps
<1>4. CASE \E s \in Sessions : ServeLogout(s)
  <2>1. PICK s \in Sessions : ServeLogout(s)
    BY <1>4
  <2>2. request # <<>> /\ command = "logout"
    <3>1. request # <<>>
      BY <2>1, AsksSomething DEF ServeLogout
    <3> QED
      BY <2>1, <3>1, AddressOfCommand DEF ServeLogout
  <2>3. cookie = CookieOf(s)
    BY <2>1, RequestBears DEF ServeLogout, Bears
  <2>4. \A r \in Sessions : r # s => session'[r] = session[r]
    BY <2>1 DEF ServeLogout, IInv, TypeOK
  <2>5. Answer(<<>>, Plain)
    BY <2>1 DEF ServeLogout
  <2> QED
    BY <1>1, <2>2, <2>3, <2>4, <2>5, AnswerKeeps
<1>5. CASE ServeOther
  <2>1. request # <<>> /\ session' = session /\ Answer(<<>>, Plain)
    BY <1>5 DEF ServeOther
  <2> QED
    BY <1>1, <2>1, AnswerKeeps
<1> QED
  BY <1>2, <1>3, <1>4, <1>5 DEF Serve

LEMMA ExpireKeeps ==
    ASSUME IInv, NEW s \in Sessions, Expire(s), TypeOK'
    PROVE  IInv'
<1>1. /\ UNCHANGED <<pc, command, is_logged_out, cookie, token, buffer, request, wire,
                     closed, cut>>
      /\ \A r \in Sessions :
           session[r] \in {"live", "expired"} => session'[r] \in {"live", "expired"}
      /\ \A r \in Sessions : session'[r] = "ended" => session[r] = "ended"
  BY DEF Expire, IInv, TypeOK, client, reader, connection
<1>2. OneSession' /\ Pending' /\ LogsInFromOutside' /\ EndedOnlyInLogout'
  BY <1>1 DEF IInv, OneSession, Pending, LogsInFromOutside, EndedOnlyInLogout
<1>3. Arriving'
  <2>1. Known(command, cookie, session) \subseteq Known(command, cookie, session')
    BY <1>1, KnownStays
  <2>2. /\ buffer \in Seq(Known(command, cookie, session'))
        /\ wire \in Seq(Known(command, cookie, session'))
    BY <2>1, SeqOfMore DEF IInv, Arriving
  <2> QED
    BY <1>1, <2>2 DEF Arriving
<1> QED
  BY <1>2, <1>3 DEF IInv

LEMMA ReceiveKeeps ==
    ASSUME IInv, Receive, TypeOK'
    PROVE  IInv'
<1>1. /\ UNCHANGED <<command, is_logged_out, cookie, token, session, request>>
      /\ pc \in {"header", "body"}
      /\ pc' \in {"header", "body", "process", "exited"}
  BY DEF Receive, ReadHeader, EndInHeader, ReadBody, Received, ReadFails,
         client, connection
<1>2. OneSession' /\ LogsInFromOutside' /\ EndedOnlyInLogout'
  BY <1>1 DEF IInv, OneSession, LogsInFromOutside, EndedOnlyInLogout
<1>3. Arriving'
  <2>1. CASE ReadHeader \/ ReadBody
    <3>1. Read
      BY <2>1 DEF ReadHeader, ReadBody
    <3>2. /\ buffer' \in Seq(Known(command, cookie, session))
          /\ wire' \in Seq(Known(command, cookie, session))
      BY <3>1, ReadMoves DEF IInv, Arriving
    <3> QED
      BY <1>1, <3>2 DEF Arriving
  <2>2. CASE EndInHeader \/ Received \/ ReadFails
    <3>1. UNCHANGED <<buffer, wire>>
      BY <2>2 DEF EndInHeader, Received, ReadFails, reader, connection
    <3> QED
      BY <1>1, <3>1 DEF IInv, Arriving
  <2> QED
    BY <2>1, <2>2 DEF Receive
<1>4. Pending'
  <2>1. request = <<>>
    <3>1. SUFFICES ASSUME request # <<>>
                   PROVE  FALSE
      OBVIOUS
    <3>2. pc = "header" /\ wire = <<>> /\ closed = FALSE /\ cut = FALSE
      BY <3>1 DEF IInv, Pending
    <3>3. ~ReadBody /\ ~Received /\ ~EndInHeader /\ ~ReadFails
      BY <3>2 DEF ReadBody, Received, EndInHeader, AtEnd, ReadFails
    <3>4. ~ReadHeader
      <4>1. SUFFICES ASSUME ReadHeader
                     PROVE  FALSE
        OBVIOUS
      <4>2. Len(wire) > 0
        BY <4>1, ReadMoves DEF ReadHeader, IInv, TypeOK
      <4> QED
        BY <3>2, <4>2
    <3> QED
      BY <3>3, <3>4 DEF Receive
  <2> QED
    BY <1>1, <2>1 DEF Pending
<1> QED
  BY <1>2, <1>3, <1>4 DEF IInv

\* A login that sets a cookie sets that of a session that has not ended.
LEMMA LoginTakes ==
    ASSUME IInv, HandleLogin, cookie' # cookie \/ is_logged_out' # is_logged_out
    PROVE  /\ is_logged_out /\ is_logged_out' = FALSE
           /\ cookie = <<>> /\ token = <<>>
           /\ \E s \in Sessions : cookie' = CookieOf(s) /\ session[s] \in {"live", "expired"}
<1>1. is_logged_out
  BY DEF IInv, LogsInFromOutside, HandleLogin
<1>2. cookie = <<>> /\ token = <<>>
  BY <1>1 DEF IInv, OneSession
<1>3. /\ Copied("Set-Cookie", "semicolon", <<>>) # NULL
      /\ cookie' = Copied("Set-Cookie", "semicolon", <<>>)
      /\ is_logged_out' = FALSE
  BY <1>2 DEF HandleLogin
<1>4. PICK i \in 1..Len(buffer) :
        /\ buffer[i].kind = "Set-Cookie"
        /\ buffer[i].text \in Strings
        /\ Copied("Set-Cookie", "semicolon", <<>>) = strncpy(<<>>, buffer[i].text)
  BY <1>3, CopiedText DEF IInv
<1>5. cookie' = buffer[i].text
  BY <1>3, <1>4, CopyOverEmpty
<1>6. buffer[i] \in Known(command, cookie, session)
  <2> DEFINE K == Known(command, cookie, session)
  <2>1. buffer \in Seq(K) /\ i \in 1..Len(buffer)
    BY <1>4 DEF IInv, Arriving
  <2> HIDE DEF K
  <2>2. buffer[i] \in K
    BY <2>1, ElementOfSeq
  <2> QED
    BY <2>2 DEF K
<1>7. PICK s \in Sessions : buffer[i].text = CookieOf(s) /\ session[s] \in {"live", "expired"}
  BY <1>4, <1>6 DEF Known
<1> QED
  BY <1>1, <1>2, <1>3, <1>5, <1>7

\* A token that is taken is that of the session of the cookie.
LEMMA EnterTakes ==
    ASSUME IInv, HandleEnter, token' # token
    PROVE  /\ ~is_logged_out
           /\ \/ token' = <<>>
              \/ \E s \in Sessions : cookie = CookieOf(s) /\ token' = TokenOf(s)
<1>1. ~is_logged_out
  BY DEF HandleEnter, TakesToken
<1>2. CASE token' = <<>>
  BY <1>1, <1>2
<1>3. CASE token' # <<>>
  <2>1. Copied("token", "quote", <<>>) # NULL /\ token' = Copied("token", "quote", <<>>)
    BY <1>3 DEF HandleEnter
  <2>2. PICK i \in 1..Len(buffer) :
          /\ buffer[i].kind = "token"
          /\ buffer[i].text \in Strings
          /\ Copied("token", "quote", <<>>) = strncpy(<<>>, buffer[i].text)
    BY <2>1, CopiedText DEF IInv
  <2>3. token' = buffer[i].text
    BY <2>1, <2>2, CopyOverEmpty
  <2>4. buffer[i] \in Known(command, cookie, session)
    BY <2>2 DEF IInv, Arriving
  <2>5. \E s \in Sessions : cookie = CookieOf(s) /\ buffer[i].text = TokenOf(s)
    BY <2>2, <2>4 DEF Known
  <2> QED
    BY <1>1, <2>3, <2>5
<1> QED
  BY <1>2, <1>3

LEMMA HandleKeeps ==
    ASSUME IInv, Handle, TypeOK'
    PROVE  IInv'
<1>1. request = <<>> /\ request' = <<>> /\ pc = "process" /\ pc' \in {"prompt", "crashed"}
  <2>1. pc = "process" /\ request' = request /\ pc' \in {"prompt", "crashed"}
    BY DEF Handle, HandleLogin, HandleEnter, HandleLogout, HandleOther, connection
  <2>2. request = <<>>
    BY <2>1 DEF IInv, Pending
  <2> QED
    BY <2>1, <2>2
<1>2. Pending'
  BY <1>1 DEF Pending
<1>3. LogsInFromOutside'
  BY <1>1 DEF LogsInFromOutside
<1>4. UNCHANGED <<command, session, buffer, wire>>
  BY DEF Handle, HandleLogin, HandleEnter, HandleLogout, HandleOther, client, reader, connection
<1>5. cookie' = cookie \/ command # "enter_library"
  BY DEF Handle, HandleLogin, HandleEnter, HandleLogout, HandleOther, client
<1>6. Arriving'
  <2>1. Known(command, cookie, session) \subseteq Known(command, cookie', session)
    BY <1>5, KnownStays
  <2>2. /\ buffer \in Seq(Known(command, cookie', session))
        /\ wire \in Seq(Known(command, cookie', session))
    BY <2>1, SeqOfMore DEF IInv, Arriving
  <2> QED
    BY <1>4, <2>2 DEF Arriving
<1>7. command # "logout" => \A s \in Sessions : ~(cookie = CookieOf(s) /\ session[s] = "ended")
  BY DEF IInv, EndedOnlyInLogout
<1>8. CASE HandleLogin
  <2>1. token' = token /\ command = "login"
    BY <1>8 DEF HandleLogin
  <2>2. CASE cookie' = cookie /\ is_logged_out' = is_logged_out
    BY <1>2, <1>3, <1>4, <1>6, <1>7, <2>1, <2>2 DEF IInv, OneSession, EndedOnlyInLogout
  <2>3. CASE ~(cookie' = cookie /\ is_logged_out' = is_logged_out)
    <3>1. /\ is_logged_out' = FALSE /\ token = <<>>
          /\ \E s \in Sessions : cookie' = CookieOf(s) /\ session[s] \in {"live", "expired"}
      BY <1>8, <2>3, LoginTakes
    <3>2. PICK s \in Sessions : cookie' = CookieOf(s) /\ session[s] \in {"live", "expired"}
      BY <3>1
    <3>3. OneSession'
      BY <2>1, <3>1, <3>2 DEF OneSession, CookieOf, TokenOf
    <3>4. EndedOnlyInLogout'
      <4>1. \A r \in Sessions : cookie' = CookieOf(r) => r = s
        BY <3>2, CookiesDiffer
      <4> QED
        BY <1>4, <3>2, <4>1 DEF EndedOnlyInLogout, CookieOf
    <3> QED
      BY <1>2, <1>3, <1>6, <3>3, <3>4 DEF IInv
  <2> QED
    BY <2>2, <2>3
<1>9. CASE HandleEnter
  <2>1. UNCHANGED <<cookie, is_logged_out>> /\ command = "enter_library"
    BY <1>9 DEF HandleEnter
  <2>2. EndedOnlyInLogout'
    BY <1>4, <1>7, <2>1 DEF EndedOnlyInLogout
  <2>3. OneSession'
    <3>1. CASE token' = token
      BY <2>1, <3>1 DEF IInv, OneSession
    <3>2. CASE token' # token
      <4>1. ~is_logged_out
        BY <1>9, <3>2, EnterTakes
      <4>2. PICK s \in Sessions : cookie = CookieOf(s)
        BY <4>1 DEF IInv, OneSession
      <4>3. token' \in {<<>>, TokenOf(s)}
        <5>1. \A r \in Sessions : cookie = CookieOf(r) => r = s
          BY <4>2, CookiesDiffer
        <5> QED
          BY <1>9, <3>2, <5>1, EnterTakes
      <4> QED
        BY <2>1, <4>1, <4>2, <4>3 DEF OneSession, CookieOf, TokenOf
    <3> QED
      BY <3>1, <3>2
  <2> QED
    BY <1>2, <1>3, <1>6, <2>2, <2>3 DEF IInv
<1>10. CASE HandleLogout
  <2>1. cookie' = <<>> /\ token' = <<>> /\ is_logged_out' = TRUE
    BY <1>10 DEF HandleLogout, Forget
  <2>2. OneSession'
    BY <2>1 DEF OneSession
  <2>3. EndedOnlyInLogout'
    <3>1. \A s \in Sessions : cookie' # CookieOf(s)
      BY <2>1, CookieIsString
    <3> QED
      BY <3>1 DEF EndedOnlyInLogout, CookieOf
  <2> QED
    BY <1>2, <1>3, <1>6, <2>2, <2>3 DEF IInv
<1>11. CASE HandleOther
  <2>1. UNCHANGED <<cookie, token, is_logged_out>> /\ command # "logout"
    BY <1>11 DEF HandleOther, client
  <2>2. OneSession' /\ EndedOnlyInLogout'
    BY <1>4, <1>7, <2>1 DEF IInv, OneSession, EndedOnlyInLogout
  <2> QED
    BY <1>2, <1>3, <1>6, <2>2 DEF IInv
<1> QED
  BY <1>8, <1>9, <1>10, <1>11 DEF Handle

LEMMA INext == Careful /\ IInv /\ [Next]_vars => IInv'
<1> SUFFICES ASSUME Careful, IInv, [Next]_vars
             PROVE  IInv'
  OBVIOUS
<1>1. TypeOK'
  BY TypeNext DEF IInv
<1>2. CASE Next
  <2>1. CASE \E s \in Sessions : Expire(s)
    BY <1>1, <2>1, ExpireKeeps
  <2> QED
    BY <1>1, <1>2, <2>1, CommandKeeps, ServeKeeps, ReceiveKeeps, HandleKeeps DEF Next
<1>3. CASE UNCHANGED vars
  BY <1>1, <1>3 DEF vars, IInv, OneSession, Pending, Arriving, LogsInFromOutside,
                    EndedOnlyInLogout
<1> QED
  BY <1>2, <1>3

\* With users that log out before they log in again, cookie and token always
\* belong to one session and are held exactly while the client is logged in,
\* whatever is lost and whichever sessions the service ends by itself
\* (client.c:131-170, 298-305).
THEOREM KeepsOneSession == Careful => (Spec => []OneSession)
<1> SUFFICES ASSUME Careful PROVE Spec => []OneSession
  OBVIOUS
<1>1. IInv /\ [Next]_vars => IInv'
  BY INext
<1>2. IInv => OneSession
  BY DEF IInv
<1> QED
  BY <1>1, <1>2, IInit, PTL DEF Spec

LEMMA IInvEnded == IInv => EndedForGood
<1> SUFFICES ASSUME IInv, request # <<>>, NEW s \in Sessions, session[s] = "ended"
             PROVE  /\ Field(request, "Cookie") # CookieOf(s)
                    /\ Field(request, "Authorization") # TokenOf(s)
  BY DEF EndedForGood
<1>1. cookie # CookieOf(s)
  BY DEF IInv, EndedOnlyInLogout
<1>2. token # TokenOf(s)
  <2>1. SUFFICES ASSUME token = TokenOf(s)
                 PROVE  FALSE
    OBVIOUS
  <2>2. token # <<>>
    BY <2>1 DEF TokenOf
  <2>3. PICK r \in Sessions : cookie = CookieOf(r) /\ token = TokenOf(r)
    BY <2>2 DEF IInv, OneSession
  <2>4. r = s
    BY <2>1, <2>3, CookiesDiffer
  <2> QED
    BY <1>1, <2>3, <2>4
<1> QED
  BY <1>1, <1>2, RequestBears

\* No request names a session after its logout was carried out, even if the
\* answer to the logout is lost (client.c:291-305).
THEOREM NeverGoesBack == Careful => (Spec => []EndedForGood)
<1> SUFFICES ASSUME Careful PROVE Spec => []EndedForGood
  OBVIOUS
<1>1. IInv /\ [Next]_vars => IInv'
  BY INext
<1> QED
  BY <1>1, IInit, IInvEnded, PTL DEF Spec
-----------------------------------------------------------------------------
(* The client goes from session to session *)

LEMMA CookieHead ==
    ASSUME NEW s \in Sessions
    PROVE  /\ CookieOf(s) # <<>> /\ Head(CookieOf(s)) = s
           /\ TokenOf(s) # <<>> /\ Head(TokenOf(s)) = s
<1>1. CookieOf(s) # <<>> /\ CookieOf(s)[1] = s /\ CookieOf(s) \in Seq(Nat)
  BY CookieIsString DEF Strings
<1>2. Head(CookieOf(s)) = s
  BY <1>1, HeadTailProperties
<1> QED
  BY <1>1, <1>2 DEF TokenOf

Inside == IF cookie = <<>> THEN 0 ELSE Head(cookie)
Access == IF token = <<>> THEN 0 ELSE Head(token)
State == [s \in Sessions |-> CASE session[s] = "unused" -> "fresh"
                               [] session[s] = "ended" -> "over"
                               [] OTHER -> "open"]

LEMMA SessionInit == Init => Library!Init
  BY DEF Init, Library!Init

\* While the client keeps a cookie it is inside that cookie's session.
LEMMA InsideOf ==
    ASSUME NEW s \in Sessions, cookie = CookieOf(s)
    PROVE  Inside = s /\ Inside # 0
<1>1. Inside = s
  BY CookieHead DEF Inside
<1> QED
  BY <1>1 DEF Sessions

LEMMA SessionNext == IInv /\ IInv' /\ [Next]_vars => [Library!Next]_Library!vars
<1> SUFFICES ASSUME IInv, IInv', [Next]_vars
             PROVE  [Library!Next]_Library!vars
  OBVIOUS
<1>1. ASSUME UNCHANGED <<cookie, token, session>>
      PROVE  UNCHANGED Library!vars
  BY <1>1 DEF Library!vars
<1>2. CASE Command
  BY <1>1, <1>2 DEF Command, Register, Login, EnterLibrary, GetBooks, GetBook, AddBook,
                    DeleteBook, Logout, Ask, Exit, client
<1>3. CASE Receive
  BY <1>1, <1>3 DEF Receive, ReadHeader, EndInHeader, ReadBody, Received, ReadFails, client
<1>4. CASE \E s \in Sessions : Expire(s)
  <2>1. PICK s \in Sessions : Expire(s)
    BY <1>4
  <2>2. UNCHANGED <<cookie, token>> /\ session[s] = "live" /\ session'[s] = "expired"
    BY <2>1 DEF Expire, client, IInv, TypeOK
  <2>3. \A r \in Sessions : r # s => session'[r] = session[r]
    BY <2>1 DEF Expire, IInv, TypeOK
  <2>4. State' = State
    BY <2>2, <2>3 DEF State
  <2> QED
    BY <2>2, <2>4 DEF Library!vars, State
<1>5. CASE Serve
  <2>1. UNCHANGED <<cookie, token>>
    BY <1>5 DEF Serve, ServeLogin, ServeAccess, ServeLogout, ServeOther, Answer, client
  <2>2. CASE \E s \in Sessions : ServeLogin(s)
    <3>1. PICK s \in Sessions : ServeLogin(s)
      BY <2>2
    <3>2. session[s] = "unused" /\ session' = [session EXCEPT ![s] = "live"]
      BY <3>1 DEF ServeLogin
    <3>3. State[s] = "fresh" /\ State' = [State EXCEPT ![s] = "open"]
      BY <3>2 DEF State, IInv, TypeOK
    <3>4. Library!Open(s)
      BY <2>1, <3>3 DEF Library!Open, State
    <3> QED
      BY <3>4 DEF Library!Next
  <2>3. CASE \E s \in Sessions : ServeLogout(s)
    <3>1. PICK s \in Sessions : ServeLogout(s)
      BY <2>3
    <3>2. session[s] = "live" /\ session' = [session EXCEPT ![s] = "ended"]
      BY <3>1 DEF ServeLogout, Bears
    <3>3. State[s] = "open" /\ State' = [State EXCEPT ![s] = "over"]
      BY <3>2 DEF State, IInv, TypeOK
    <3>4. Inside = s /\ Inside # 0
      BY <3>1, RequestBears, InsideOf DEF ServeLogout, Bears
    <3>5. Library!End
      BY <2>1, <3>3, <3>4 DEF Library!End, State, Inside
    <3> QED
      BY <3>5 DEF Library!Next
  <2>4. CASE ServeOther \/ \E s \in Sessions : ServeAccess(s)
    BY <1>1, <2>1, <2>4 DEF ServeOther, ServeAccess
  <2> QED
    BY <1>5, <2>2, <2>3, <2>4 DEF Serve
<1>6. CASE HandleLogin
  <2>1. UNCHANGED <<token, session>>
    BY <1>6 DEF HandleLogin
  <2>2. CASE cookie' = cookie
    BY <1>1, <2>1, <2>2
  <2>3. CASE cookie' # cookie
    <3>1. /\ cookie = <<>>
          /\ \E s \in Sessions : cookie' = CookieOf(s) /\ session[s] \in {"live", "expired"}
      BY <1>6, <2>3, LoginTakes
    <3>2. PICK s \in Sessions : cookie' = CookieOf(s) /\ session[s] \in {"live", "expired"}
      BY <3>1
    <3>3. Inside = 0 /\ Inside' = s /\ State[s] = "open"
      BY <3>1, <3>2, CookieHead DEF Inside, State
    <3>4. Library!Enter(s)
      BY <2>1, <3>3 DEF Library!Enter, Inside, State
    <3> QED
      BY <3>4 DEF Library!Next
  <2> QED
    BY <2>2, <2>3
<1>7. CASE HandleEnter
  <2>1. UNCHANGED <<cookie, session>>
    BY <1>7 DEF HandleEnter
  <2>2. CASE token' = token
    BY <1>1, <2>1, <2>2
  <2>3. CASE token' # token
    <3>1. ~is_logged_out
      BY <1>7, <2>3, EnterTakes
    <3>2. PICK s \in Sessions : cookie = CookieOf(s)
      BY <3>1 DEF IInv, OneSession
    <3>3. Inside = s /\ Inside # 0
      BY <3>2, InsideOf
    <3>4. token' = <<>> \/ token' = TokenOf(s)
      <4>1. \A r \in Sessions : cookie = CookieOf(r) => r = s
        BY <3>2, CookiesDiffer
      <4> QED
        BY <1>7, <2>3, <4>1, EnterTakes
    <3>5. Access' \in {0, Inside}
      BY <3>3, <3>4, CookieHead DEF Access
    <3>6. Library!Access
      BY <2>1, <3>3, <3>5 DEF Library!Access, Inside, Access
    <3> QED
      BY <3>6 DEF Library!Next
  <2> QED
    BY <2>2, <2>3
<1>8. CASE HandleLogout
  <2>1. cookie' = <<>> /\ token' = <<>> /\ session' = session
    BY <1>8 DEF HandleLogout, Forget
  <2>2. Library!Leave
    BY <2>1 DEF Library!Leave
  <2> QED
    BY <2>2 DEF Library!Next
<1>9. CASE HandleOther
  BY <1>1, <1>9 DEF HandleOther, client
<1>10. CASE UNCHANGED vars
  BY <1>1, <1>10 DEF vars
<1> QED
  BY <1>2, <1>3, <1>4, <1>5, <1>6, <1>7, <1>8, <1>9, <1>10 DEF Next, Handle

\* With users that log out before they log in again, the client with its cookie
\* and token implements the session its user sees, over any number of sessions.
THEOREM ClientIsSession == Careful => (Spec => ImplementsSession)
<1> SUFFICES ASSUME Careful PROVE Spec => ImplementsSession
  OBVIOUS
<1>1. IInv /\ [Next]_vars => IInv'
  BY INext
<1> QED
  BY <1>1, IInit, SessionInit, SessionNext, PTL DEF Spec, ImplementsSession, Library!Spec
-----------------------------------------------------------------------------
(* What a service reads in the requests of requests.c *)

\* compute_message() writes the line behind the message, and an end of line.
LEMMA MessageUnits ==
    ASSUME NEW message \in Seq(Units), NEW line \in Seq(Units)
    PROVE  /\ compute_message(message, line) \in Seq(Units)
           /\ Len(compute_message(message, line)) = Len(message) + Len(line) + 1
           /\ \A i \in 1..Len(message) : compute_message(message, line)[i] = message[i]
           /\ \A i \in 1..Len(line) :
                compute_message(message, line)[Len(message) + i] = line[i]
           /\ compute_message(message, line)[Len(message) + Len(line) + 1] = Eol
<1> DEFINE m == compute_message(message, line)
           s == message \o line
           e == <<Eol>>
<1>1. e \in Seq(Units) /\ Len(e) = 1 /\ e[1] = Eol
  BY CommonUnits DEF Common
<1>2. s \in Seq(Units) /\ Len(message) \in Nat /\ Len(line) \in Nat
  OBVIOUS
<1>3. /\ Len(s) = Len(message) + Len(line)
      /\ \A i \in 1..Len(message) + Len(line) :
           s[i] = IF i <= Len(message) THEN message[i] ELSE line[i - Len(message)]
  BY ConcatProperties
<1>4. m = s \o e
  BY DEF compute_message
<1> HIDE DEF s, m, e
<1>5. /\ m \in Seq(Units) /\ Len(m) = Len(s) + Len(e)
      /\ \A i \in 1..Len(s) + Len(e) : m[i] = IF i <= Len(s) THEN s[i] ELSE e[i - Len(s)]
  BY <1>1, <1>2, <1>4, ConcatProperties
<1>6. ASSUME NEW i \in 1..Len(message)
      PROVE  m[i] = message[i]
  BY <1>1, <1>2, <1>3, <1>5
<1>7. ASSUME NEW i \in 1..Len(line)
      PROVE  m[Len(message) + i] = line[i]
  <2>1. /\ Len(message) + i \in 1..Len(s) /\ ~(Len(message) + i <= Len(message))
        /\ Len(message) + i - Len(message) = i
    BY <1>2, <1>3
  <2>2. Len(message) + i \in 1..Len(s) + Len(e)
    BY <1>1, <1>2, <1>3, <2>1
  <2>3. m[Len(message) + i] = s[Len(message) + i]
    BY <1>5, <2>1, <2>2
  <2> QED
    BY <1>2, <1>3, <2>1, <2>3
<1>8. m[Len(message) + Len(line) + 1] = Eol
  <2>1. Len(s) + 1 \in 1..Len(s) + Len(e) /\ ~(Len(s) + 1 <= Len(s)) /\ Len(s) + 1 - Len(s) = 1
    BY <1>1, <1>2, <1>3
  <2>2. m[Len(s) + 1] = e[Len(s) + 1 - Len(s)]
    BY <1>5, <2>1
  <2> QED
    BY <1>1, <1>3, <2>1, <2>2
<1>9. Len(m) = Len(message) + Len(line) + 1
  BY <1>1, <1>3, <1>5
<1> QED
  BY <1>5, <1>6, <1>7, <1>8, <1>9 DEF m

\* A line of no unit, of one and of two, after n units.
LEMMA BlankUnits ==
    ASSUME NEW message \in Seq(Units), NEW l \in Seq(Units), Len(l) = 0
    PROVE  /\ compute_message(message, l) \in Seq(Units)
           /\ Len(compute_message(message, l)) = Len(message) + 1
           /\ \A i \in 1..Len(message) : compute_message(message, l)[i] = message[i]
           /\ compute_message(message, l)[Len(message) + 1] = Eol
<1> DEFINE m == compute_message(message, l)
<1>1. /\ Len(m) = Len(message) + Len(l) + 1 /\ m[Len(message) + Len(l) + 1] = Eol
  BY MessageUnits
<1>2. ASSUME NEW i \in 1..Len(l)
      PROVE  m[Len(message) + i] = l[i]
  BY MessageUnits
<1>3. m \in Seq(Units) /\ \A i \in 1..Len(message) : m[i] = message[i]
  BY MessageUnits
<1> HIDE DEF m
<1>4. /\ Len(m) = Len(message) + 1 /\ m[Len(message) + 1] = Eol
  BY <1>1, <1>2
<1> QED
  BY <1>3, <1>4 DEF m

LEMMA UnitUnits ==
    ASSUME NEW message \in Seq(Units), NEW l \in Seq(Units), Len(l) = 1
    PROVE  /\ compute_message(message, l) \in Seq(Units)
           /\ Len(compute_message(message, l)) = Len(message) + 2
           /\ \A i \in 1..Len(message) : compute_message(message, l)[i] = message[i]
           /\ compute_message(message, l)[Len(message) + 1] = l[1]
           /\ compute_message(message, l)[Len(message) + 2] = Eol
<1> DEFINE m == compute_message(message, l)
<1>1. /\ Len(m) = Len(message) + Len(l) + 1 /\ m[Len(message) + Len(l) + 1] = Eol
  BY MessageUnits
<1>2. ASSUME NEW i \in 1..Len(l)
      PROVE  m[Len(message) + i] = l[i]
  BY MessageUnits
<1>3. m \in Seq(Units) /\ \A i \in 1..Len(message) : m[i] = message[i]
  BY MessageUnits
<1> HIDE DEF m
<1>4. /\ Len(m) = Len(message) + 2 /\ m[Len(message) + 2] = Eol
      /\ m[Len(message) + 1] = l[1]
  BY <1>1, <1>2
<1> QED
  BY <1>3, <1>4 DEF m

LEMMA PairUnits ==
    ASSUME NEW message \in Seq(Units), NEW l \in Seq(Units), Len(l) = 2
    PROVE  /\ compute_message(message, l) \in Seq(Units)
           /\ Len(compute_message(message, l)) = Len(message) + 3
           /\ \A i \in 1..Len(message) : compute_message(message, l)[i] = message[i]
           /\ compute_message(message, l)[Len(message) + 1] = l[1]
           /\ compute_message(message, l)[Len(message) + 2] = l[2]
           /\ compute_message(message, l)[Len(message) + 3] = Eol
<1> DEFINE m == compute_message(message, l)
<1>1. /\ Len(m) = Len(message) + Len(l) + 1 /\ m[Len(message) + Len(l) + 1] = Eol
  BY MessageUnits
<1>2. ASSUME NEW i \in 1..Len(l)
      PROVE  m[Len(message) + i] = l[i]
  BY MessageUnits
<1>3. m \in Seq(Units) /\ \A i \in 1..Len(message) : m[i] = message[i]
  BY MessageUnits
<1> HIDE DEF m
<1>4. /\ Len(m) = Len(message) + 3 /\ m[Len(message) + 3] = Eol
      /\ m[Len(message) + 1] = l[1]
      /\ m[Len(message) + 2] = l[2]
  BY <1>1, <1>2
<1> QED
  BY <1>3, <1>4 DEF m

LEMMA KindOf ==
    /\ \A kind, string : Text(kind, string).kind = kind /\ Text(kind, string).text = string
    /\ \A kind : Word(kind).kind = kind
    /\ Eol.kind = "\r\n" /\ Lf.kind = "\n" /\ EndsLine(Eol) /\ EndsLine(Lf)
  BY DEF Text, Word, Eol, Lf, EndsLine

\* The header ends with the first empty line.
LEMMA EndOfHeaderAt ==
    ASSUME NEW m \in Seq(Units), NEW k \in 2..Len(m),
           EndsLine(m[k - 1]), EndsLine(m[k]),
           \A i \in 2..k - 1 : ~(EndsLine(m[i - 1]) /\ EndsLine(m[i]))
    PROVE  EndOfHeader(m) = k
<1> DEFINE blank == {i \in 2..Len(m) : EndsLine(m[i - 1]) /\ EndsLine(m[i])}
<1>1. Len(m) \in Nat
  OBVIOUS
<1>2. k \in blank /\ blank \in SUBSET Nat /\ \A i \in blank : ~(i < k) /\ i \in Nat
  BY <1>1
<1>3. EndOfHeader(m) = Min(blank)
  BY <1>2 DEF EndOfHeader
<1> HIDE DEF blank
<1>4. Min(blank) \in blank /\ Min(blank) <= k
  BY <1>2, MinIsLeast
<1>5. ~(Min(blank) < k) /\ Min(blank) \in Nat /\ k \in Nat
  BY <1>1, <1>2, <1>4
<1>6. Min(blank) = k
  BY <1>4, <1>5
<1> QED
  BY <1>3, <1>6

LEMMA FieldAt ==
    ASSUME NEW m, NEW n \in Nat, EndOfHeader(m) = n, NEW kind, NEW k \in 1..n,
           \A i \in 1..n : m[i].kind = kind <=> i = k
    PROVE  Field(m, kind) = m[k].text
<1> DEFINE at == {i \in 1..n : m[i].kind = kind}
<1>1. at = {k} /\ at \in SUBSET Nat
  OBVIOUS
<1>2. Field(m, kind) = m[Min(at)].text
  BY <1>1 DEF Field
<1> HIDE DEF at
<1>3. Min(at) = k
  BY <1>1, MinIsLeast
<1> QED
  BY <1>2, <1>3

LEMMA FieldMissing ==
    ASSUME NEW m, NEW n \in Nat, EndOfHeader(m) = n, NEW kind,
           \A i \in 1..n : m[i].kind # kind
    PROVE  Field(m, kind) = NULL
  BY DEF Field

\* The payload of length one is the unit after the header.
LEMMA BodyAt ==
    ASSUME NEW m \in Seq(Units), NEW n \in Nat, EndOfHeader(m) = n, n < Len(m),
           Field(m, "Content-Length") = << 1 >>
    PROVE  BodyOf(m) = <<m[n + 1]>>
<1>1. <<1>> # NULL /\ <<1>>[1] = 1
  <2>1. <<1>> \in Strings
    BY DEF Strings
  <2> QED
    BY <2>1, HttpAssumption
<1>2. n + 1 \in 1..Len(m) /\ Len(m) \in Nat
  OBVIOUS
<1>3. Min({n + 1, Len(m)}) = n + 1
  <2>1. {n + 1, Len(m)} \in SUBSET Nat /\ {n + 1, Len(m)} # {}
    BY <1>2
  <2>2. /\ Min({n + 1, Len(m)}) \in {n + 1, Len(m)}
        /\ Min({n + 1, Len(m)}) <= n + 1
    BY <2>1, MinIsLeast
  <2> QED
    BY <1>2, <2>2
<1>4. BodyOf(m) = SubSeq(m, n + 1, n + 1)
  <2>1. BodyOf(m) = SubSeq(m, n + 1, Min({n + <<1>>[1], Len(m)}))
    BY <1>1 DEF BodyOf
  <2> QED
    BY <1>1, <1>3, <2>1
<1>5. m[n + 1] \in Units
  BY <1>2, ElementOfSeq
<1>6. SubSeq(m, n + 1, n + 1) = <<m[n + 1]>>
  <2> DEFINE s == SubSeq(m, n + 1, n + 1)
             u == <<m[n + 1]>>
  <2>1. \A i \in n + 1..n + 1 : m[i] \in Units
    BY <1>5
  <2>2. /\ s \in Seq(Units)
        /\ Len(s) = (IF n + 1 <= n + 1 THEN n + 1 - (n + 1) + 1 ELSE 0)
        /\ \A i \in 1..n + 1 - (n + 1) + 1 : s[i] = m[n + 1 + i - 1]
    BY <1>2, <2>1, SubSeqProperties
  <2>3. Len(s) = 1 /\ s[1] = m[n + 1]
    <3>1. n + 1 - (n + 1) + 1 = 1 /\ n + 1 + 1 - 1 = n + 1 /\ n + 1 <= n + 1
      OBVIOUS
    <3> HIDE DEF s
    <3> QED
      BY <2>2, <3>1
  <2>4. u \in Seq(Units) /\ Len(u) = 1 /\ u[1] = m[n + 1]
    BY <1>5
  <2>5. Len(s) = Len(u) /\ \A i \in 1..Len(s) : s[i] = u[i]
    <3> HIDE DEF s, u
    <3> QED
      BY <2>3, <2>4
  <2> HIDE DEF s, u
  <2>6. s = u
    BY <2>2, <2>4, <2>5, SeqEqual
  <2> QED
    BY <2>6 DEF s, u
<1> QED
  BY <1>4, <1>6

LEMMA NoBody ==
    ASSUME NEW m, Field(m, "Content-Length") = NULL
    PROVE  BodyOf(m) = <<>>
  BY DEF BodyOf

LEMMA UrlUnits ==
    ASSUME NEW url \in Urls
    PROVE  Word(url) \in Units /\ ~EndsLine(Word(url))
           /\ url \notin {"Cookie", "Authorization", "Content-Length"}
<1>1. Word(url) \in Units /\ Word(url).kind = url
  BY WordOf DEF Kinds, Urls
<1> QED
  BY <1>1, KindOf DEF EndsLine, Urls

\* The nine units of a GET; the header ends with the LF and the CR LF after it.
LEMMA GetReads ==
    ASSUME NEW url \in Urls, NEW c \in Strings, NEW t \in Strings \cup {NULL}
    PROVE  /\ Field(compute_get_request(url, c, t), "Cookie") = (IF t = NULL THEN c ELSE NULL)
           /\ Field(compute_get_request(url, c, t), "Authorization")
                = (IF t = NULL THEN NULL ELSE t)
           /\ BodyOf(compute_get_request(url, c, t)) = <<>>
           /\ \E i \in 1..Len(compute_get_request(url, c, t)) :
                compute_get_request(url, c, t)[i].kind = url
<1> DEFINE cred == Credential(c, t)
           line == compute_message(<<>>, <<Word("GET"), Word(url)>>)
           host == compute_message(line, <<Word("Host")>>)
           named == compute_message(host, <<cred, Lf>>)
           m == compute_message(named, <<>>)
<1>1. /\ cred \in Units /\ ~EndsLine(cred)
      /\ cred.kind = (IF t = NULL THEN "Cookie" ELSE "Authorization")
      /\ cred.text = (IF t = NULL THEN c ELSE t)
  <2>1. /\ Text("Cookie", c) \in Units /\ Text("Cookie", c).kind = "Cookie"
        /\ Text("Cookie", c).text = c /\ ~EndsLine(Text("Cookie", c))
    <3>1. Text("Cookie", c) \in Units
      BY UnitOf DEF Kinds
    <3>2. ~EndsLine(Text("Cookie", c))
      BY KindOf DEF EndsLine
    <3> QED
      BY <3>1, <3>2, KindOf
  <2>2. ASSUME t # NULL
        PROVE  /\ Text("Authorization", t) \in Units
               /\ Text("Authorization", t).kind = "Authorization"
               /\ Text("Authorization", t).text = t
               /\ ~EndsLine(Text("Authorization", t))
    <3>1. Text("Authorization", t) \in Units
      <4>1. t \in Strings
        BY <2>2
      <4> QED
        BY <4>1, UnitOf DEF Kinds
    <3>2. ~EndsLine(Text("Authorization", t))
      BY KindOf DEF EndsLine
    <3> QED
      BY <3>1, <3>2, KindOf
  <2> QED
    BY <2>1, <2>2 DEF Credential
<1>2. /\ Word("GET") \in Units /\ ~EndsLine(Word("GET"))
      /\ Word("Host") \in Units /\ ~EndsLine(Word("Host"))
      /\ Lf \in Units
  BY WordOf, CommonUnits, KindOf DEF Common, Kinds, Methods, EndsLine
<1>3. compute_get_request(url, c, t) = m
  BY DEF compute_get_request, Credential
<1> HIDE DEF cred
<1>4. /\ line \in Seq(Units) /\ Len(line) = 3
      /\ line[1] = Word("GET") /\ line[2] = Word(url) /\ line[3] = Eol
  <2> DEFINE e == <<>>
             l == <<Word("GET"), Word(url)>>
  <2>1. e \in Seq(Units) /\ Len(e) = 0 /\ 0 \in Nat
    BY EmptySeq
  <2>2. l \in Seq(Units) /\ Len(l) = 2 /\ l[1] = Word("GET") /\ l[2] = Word(url)
    BY <1>2, UrlUnits
  <2>3. line = compute_message(e, l)
    OBVIOUS
  <2> HIDE DEF e, l, line
  <2>9. /\ line \in Seq(Units) /\ Len(line) = Len(e) + 3
        /\ \A i \in 1..Len(e) : line[i] = e[i]
        /\ line[Len(e) + 1] = l[1]
        /\ line[Len(e) + 2] = l[2]
        /\ line[Len(e) + 3] = Eol
    BY <2>1, <2>2, <2>3, PairUnits, Zenon
  <2> QED
    BY <2>1, <2>2, <2>9
<1> HIDE DEF line
<1>5. /\ host \in Seq(Units) /\ Len(host) = 5 /\ (\A i \in 1..3 : host[i] = line[i])
      /\ host[4] = Word("Host") /\ host[5] = Eol
  <2> DEFINE l == <<Word("Host")>>
  <2>1. l \in Seq(Units) /\ Len(l) = 1 /\ l[1] = Word("Host")
    BY <1>2
  <2>2. host = compute_message(line, l)
    OBVIOUS
  <2> HIDE DEF l, host
  <2>9. /\ host \in Seq(Units) /\ Len(host) = Len(line) + 2
        /\ \A i \in 1..Len(line) : host[i] = line[i]
        /\ host[Len(line) + 1] = l[1]
        /\ host[Len(line) + 2] = Eol
    BY <1>4, <2>1, <2>2, UnitUnits, Zenon
  <2> QED
    BY <1>4, <2>1, <2>9
<1> HIDE DEF host
<1>6. /\ named \in Seq(Units) /\ Len(named) = 8 /\ (\A i \in 1..5 : named[i] = host[i])
      /\ named[6] = cred /\ named[7] = Lf /\ named[8] = Eol
  <2> DEFINE l == <<cred, Lf>>
  <2>1. l \in Seq(Units) /\ Len(l) = 2 /\ l[1] = cred /\ l[2] = Lf
    BY <1>1, <1>2
  <2>2. named = compute_message(host, l)
    OBVIOUS
  <2> HIDE DEF l, named
  <2>9. /\ named \in Seq(Units) /\ Len(named) = Len(host) + 3
        /\ \A i \in 1..Len(host) : named[i] = host[i]
        /\ named[Len(host) + 1] = l[1]
        /\ named[Len(host) + 2] = l[2]
        /\ named[Len(host) + 3] = Eol
    BY <1>5, <2>1, <2>2, PairUnits, Zenon
  <2> QED
    BY <1>5, <2>1, <2>9
<1> HIDE DEF named
<1>7. m \in Seq(Units) /\ Len(m) = 9 /\ (\A i \in 1..8 : m[i] = named[i]) /\ m[9] = Eol
  <2> DEFINE l == <<>>
  <2>1. l \in Seq(Units) /\ Len(l) = 0
    BY EmptySeq
  <2>2. m = compute_message(named, l)
    OBVIOUS
  <2> HIDE DEF l, m
  <2>9. /\ m \in Seq(Units) /\ Len(m) = Len(named) + 1
        /\ \A i \in 1..Len(named) : m[i] = named[i]
        /\ m[Len(named) + 1] = Eol
    BY <1>6, <2>1, <2>2, BlankUnits, Zenon
  <2> QED
    BY <1>6, <2>1, <2>9
<1> HIDE DEF m
<1>8. /\ m[1] = Word("GET") /\ m[2] = Word(url) /\ m[3] = Eol /\ m[4] = Word("Host")
      /\ m[5] = Eol /\ m[6] = cred /\ m[7] = Lf /\ m[8] = Eol
  BY <1>4, <1>5, <1>6, <1>7
<1>9. EndOfHeader(m) = 8
  <2>1. EndsLine(m[7]) /\ EndsLine(m[8])
    BY <1>8, KindOf
  <2>2. ~EndsLine(m[1]) /\ ~EndsLine(m[2]) /\ ~EndsLine(m[4]) /\ ~EndsLine(m[6])
    BY <1>1, <1>2, <1>8, UrlUnits
  <2>3. ASSUME NEW i \in 2..7
        PROVE  ~(EndsLine(m[i - 1]) /\ EndsLine(m[i]))
    <3>1. i = 2 \/ i = 3 \/ i = 4 \/ i = 5 \/ i = 6 \/ i = 7
      OBVIOUS
    <3> QED
      BY <2>2, <3>1
  <2>4. 8 \in 2..Len(m) /\ 8 - 1 = 7
    BY <1>7
  <2> QED
    BY <1>7, <2>1, <2>3, <2>4, EndOfHeaderAt
<1>10. /\ m[1].kind = "GET" /\ m[2].kind = url /\ m[3].kind = "\r\n" /\ m[4].kind = "Host"
       /\ m[5].kind = "\r\n" /\ m[6].kind = cred.kind /\ m[7].kind = "\n"
       /\ m[8].kind = "\r\n"
  BY <1>8, KindOf
<1>11. \A i \in 1..8 : i = 1 \/ i = 2 \/ i = 3 \/ i = 4 \/ i = 5 \/ i = 6 \/ i = 7 \/ i = 8
  OBVIOUS
<1>12. ASSUME NEW kind \in {"Cookie", "Authorization", "Content-Length"}, NEW i \in 1..8
       PROVE  m[i].kind = kind <=> i = 6 /\ cred.kind = kind
  BY <1>10, <1>11, UrlUnits
<1>13. Field(m, "Content-Length") = NULL
  <2>1. \A i \in 1..8 : m[i].kind # "Content-Length"
    BY <1>1, <1>12
  <2> QED
    BY <1>9, <2>1, FieldMissing
<1>14. ASSUME NEW kind \in {"Cookie", "Authorization"}
       PROVE  Field(m, kind) = IF cred.kind = kind THEN cred.text ELSE NULL
  <2>1. CASE cred.kind = kind
    <3>1. \A i \in 1..8 : m[i].kind = kind <=> i = 6
      BY <1>12, <2>1
    <3> QED
      BY <1>8, <1>9, <2>1, <3>1, FieldAt
  <2>2. CASE cred.kind # kind
    <3>1. \A i \in 1..8 : m[i].kind # kind
      BY <1>12, <2>2
    <3> QED
      BY <1>9, <2>2, <3>1, FieldMissing
  <2> QED
    BY <2>1, <2>2
<1>15. \E i \in 1..Len(m) : m[i].kind = url
  BY <1>7, <1>10
<1> QED
  BY <1>1, <1>3, <1>13, <1>14, <1>15, NoBody

\* The nine units every POST begins with.
LEMMA PostHeadReads ==
    ASSUME NEW url \in Urls
    PROVE  /\ PostHead(url) \in Seq(Units) /\ Len(PostHead(url)) = 9
           /\ PostHead(url)[1] = Word("POST") /\ PostHead(url)[2] = Word(url)
           /\ PostHead(url)[3] = Eol /\ PostHead(url)[4] = Word("Host")
           /\ PostHead(url)[5] = Eol /\ PostHead(url)[6] = Word("Content-Type")
           /\ PostHead(url)[7] = Eol /\ PostHead(url)[8] = Text("Content-Length", << 1 >>)
           /\ PostHead(url)[9] = Eol
<1> DEFINE line == compute_message(<<>>, <<Word("POST"), Word(url)>>)
           host == compute_message(line, <<Word("Host")>>)
           type == compute_message(host, <<Word("Content-Type")>>)
           m == compute_message(type, <<Text("Content-Length", <<1>>)>>)
<1>1. /\ Word("POST") \in Units /\ Word("Host") \in Units /\ Word("Content-Type") \in Units
      /\ Text("Content-Length", <<1>>) \in Units
  BY WordOf, CommonUnits DEF Common, Kinds, Methods
<1>2. PostHead(url) = m
  BY DEF PostHead
<1>3. /\ line \in Seq(Units) /\ Len(line) = 3
      /\ line[1] = Word("POST") /\ line[2] = Word(url) /\ line[3] = Eol
  <2> DEFINE e == <<>>
             l == <<Word("POST"), Word(url)>>
  <2>1. e \in Seq(Units) /\ Len(e) = 0
    BY EmptySeq
  <2>2. l \in Seq(Units) /\ Len(l) = 2 /\ l[1] = Word("POST") /\ l[2] = Word(url)
    BY <1>1, UrlUnits
  <2>3. line = compute_message(e, l)
    OBVIOUS
  <2> HIDE DEF e, l, line
  <2>4. /\ line \in Seq(Units) /\ Len(line) = Len(e) + 3
        /\ \A i \in 1..Len(e) : line[i] = e[i]
        /\ line[Len(e) + 1] = l[1]
        /\ line[Len(e) + 2] = l[2]
        /\ line[Len(e) + 3] = Eol
    BY <2>1, <2>2, <2>3, PairUnits, Zenon
  <2> QED
    BY <2>1, <2>2, <2>4
<1> HIDE DEF line
<1>4. /\ host \in Seq(Units) /\ Len(host) = 5
      /\ (\A i \in 1..3 : host[i] = line[i])
      /\ host[4] = Word("Host") /\ host[5] = Eol
  <2> DEFINE l == <<Word("Host")>>
  <2>2. l \in Seq(Units) /\ Len(l) = 1 /\ l[1] = Word("Host")
    BY <1>1
  <2>3. host = compute_message(line, l)
    OBVIOUS
  <2> HIDE DEF l, host
  <2>4. /\ host \in Seq(Units) /\ Len(host) = Len(line) + 2
        /\ \A i \in 1..Len(line) : host[i] = line[i]
        /\ host[Len(line) + 1] = l[1]
        /\ host[Len(line) + 2] = Eol
    BY <1>3, <2>2, <2>3, UnitUnits, Zenon
  <2> QED
    BY <1>3, <2>2, <2>4
<1> HIDE DEF host
<1>5. /\ type \in Seq(Units) /\ Len(type) = 7
      /\ (\A i \in 1..5 : type[i] = host[i])
      /\ type[6] = Word("Content-Type") /\ type[7] = Eol
  <2> DEFINE l == <<Word("Content-Type")>>
  <2>2. l \in Seq(Units) /\ Len(l) = 1 /\ l[1] = Word("Content-Type")
    BY <1>1
  <2>3. type = compute_message(host, l)
    OBVIOUS
  <2> HIDE DEF l, type
  <2>4. /\ type \in Seq(Units) /\ Len(type) = Len(host) + 2
        /\ \A i \in 1..Len(host) : type[i] = host[i]
        /\ type[Len(host) + 1] = l[1]
        /\ type[Len(host) + 2] = Eol
    BY <1>4, <2>2, <2>3, UnitUnits, Zenon
  <2> QED
    BY <1>4, <2>2, <2>4
<1> HIDE DEF type
<1>6. /\ m \in Seq(Units) /\ Len(m) = 9
      /\ (\A i \in 1..7 : m[i] = type[i])
      /\ m[8] = Text("Content-Length", <<1>>) /\ m[9] = Eol
  <2> DEFINE l == <<Text("Content-Length", <<1>>)>>
  <2>2. l \in Seq(Units) /\ Len(l) = 1 /\ l[1] = Text("Content-Length", <<1>>)
    BY <1>1
  <2>3. m = compute_message(type, l)
    OBVIOUS
  <2> HIDE DEF l, m
  <2>4. /\ m \in Seq(Units) /\ Len(m) = Len(type) + 2
        /\ \A i \in 1..Len(type) : m[i] = type[i]
        /\ m[Len(type) + 1] = l[1]
        /\ m[Len(type) + 2] = Eol
    BY <1>5, <2>2, <2>3, UnitUnits, Zenon
  <2> QED
    BY <1>5, <2>2, <2>4
<1> HIDE DEF m
<1> QED
  BY <1>2, <1>3, <1>4, <1>5, <1>6

\* A POST without a token: the header ends with the LF before the payload.
LEMMA PostPlainReads ==
    ASSUME NEW url \in Urls, NEW payload \in {make_payload, make_payload_book}
    PROVE  /\ Field(compute_post_request(url, NULL, payload), "Cookie") = NULL
           /\ Field(compute_post_request(url, NULL, payload), "Authorization") = NULL
           /\ BodyOf(compute_post_request(url, NULL, payload)) = <<payload>>
<1> DEFINE head == PostHead(url)
           parted == compute_message(head, <<Lf, payload>>)
           m == compute_message(parted, <<>>)
<1>1. /\ payload \in Units /\ payload.kind \in {"account", "volume"} /\ ~EndsLine(payload)
      /\ Lf \in Units
  <2>1. /\ Word("account") \in Units /\ Word("volume") \in Units
        /\ Word("account").kind = "account" /\ Word("volume").kind = "volume"
    BY WordOf DEF Kinds
  <2> QED
    BY <2>1, CommonUnits, KindOf DEF make_payload, make_payload_book, Common, EndsLine
<1>2. TRUE
  OBVIOUS
<1>3. compute_post_request(url, NULL, payload) = m
  BY <1>2 DEF compute_post_request
<1>4. /\ head \in Seq(Units) /\ Len(head) = 9
      /\ head[1] = Word("POST") /\ head[2] = Word(url) /\ head[3] = Eol
      /\ head[4] = Word("Host") /\ head[5] = Eol /\ head[6] = Word("Content-Type")
      /\ head[7] = Eol /\ head[8] = Text("Content-Length", <<1>>) /\ head[9] = Eol
  BY PostHeadReads
<1> HIDE DEF head
<1>5. /\ parted \in Seq(Units) /\ Len(parted) = 12
      /\ (\A i \in 1..9 : parted[i] = head[i])
      /\ parted[10] = Lf /\ parted[11] = payload /\ parted[12] = Eol
  <2> DEFINE l == <<Lf, payload>>
  <2>2. l \in Seq(Units) /\ Len(l) = 2 /\ l[1] = Lf /\ l[2] = payload
    BY <1>1
  <2>3. parted = compute_message(head, l)
    OBVIOUS
  <2> HIDE DEF l, parted
  <2>4. /\ parted \in Seq(Units) /\ Len(parted) = Len(head) + 3
        /\ \A i \in 1..Len(head) : parted[i] = head[i]
        /\ parted[Len(head) + 1] = l[1]
        /\ parted[Len(head) + 2] = l[2]
        /\ parted[Len(head) + 3] = Eol
    BY <1>4, <2>2, <2>3, PairUnits, Zenon
  <2> QED
    BY <1>4, <2>2, <2>4
<1> HIDE DEF parted
<1>6. /\ m \in Seq(Units) /\ Len(m) = 13
      /\ (\A i \in 1..12 : m[i] = parted[i])
      /\ m[13] = Eol
  <2> DEFINE l == <<>>
  <2>2. l \in Seq(Units) /\ Len(l) = 0
    BY EmptySeq
  <2>3. m = compute_message(parted, l)
    OBVIOUS
  <2> HIDE DEF l, m
  <2>4. /\ m \in Seq(Units) /\ Len(m) = Len(parted) + 1
        /\ \A i \in 1..Len(parted) : m[i] = parted[i]
        /\ m[Len(parted) + 1] = Eol
    BY <1>5, <2>2, <2>3, BlankUnits, Zenon
  <2> QED
    BY <1>5, <2>2, <2>4
<1> HIDE DEF m
<1>7. /\ m[1] = Word("POST") /\ m[2] = Word(url) /\ m[3] = Eol
      /\ m[4] = Word("Host") /\ m[5] = Eol /\ m[6] = Word("Content-Type")
      /\ m[7] = Eol /\ m[8] = Text("Content-Length", <<1>>) /\ m[9] = Eol
      /\ m[10] = Lf /\ m[11] = payload
  BY <1>4, <1>5, <1>6
<1>8. EndOfHeader(m) = 10
  <2>1. EndsLine(m[9]) /\ EndsLine(m[10])
    BY <1>7, KindOf
  <2>2. /\ ~EndsLine(m[1]) /\ ~EndsLine(m[2]) /\ ~EndsLine(m[4])
        /\ ~EndsLine(m[6]) /\ ~EndsLine(m[8])
    <3>1. /\ ~EndsLine(Word("POST")) /\ ~EndsLine(Word("Host"))
          /\ ~EndsLine(Word("Content-Type")) /\ ~EndsLine(Text("Content-Length", <<1>>))
      BY KindOf DEF EndsLine
    <3> QED
      BY <3>1, <1>2, <1>7, UrlUnits
  <2>3. ASSUME NEW i \in 2..9
        PROVE  ~(EndsLine(m[i - 1]) /\ EndsLine(m[i]))
    <3>1. i = 2 \/ i = 3 \/ i = 4 \/ i = 5 \/ i = 6 \/ i = 7 \/ i = 8 \/ i = 9
      OBVIOUS
    <3> QED
      BY <2>2, <3>1
  <2>4. 10 \in 2..Len(m) /\ 10 - 1 = 9
    BY <1>6
  <2> QED
    BY <1>6, <2>1, <2>3, <2>4, EndOfHeaderAt
<1>9. /\ m[1].kind = "POST" /\ m[2].kind = url /\ m[3].kind = "\r\n" /\ m[4].kind = "Host"
      /\ m[5].kind = "\r\n" /\ m[6].kind = "Content-Type" /\ m[7].kind = "\r\n"
      /\ m[8].kind = "Content-Length"
      /\ m[9].kind = "\r\n" /\ m[10].kind = "\n"
  BY <1>7, KindOf
<1>10. \A i \in 1..10 : i = 1 \/ i = 2 \/ i = 3 \/ i = 4 \/ i = 5 \/ i = 6 \/ i = 7 \/
      i = 8 \/ i = 9 \/ i = 10
  OBVIOUS
<1>11. Field(m, "Cookie") = NULL
  <2>1. \A i \in 1..10 : m[i].kind # "Cookie"
    BY <1>9, <1>10, UrlUnits
  <2> QED
    BY <1>8, <2>1, FieldMissing
<1>12. Field(m, "Authorization") = NULL
  <2>1. \A i \in 1..10 : m[i].kind # "Authorization"
    BY <1>9, <1>10, UrlUnits
  <2> QED
    BY <1>8, <2>1, FieldMissing
<1>13. Field(m, "Content-Length") = <<1>>
  <2>1. \A i \in 1..10 : m[i].kind = "Content-Length" <=> i = 8
    BY <1>9, <1>10, UrlUnits
  <2>2. Field(m, "Content-Length") = m[8].text
    BY <1>8, <2>1, FieldAt
  <2> QED
    BY <1>7, <2>2, KindOf
<1>14. BodyOf(m) = <<payload>>
  <2>1. 10 < Len(m) /\ 10 + 1 = 11
    BY <1>6
  <2>2. BodyOf(m) = <<m[10 + 1]>>
    BY <1>6, <1>8, <1>13, <2>1, BodyAt
  <2> QED
    BY <1>7, <2>1, <2>2
<1> QED
  BY <1>3, <1>11, <1>12, <1>14

\* A POST with a token, which is a line of the header.
LEMMA PostBearerReads ==
    ASSUME NEW url \in Urls, NEW t \in Strings,
           NEW payload \in {make_payload, make_payload_book}
    PROVE  /\ Field(compute_post_request(url, t, payload), "Cookie") = NULL
           /\ Field(compute_post_request(url, t, payload), "Authorization") = t
           /\ BodyOf(compute_post_request(url, t, payload)) = <<payload>>
<1> DEFINE head == PostHead(url)
           named == compute_message(head, <<Text("Authorization", t)>>)
           parted == compute_message(named, <<Lf, payload>>)
           m == compute_message(parted, <<>>)
<1>1. /\ payload \in Units /\ payload.kind \in {"account", "volume"} /\ ~EndsLine(payload)
      /\ Lf \in Units
  <2>1. /\ Word("account") \in Units /\ Word("volume") \in Units
        /\ Word("account").kind = "account" /\ Word("volume").kind = "volume"
    BY WordOf DEF Kinds
  <2> QED
    BY <2>1, CommonUnits, KindOf DEF make_payload, make_payload_book, Common, EndsLine
<1>2. /\ Text("Authorization", t) \in Units /\ t # NULL
      /\ Text("Authorization", t).kind = "Authorization"
      /\ Text("Authorization", t).text = t
      /\ ~EndsLine(Text("Authorization", t))
  <2>1. Text("Authorization", t) \in Units /\ t # NULL
    BY UnitOf, HttpAssumption DEF Kinds
  <2> QED
    BY <2>1, KindOf DEF EndsLine
<1>3. compute_post_request(url, t, payload) = m
  BY <1>2 DEF compute_post_request
<1>4. /\ head \in Seq(Units) /\ Len(head) = 9
      /\ head[1] = Word("POST") /\ head[2] = Word(url) /\ head[3] = Eol
      /\ head[4] = Word("Host") /\ head[5] = Eol /\ head[6] = Word("Content-Type")
      /\ head[7] = Eol /\ head[8] = Text("Content-Length", <<1>>) /\ head[9] = Eol
  BY PostHeadReads
<1> HIDE DEF head
<1>5. /\ named \in Seq(Units) /\ Len(named) = 11
      /\ (\A i \in 1..9 : named[i] = head[i])
      /\ named[10] = Text("Authorization", t) /\ named[11] = Eol
  <2> DEFINE l == <<Text("Authorization", t)>>
  <2>2. l \in Seq(Units) /\ Len(l) = 1 /\ l[1] = Text("Authorization", t)
    BY <1>2
  <2>3. named = compute_message(head, l)
    OBVIOUS
  <2> HIDE DEF l, named
  <2>4. /\ named \in Seq(Units) /\ Len(named) = Len(head) + 2
        /\ \A i \in 1..Len(head) : named[i] = head[i]
        /\ named[Len(head) + 1] = l[1]
        /\ named[Len(head) + 2] = Eol
    BY <1>4, <2>2, <2>3, UnitUnits, Zenon
  <2> QED
    BY <1>4, <2>2, <2>4
<1> HIDE DEF named
<1>6. /\ parted \in Seq(Units) /\ Len(parted) = 14
      /\ (\A i \in 1..11 : parted[i] = named[i])
      /\ parted[12] = Lf /\ parted[13] = payload /\ parted[14] = Eol
  <2> DEFINE l == <<Lf, payload>>
  <2>2. l \in Seq(Units) /\ Len(l) = 2 /\ l[1] = Lf /\ l[2] = payload
    BY <1>1
  <2>3. parted = compute_message(named, l)
    OBVIOUS
  <2> HIDE DEF l, parted
  <2>4. /\ parted \in Seq(Units) /\ Len(parted) = Len(named) + 3
        /\ \A i \in 1..Len(named) : parted[i] = named[i]
        /\ parted[Len(named) + 1] = l[1]
        /\ parted[Len(named) + 2] = l[2]
        /\ parted[Len(named) + 3] = Eol
    BY <1>5, <2>2, <2>3, PairUnits, Zenon
  <2> QED
    BY <1>5, <2>2, <2>4
<1> HIDE DEF parted
<1>7. /\ m \in Seq(Units) /\ Len(m) = 15
      /\ (\A i \in 1..14 : m[i] = parted[i])
      /\ m[15] = Eol
  <2> DEFINE l == <<>>
  <2>2. l \in Seq(Units) /\ Len(l) = 0
    BY EmptySeq
  <2>3. m = compute_message(parted, l)
    OBVIOUS
  <2> HIDE DEF l, m
  <2>4. /\ m \in Seq(Units) /\ Len(m) = Len(parted) + 1
        /\ \A i \in 1..Len(parted) : m[i] = parted[i]
        /\ m[Len(parted) + 1] = Eol
    BY <1>6, <2>2, <2>3, BlankUnits, Zenon
  <2> QED
    BY <1>6, <2>2, <2>4
<1> HIDE DEF m
<1>8. /\ m[1] = Word("POST") /\ m[2] = Word(url) /\ m[3] = Eol
      /\ m[4] = Word("Host") /\ m[5] = Eol /\ m[6] = Word("Content-Type")
      /\ m[7] = Eol /\ m[8] = Text("Content-Length", <<1>>) /\ m[9] = Eol
      /\ m[10] = Text("Authorization", t) /\ m[11] = Eol /\ m[12] = Lf
      /\ m[13] = payload
  BY <1>4, <1>5, <1>6, <1>7
<1>9. EndOfHeader(m) = 12
  <2>1. EndsLine(m[11]) /\ EndsLine(m[12])
    BY <1>8, KindOf
  <2>2. /\ ~EndsLine(m[1]) /\ ~EndsLine(m[2]) /\ ~EndsLine(m[4])
        /\ ~EndsLine(m[6]) /\ ~EndsLine(m[8]) /\ ~EndsLine(m[10])
    <3>1. /\ ~EndsLine(Word("POST")) /\ ~EndsLine(Word("Host"))
          /\ ~EndsLine(Word("Content-Type")) /\ ~EndsLine(Text("Content-Length", <<1>>))
      BY KindOf DEF EndsLine
    <3> QED
      BY <3>1, <1>2, <1>8, UrlUnits
  <2>3. ASSUME NEW i \in 2..11
        PROVE  ~(EndsLine(m[i - 1]) /\ EndsLine(m[i]))
    <3>1. i = 2 \/ i = 3 \/ i = 4 \/ i = 5 \/ i = 6 \/ i = 7 \/ i = 8 \/ i = 9 \/ i = 10 \/
          i = 11
      OBVIOUS
    <3> QED
      BY <2>2, <3>1
  <2>4. 12 \in 2..Len(m) /\ 12 - 1 = 11
    BY <1>7
  <2> QED
    BY <1>7, <2>1, <2>3, <2>4, EndOfHeaderAt
<1>10. /\ m[1].kind = "POST" /\ m[2].kind = url /\ m[3].kind = "\r\n" /\ m[4].kind = "Host"
      /\ m[5].kind = "\r\n" /\ m[6].kind = "Content-Type" /\ m[7].kind = "\r\n"
      /\ m[8].kind = "Content-Length"
      /\ m[9].kind = "\r\n" /\ m[10].kind = "Authorization" /\ m[11].kind = "\r\n"
      /\ m[12].kind = "\n"
  BY <1>8, KindOf
<1>11. \A i \in 1..12 : i = 1 \/ i = 2 \/ i = 3 \/ i = 4 \/ i = 5 \/ i = 6 \/ i = 7 \/
      i = 8 \/ i = 9 \/ i = 10 \/ i = 11 \/ i = 12
  OBVIOUS
<1>12. Field(m, "Cookie") = NULL
  <2>1. \A i \in 1..12 : m[i].kind # "Cookie"
    BY <1>10, <1>11, UrlUnits
  <2> QED
    BY <1>9, <2>1, FieldMissing
<1>13. Field(m, "Authorization") = t
  <2>1. \A i \in 1..12 : m[i].kind = "Authorization" <=> i = 10
    BY <1>10, <1>11, UrlUnits
  <2>2. Field(m, "Authorization") = m[10].text
    BY <1>9, <2>1, FieldAt
  <2> QED
    BY <1>2, <1>8, <2>2
<1>14. Field(m, "Content-Length") = <<1>>
  <2>1. \A i \in 1..12 : m[i].kind = "Content-Length" <=> i = 8
    BY <1>10, <1>11, UrlUnits
  <2>2. Field(m, "Content-Length") = m[8].text
    BY <1>9, <2>1, FieldAt
  <2> QED
    BY <1>8, <2>2, KindOf
<1>15. BodyOf(m) = <<payload>>
  <2>1. 12 < Len(m) /\ 12 + 1 = 13
    BY <1>7
  <2>2. BodyOf(m) = <<m[12 + 1]>>
    BY <1>7, <1>9, <1>14, <2>1, BodyAt
  <2> QED
    BY <1>8, <2>1, <2>2
<1> QED
  BY <1>3, <1>12, <1>13, <1>15

\* A DELETE with a token.
LEMMA DeleteReads ==
    ASSUME NEW url \in Urls, NEW t \in Strings
    PROVE  /\ Field(compute_delete_request(url, t), "Cookie") = NULL
           /\ Field(compute_delete_request(url, t), "Authorization") = t
           /\ BodyOf(compute_delete_request(url, t)) = <<>>
<1> DEFINE line == compute_message(<<>>, <<Word("DELETE"), Word(url)>>)
           host == compute_message(line, <<Word("Host")>>)
           named == compute_message(host, <<Text("Authorization", t)>>)
           m == compute_message(named, <<>>)
<1>1. Word("DELETE") \in Units /\ Word("Host") \in Units
  BY WordOf DEF Kinds, Methods
<1>2. /\ Text("Authorization", t) \in Units /\ t # NULL
      /\ Text("Authorization", t).kind = "Authorization"
      /\ Text("Authorization", t).text = t
      /\ ~EndsLine(Text("Authorization", t))
  <2>1. Text("Authorization", t) \in Units /\ t # NULL
    BY UnitOf, HttpAssumption DEF Kinds
  <2> QED
    BY <2>1, KindOf DEF EndsLine
<1>3. compute_delete_request(url, t) = m
  BY <1>2 DEF compute_delete_request
<1>4. /\ line \in Seq(Units) /\ Len(line) = 3
      /\ line[1] = Word("DELETE") /\ line[2] = Word(url) /\ line[3] = Eol
  <2> DEFINE e == <<>>
             l == <<Word("DELETE"), Word(url)>>
  <2>1. e \in Seq(Units) /\ Len(e) = 0
    BY EmptySeq
  <2>2. l \in Seq(Units) /\ Len(l) = 2 /\ l[1] = Word("DELETE") /\ l[2] = Word(url)
    BY <1>1, UrlUnits
  <2>3. line = compute_message(e, l)
    OBVIOUS
  <2> HIDE DEF e, l, line
  <2>4. /\ line \in Seq(Units) /\ Len(line) = Len(e) + 3
        /\ \A i \in 1..Len(e) : line[i] = e[i]
        /\ line[Len(e) + 1] = l[1]
        /\ line[Len(e) + 2] = l[2]
        /\ line[Len(e) + 3] = Eol
    BY <2>1, <2>2, <2>3, PairUnits, Zenon
  <2> QED
    BY <2>1, <2>2, <2>4
<1> HIDE DEF line
<1>5. /\ host \in Seq(Units) /\ Len(host) = 5
      /\ (\A i \in 1..3 : host[i] = line[i])
      /\ host[4] = Word("Host") /\ host[5] = Eol
  <2> DEFINE l == <<Word("Host")>>
  <2>2. l \in Seq(Units) /\ Len(l) = 1 /\ l[1] = Word("Host")
    BY <1>1
  <2>3. host = compute_message(line, l)
    OBVIOUS
  <2> HIDE DEF l, host
  <2>4. /\ host \in Seq(Units) /\ Len(host) = Len(line) + 2
        /\ \A i \in 1..Len(line) : host[i] = line[i]
        /\ host[Len(line) + 1] = l[1]
        /\ host[Len(line) + 2] = Eol
    BY <1>4, <2>2, <2>3, UnitUnits, Zenon
  <2> QED
    BY <1>4, <2>2, <2>4
<1> HIDE DEF host
<1>6. /\ named \in Seq(Units) /\ Len(named) = 7
      /\ (\A i \in 1..5 : named[i] = host[i])
      /\ named[6] = Text("Authorization", t) /\ named[7] = Eol
  <2> DEFINE l == <<Text("Authorization", t)>>
  <2>2. l \in Seq(Units) /\ Len(l) = 1 /\ l[1] = Text("Authorization", t)
    BY <1>2
  <2>3. named = compute_message(host, l)
    OBVIOUS
  <2> HIDE DEF l, named
  <2>4. /\ named \in Seq(Units) /\ Len(named) = Len(host) + 2
        /\ \A i \in 1..Len(host) : named[i] = host[i]
        /\ named[Len(host) + 1] = l[1]
        /\ named[Len(host) + 2] = Eol
    BY <1>5, <2>2, <2>3, UnitUnits, Zenon
  <2> QED
    BY <1>5, <2>2, <2>4
<1> HIDE DEF named
<1>7. /\ m \in Seq(Units) /\ Len(m) = 8
      /\ (\A i \in 1..7 : m[i] = named[i])
      /\ m[8] = Eol
  <2> DEFINE l == <<>>
  <2>2. l \in Seq(Units) /\ Len(l) = 0
    BY EmptySeq
  <2>3. m = compute_message(named, l)
    OBVIOUS
  <2> HIDE DEF l, m
  <2>4. /\ m \in Seq(Units) /\ Len(m) = Len(named) + 1
        /\ \A i \in 1..Len(named) : m[i] = named[i]
        /\ m[Len(named) + 1] = Eol
    BY <1>6, <2>2, <2>3, BlankUnits, Zenon
  <2> QED
    BY <1>6, <2>2, <2>4
<1> HIDE DEF m
<1>8. /\ m[1] = Word("DELETE") /\ m[2] = Word(url) /\ m[3] = Eol /\ m[4] = Word("Host")
      /\ m[5] = Eol /\ m[6] = Text("Authorization", t) /\ m[7] = Eol /\ m[8] = Eol
  BY <1>4, <1>5, <1>6, <1>7
<1>9. EndOfHeader(m) = 8
  <2>1. EndsLine(m[7]) /\ EndsLine(m[8])
    BY <1>8, KindOf
  <2>2. ~EndsLine(m[1]) /\ ~EndsLine(m[2]) /\ ~EndsLine(m[4]) /\ ~EndsLine(m[6])
    <3>1. ~EndsLine(Word("DELETE")) /\ ~EndsLine(Word("Host"))
      BY KindOf DEF EndsLine
    <3> QED
      BY <3>1, <1>2, <1>8, UrlUnits
  <2>3. ASSUME NEW i \in 2..7
        PROVE  ~(EndsLine(m[i - 1]) /\ EndsLine(m[i]))
    <3>1. i = 2 \/ i = 3 \/ i = 4 \/ i = 5 \/ i = 6 \/ i = 7
      OBVIOUS
    <3> QED
      BY <2>2, <3>1
  <2>4. 8 \in 2..Len(m) /\ 8 - 1 = 7
    BY <1>7
  <2> QED
    BY <1>7, <2>1, <2>3, <2>4, EndOfHeaderAt
<1>10. /\ m[1].kind = "DELETE" /\ m[2].kind = url /\ m[3].kind = "\r\n" /\ m[4].kind = "Host"
       /\ m[5].kind = "\r\n" /\ m[6].kind = "Authorization" /\ m[7].kind = "\r\n"
       /\ m[8].kind = "\r\n"
  BY <1>8, KindOf
<1>11. \A i \in 1..8 : i = 1 \/ i = 2 \/ i = 3 \/ i = 4 \/ i = 5 \/ i = 6 \/ i = 7 \/ i = 8
  OBVIOUS
<1>12. Field(m, "Cookie") = NULL /\ Field(m, "Content-Length") = NULL
  <2>1. \A i \in 1..8 : m[i].kind # "Cookie" /\ m[i].kind # "Content-Length"
    BY <1>10, <1>11, UrlUnits
  <2> QED
    BY <1>9, <2>1, FieldMissing
<1>13. Field(m, "Authorization") = t
  <2>1. \A i \in 1..8 : m[i].kind = "Authorization" <=> i = 6
    BY <1>10, <1>11, UrlUnits
  <2>2. Field(m, "Authorization") = m[6].text
    BY <1>9, <2>1, FieldAt
  <2> QED
    BY <1>2, <1>8, <2>2
<1> QED
  BY <1>3, <1>12, <1>13, NoBody
-----------------------------------------------------------------------------
(* What the service reads is what the client holds *)

\* A request on the way is the last thing written, and nothing has come back.
Quiet ==
    request # <<>> =>
      pc = "header" /\ buffer = <<>> /\ wire = <<>> /\ closed = FALSE /\ cut = FALSE

LEMMA AskUnderstood ==
    ASSUME NEW name, NEW message, Ask(name, message),
           Field(message, "Cookie")
             = (IF name \in {"enter_library", "logout"} THEN cookie ELSE NULL),
           Field(message, "Authorization")
             = (IF name \in {"get_books", "get_book", "add_book", "delete_book"}
                THEN token ELSE NULL),
           BodyOf(message) = (CASE name \in {"register", "login"} -> <<make_payload>>
                                [] name = "add_book" -> <<make_payload_book>>
                                [] OTHER -> <<>>)
    PROVE  Understood'
<1>1. request' = message /\ command' = name /\ cookie' = cookie /\ token' = token
  BY DEF Ask
<1> QED
  BY <1>1 DEF Understood, ReadsCookie, ReadsToken, Posted

LEMMA CommandUnderstood ==
    ASSUME TypeOK, Understood, Command
    PROVE  Understood'
<1>1. cookie \in Strings /\ token \in Strings /\ token # NULL
  BY HttpAssumption DEF TypeOK
<1>2. Urls = {"register", "login", "access", "books", "book", "logout"}
  BY DEF Urls
<1>3. CASE Register
  <2> DEFINE m == compute_post_request("register", NULL, make_payload)
  <2>1. Field(m, "Cookie") = NULL /\ Field(m, "Authorization") = NULL
        /\ BodyOf(m) = <<make_payload>>
    BY <1>2, PostPlainReads
  <2>2. Ask("register", m)
    BY <1>3 DEF Register
  <2> HIDE DEF m
  <2> QED
    BY <2>1, <2>2, AskUnderstood
<1>4. CASE Login
  <2> DEFINE m == compute_post_request("login", NULL, make_payload)
  <2>1. Field(m, "Cookie") = NULL /\ Field(m, "Authorization") = NULL
        /\ BodyOf(m) = <<make_payload>>
    BY <1>2, PostPlainReads
  <2>2. Ask("login", m)
    BY <1>4 DEF Login
  <2> HIDE DEF m
  <2> QED
    BY <2>1, <2>2, AskUnderstood
<1>5. CASE EnterLibrary
  <2> DEFINE m == compute_get_request("access", cookie, NULL)
  <2>1. Field(m, "Cookie") = cookie /\ Field(m, "Authorization") = NULL /\ BodyOf(m) = <<>>
    <3>1. "access" \in Urls /\ NULL \in Strings \cup {NULL}
      BY <1>2
    <3> QED
      BY <1>1, <3>1, GetReads
  <2>2. Ask("enter_library", m)
    BY <1>5 DEF EnterLibrary
  <2> HIDE DEF m
  <2> QED
    BY <2>1, <2>2, AskUnderstood
<1>6. CASE Logout
  <2> DEFINE m == compute_get_request("logout", cookie, NULL)
  <2>1. Field(m, "Cookie") = cookie /\ Field(m, "Authorization") = NULL /\ BodyOf(m) = <<>>
    <3>1. "logout" \in Urls /\ NULL \in Strings \cup {NULL}
      BY <1>2
    <3> QED
      BY <1>1, <3>1, GetReads
  <2>2. Ask("logout", m)
    BY <1>6 DEF Logout
  <2> HIDE DEF m
  <2> QED
    BY <2>1, <2>2, AskUnderstood
<1>7. CASE GetBooks
  <2> DEFINE m == compute_get_request("books", cookie, token)
  <2>1. Field(m, "Cookie") = NULL /\ Field(m, "Authorization") = token /\ BodyOf(m) = <<>>
    <3>1. "books" \in Urls /\ token \in Strings \cup {NULL}
      BY <1>1, <1>2
    <3> QED
      BY <1>1, <3>1, GetReads
  <2>2. Ask("get_books", m)
    BY <1>7 DEF GetBooks
  <2> HIDE DEF m
  <2> QED
    BY <2>1, <2>2, AskUnderstood
<1>8. CASE GetBook
  <2> DEFINE m == compute_get_request("book", cookie, token)
  <2>1. Field(m, "Cookie") = NULL /\ Field(m, "Authorization") = token /\ BodyOf(m) = <<>>
    <3>1. "book" \in Urls /\ token \in Strings \cup {NULL}
      BY <1>1, <1>2
    <3> QED
      BY <1>1, <3>1, GetReads
  <2>2. Ask("get_book", m)
    BY <1>8 DEF GetBook
  <2> HIDE DEF m
  <2> QED
    BY <2>1, <2>2, AskUnderstood
<1>9. CASE AddBook
  <2> DEFINE m == compute_post_request("books", token, make_payload_book)
  <2>1. Field(m, "Cookie") = NULL /\ Field(m, "Authorization") = token
        /\ BodyOf(m) = <<make_payload_book>>
    BY <1>1, <1>2, PostBearerReads
  <2>2. Ask("add_book", m)
    BY <1>9 DEF AddBook
  <2> HIDE DEF m
  <2> QED
    BY <2>1, <2>2, AskUnderstood
<1>10. CASE DeleteBook
  <2> DEFINE m == compute_delete_request("book", token)
  <2>1. Field(m, "Cookie") = NULL /\ Field(m, "Authorization") = token /\ BodyOf(m) = <<>>
    BY <1>1, <1>2, DeleteReads
  <2>2. Ask("delete_book", m)
    BY <1>10 DEF DeleteBook
  <2> HIDE DEF m
  <2> QED
    BY <2>1, <2>2, AskUnderstood
<1>11. CASE Exit
  BY <1>11 DEF Exit, client, connection, Understood, ReadsCookie, ReadsToken, Posted
<1> QED
  BY <1>3, <1>4, <1>5, <1>6, <1>7, <1>8, <1>9, <1>10, <1>11 DEF Command

LEMMA QuietNext ==
    ASSUME TypeOK, Quiet, [Next]_vars
    PROVE  Quiet'
<1>1. CASE Command
  BY <1>1 DEF Command, Register, Login, EnterLibrary, GetBooks, GetBook, AddBook,
              DeleteBook, Logout, Exit, Ask, Quiet, reader, connection
<1>2. CASE Serve
  BY <1>2 DEF Serve, ServeLogin, ServeAccess, ServeLogout, ServeOther, Answer, Quiet
<1>3. CASE \E s \in Sessions : Expire(s)
  BY <1>3 DEF Expire, Quiet, reader, connection
<1>4. CASE Receive
  <2>1. ~(request # <<>>)
    <3>1. SUFFICES ASSUME request # <<>>
                   PROVE  FALSE
      OBVIOUS
    <3>2. pc = "header" /\ wire = <<>> /\ closed = FALSE /\ cut = FALSE
      BY <3>1 DEF Quiet
    <3>3. ~ReadBody /\ ~Received /\ ~EndInHeader /\ ~ReadFails
      BY <3>2 DEF ReadBody, Received, EndInHeader, AtEnd, ReadFails
    <3>4. ~ReadHeader
      <4>1. SUFFICES ASSUME ReadHeader
                     PROVE  FALSE
        OBVIOUS
      <4>2. Len(wire) > 0
        BY <4>1, ReadMoves DEF ReadHeader, TypeOK
      <4> QED
        BY <3>2, <4>2
    <3> QED
      BY <1>4, <3>3, <3>4 DEF Receive
  <2>2. request' = request
    BY <1>4 DEF Receive, ReadHeader, ReadBody, EndInHeader, Received, ReadFails, connection
  <2> QED
    BY <2>1, <2>2 DEF Quiet
<1>5. CASE Handle
  BY <1>5 DEF Handle, HandleLogin, HandleEnter, HandleLogout, HandleOther, Quiet,
              reader, connection
<1>6. CASE UNCHANGED vars
  BY <1>6 DEF vars, Quiet
<1> QED
  BY <1>1, <1>2, <1>3, <1>4, <1>5, <1>6 DEF Next

LEMMA UnderstoodNext ==
    ASSUME TypeOK, Quiet, Understood, [Next]_vars
    PROVE  Understood'
<1>1. ASSUME UNCHANGED <<request, command, cookie, token>>
      PROVE  Understood'
  BY <1>1 DEF Understood, ReadsCookie, ReadsToken, Posted
<1>2. CASE Serve
  BY <1>2 DEF Serve, ServeLogin, ServeAccess, ServeLogout, ServeOther, Answer, Understood
<1>3. CASE Handle
  <2>1. pc = "process" /\ request' = request
    BY <1>3 DEF Handle, HandleLogin, HandleEnter, HandleLogout, HandleOther, connection
  <2>2. request' = <<>>
    BY <2>1 DEF Quiet
  <2> QED
    BY <2>2 DEF Understood
<1>4. CASE \E s \in Sessions : Expire(s)
  BY <1>1, <1>4 DEF Expire, client, connection
<1>5. CASE Receive
  BY <1>1, <1>5 DEF Receive, ReadHeader, ReadBody, EndInHeader, Received, ReadFails,
                    client, connection
<1>6. CASE UNCHANGED vars
  BY <1>1, <1>6 DEF vars
<1> QED
  BY <1>2, <1>3, <1>4, <1>5, <1>6, CommandUnderstood DEF Next
-----------------------------------------------------------------------------
(* A response is read whole *)

\* b is the first part of a.
Begins(b, a) == Len(b) <= Len(a) /\ \A i \in 1..Len(b) : b[i] = a[i]

\* The first of the places that a part of a text shows is the first of all.
LEMMA FirstOfFewer ==
    ASSUME NEW all \in SUBSET Nat, NEW n \in Int, NEW few,
           few = {i \in all : i <= n}, FirstOf(few) >= 0
    PROVE  FirstOf(few) = FirstOf(all) /\ FirstOf(few) \in few
<1>1. few # {} /\ few \in SUBSET Nat /\ all # {}
  <2>1. few # {}
    <3>1. few = {} => FirstOf(few) = -1
      BY DEF FirstOf
    <3>2. ~(-1 >= 0)
      OBVIOUS
    <3> QED
      BY <3>1, <3>2
  <2> QED
    BY <2>1
<1>2. FirstOf(few) = Min(few) /\ FirstOf(all) = Min(all)
  BY <1>1 DEF FirstOf
<1>3. Min(few) \in few /\ \A y \in few : Min(few) <= y
  BY <1>1, MinIsLeast
<1>4. Min(all) \in all /\ \A y \in all : Min(all) <= y
  BY <1>1, MinIsLeast
<1>5. Min(all) <= Min(few) /\ Min(all) \in few
  <2>1. Min(few) \in all /\ Min(few) <= n
    BY <1>3
  <2>2. Min(all) <= Min(few) /\ Min(all) \in Nat /\ Min(few) \in Nat
    BY <1>4, <2>1
  <2>3. Min(all) <= n
    BY <2>1, <2>2
  <2> QED
    BY <1>4, <2>2, <2>3
<1>6. Min(all) = Min(few)
  BY <1>1, <1>3, <1>5
<1> QED
  BY <1>2, <1>3, <1>6

LEMMA TerminatorInPart ==
    ASSUME NEW a \in Seq(Units), NEW b \in Seq(Units), Begins(b, a), HeaderEnd(b) >= 0
    PROVE  HeaderEnd(b) = HeaderEnd(a) /\ HeaderEnd(b) <= Len(b)
<1> DEFINE all == {i \in 0..(Len(a) - 2) : a[i + 1] = Eol /\ a[i + 2] = Eol}
           few == {i \in 0..(Len(b) - 2) : b[i + 1] = Eol /\ b[i + 2] = Eol}
<1>1. Len(a) \in Nat /\ Len(b) \in Nat /\ Len(b) <= Len(a)
  BY DEF Begins
<1>2. ASSUME NEW i \in 0..(Len(b) - 2)
      PROVE  b[i + 1] = a[i + 1] /\ b[i + 2] = a[i + 2]
  BY <1>1 DEF Begins
<1>3. all \in SUBSET Nat /\ Len(b) - 2 \in Int /\ few = {i \in all : i <= Len(b) - 2}
  BY <1>1, <1>2
<1>4. FindTerminator(b) = FirstOf(few) /\ FindTerminator(a) = FirstOf(all)
  BY DEF FindTerminator
<1>5. FirstOf(few) \in Int
  <2>1. few \in SUBSET (0..Len(b))
    BY <1>1
  <2> QED
    BY <1>1, <2>1, FirstOfPlaces
<1> HIDE DEF all
<1>6. FirstOf(few) >= 0
  BY <1>4, <1>5 DEF HeaderEnd
<1>7. FirstOf(few) = FirstOf(all) /\ FirstOf(few) \in few
  <2> HIDE DEF few
  <2> QED
    BY <1>3, <1>6, FirstOfFewer
<1>8. FirstOf(few) + 2 <= Len(b)
  BY <1>1, <1>7
<1> QED
  BY <1>4, <1>6, <1>7, <1>8 DEF HeaderEnd

LEMMA KindInPart ==
    ASSUME NEW a \in Seq(Units), NEW b \in Seq(Units), Begins(b, a), NEW kind,
           FindKind(b, kind) >= 0
    PROVE  FindKind(b, kind) = FindKind(a, kind)
<1> DEFINE all == {i \in 0..(Len(a) - 1) : a[i + 1].kind = kind}
           few == {i \in 0..(Len(b) - 1) : b[i + 1].kind = kind}
<1>1. Len(a) \in Nat /\ Len(b) \in Nat /\ Len(b) <= Len(a)
  BY DEF Begins
<1>2. ASSUME NEW i \in 0..(Len(b) - 1)
      PROVE  b[i + 1] = a[i + 1]
  BY <1>1 DEF Begins
<1>3. all \in SUBSET Nat /\ Len(b) - 1 \in Int /\ few = {i \in all : i <= Len(b) - 1}
  BY <1>1, <1>2
<1>4. FindKind(b, kind) = FirstOf(few) /\ FindKind(a, kind) = FirstOf(all)
  BY DEF FindKind
<1> HIDE DEF all, few
<1> QED
  BY <1>3, <1>4, FirstOfFewer

\* A response tells its length, if it does, inside its header, and truly; and
\* it is shorter than the largest size.
Framed(a) ==
    /\ Len(a) < SIZE
    /\ HasLength(a) =>
         /\ LengthStart(a) + 3 <= HeaderEnd(a)
         /\ a[LengthStart(a) + 2].kind = "digit" /\ a[LengthStart(a) + 3].kind = "digit"
         /\ 2 * a[LengthStart(a) + 2].text[1] + a[LengthStart(a) + 3].text[1]
              = Len(a) - HeaderEnd(a)

\* Whatever part of it has come, once its header is there with a length in it,
\* header and length are those of the whole.
LEMMA LengthInPart ==
    ASSUME NEW a \in Seq(Units), NEW b \in Seq(Units), Begins(b, a), Framed(a),
           HasLength(b)
    PROVE  /\ HeaderEnd(b) \in Int /\ strtol(b, LengthStart(b) + 1) \in Int
           /\ strtol(b, LengthStart(b) + 1) + HeaderEnd(b) = Len(a)
<1> DEFINE h == HeaderEnd(a)
           l == LengthStart(a)
<1>1. HeaderEnd(b) = h /\ h <= Len(b) /\ h \in Int /\ h >= 0
  BY TerminatorInPart, HeaderEndIsInt DEF HasLength
<1>2. LengthStart(b) = l /\ l >= 0 /\ l \in Int
  BY KindInPart, KindFound DEF HasLength, LengthStart
<1>3. /\ l + 3 <= h
      /\ a[l + 2].kind = "digit" /\ a[l + 3].kind = "digit"
      /\ 2 * a[l + 2].text[1] + a[l + 3].text[1] = Len(a) - h
  BY <1>1, <1>2 DEF Framed, HasLength
<1>4. Len(a) \in Nat /\ Len(b) \in Nat /\ Len(b) <= Len(a)
  BY DEF Begins
<1> HIDE DEF h, l
<1>5. l + 2 \in 1..Len(b) /\ l + 3 \in 1..Len(b)
  BY <1>1, <1>2, <1>3, <1>4
<1>6. b[l + 2] = a[l + 2] /\ b[l + 3] = a[l + 3]
  BY <1>5 DEF Begins
<1>7. IsDigit(b, l + 1) /\ IsDigit(b, l + 1 + 1)
  <2>1. l + 1 < Len(b) /\ l + 1 + 1 < Len(b) /\ l + 1 + 1 = l + 2 /\ l + 1 + 1 + 1 = l + 3
    BY <1>2, <1>4, <1>5
  <2> QED
    BY <1>3, <1>6, <2>1 DEF IsDigit
<1>8. strtol(b, l + 1) = 2 * b[l + 2].text[1] + b[l + 3].text[1]
  <2>1. l + 1 + 1 = l + 2 /\ l + 1 + 2 = l + 3
    BY <1>2
  <2> QED
    BY <1>7, <2>1 DEF strtol
<1>9. strtol(b, l + 1) = Len(a) - h
  BY <1>3, <1>6, <1>8
<1> QED
  BY <1>1, <1>2, <1>4, <1>9

LEMMA JoinedUnits ==
    ASSUME NEW s \in Seq(Units), NEW t \in Seq(Units)
    PROVE  /\ s \o t \in Seq(Units) /\ Len(s \o t) = Len(s) + Len(t)
           /\ \A i \in 1..Len(s) : (s \o t)[i] = s[i]
           /\ \A i \in 1..Len(t) : (s \o t)[Len(s) + i] = t[i]
<1> DEFINE r == s \o t
<1>1. /\ r \in Seq(Units) /\ Len(r) = Len(s) + Len(t)
      /\ \A i \in 1..Len(s) + Len(t) : r[i] = IF i <= Len(s) THEN s[i] ELSE t[i - Len(s)]
  BY ConcatProperties
<1>2. Len(s) \in Nat /\ Len(t) \in Nat
  OBVIOUS
<1> HIDE DEF r
<1>3. ASSUME NEW i \in 1..Len(s)
      PROVE  r[i] = s[i]
  BY <1>1, <1>2
<1>4. ASSUME NEW i \in 1..Len(t)
      PROVE  r[Len(s) + i] = t[i]
  <2>1. Len(s) + i \in 1..Len(s) + Len(t) /\ ~(Len(s) + i <= Len(s)) /\ Len(s) + i - Len(s) = i
    BY <1>2
  <2> QED
    BY <1>1, <2>1
<1> QED
  BY <1>1, <1>3, <1>4 DEF r

\* Where the parts of a response are.
Laid(fields, length, body) == <<Word("status"), Eol>> \o fields \o length \o <<Eol>> \o body

LEMMA ResponseUnits ==
    ASSUME NEW fields \in Seq(Units), NEW length \in Seq(Units), NEW body \in Seq(Units)
    PROVE  /\ Laid(fields, length, body) \in Seq(Units)
           /\ Len(Laid(fields, length, body)) = Len(fields) + Len(length) + 3 + Len(body)
           /\ Laid(fields, length, body)[1] = Word("status")
           /\ Laid(fields, length, body)[2] = Eol
           /\ \A i \in 1..Len(fields) : Laid(fields, length, body)[2 + i] = fields[i]
           /\ \A i \in 1..Len(length) :
                Laid(fields, length, body)[Len(fields) + 2 + i] = length[i]
           /\ Laid(fields, length, body)[Len(fields) + Len(length) + 3] = Eol
           /\ \A i \in 1..Len(body) :
                Laid(fields, length, body)[Len(fields) + Len(length) + 3 + i] = body[i]
<1> DEFINE r == Laid(fields, length, body)
           s == <<Word("status"), Eol>>
           e == <<Eol>>
           f == s \o fields
           l == f \o length
           h == l \o e
<1>1. /\ s \in Seq(Units) /\ Len(s) = 2 /\ s[1] = Word("status") /\ s[2] = Eol
      /\ e \in Seq(Units) /\ Len(e) = 1 /\ e[1] = Eol
  BY UnitsFrame DEF Frame
<1>2. Len(fields) \in Nat /\ Len(length) \in Nat /\ Len(body) \in Nat
  OBVIOUS
<1>3. r = h \o body
  BY DEF Laid
<1> HIDE DEF s, e, r
<1>4. /\ f \in Seq(Units) /\ Len(f) = Len(s) + Len(fields)
      /\ \A i \in 1..Len(s) : f[i] = s[i]
      /\ \A i \in 1..Len(fields) : f[Len(s) + i] = fields[i]
  BY <1>1, JoinedUnits
<1> HIDE DEF f
<1>5. /\ l \in Seq(Units) /\ Len(l) = Len(f) + Len(length)
      /\ \A i \in 1..Len(f) : l[i] = f[i]
      /\ \A i \in 1..Len(length) : l[Len(f) + i] = length[i]
  BY <1>4, JoinedUnits
<1> HIDE DEF l
<1>6. /\ h \in Seq(Units) /\ Len(h) = Len(l) + Len(e)
      /\ \A i \in 1..Len(l) : h[i] = l[i]
      /\ \A i \in 1..Len(e) : h[Len(l) + i] = e[i]
  BY <1>1, <1>5, JoinedUnits
<1> HIDE DEF h
<1>7. /\ r \in Seq(Units) /\ Len(r) = Len(h) + Len(body)
      /\ \A i \in 1..Len(h) : r[i] = h[i]
      /\ \A i \in 1..Len(body) : r[Len(h) + i] = body[i]
  <2>1. /\ h \o body \in Seq(Units) /\ Len(h \o body) = Len(h) + Len(body)
        /\ \A i \in 1..Len(h) : (h \o body)[i] = h[i]
        /\ \A i \in 1..Len(body) : (h \o body)[Len(h) + i] = body[i]
    BY <1>6, JoinedUnits
  <2> QED
    BY <1>3, <2>1
<1>8. /\ Len(f) = Len(fields) + 2 /\ Len(l) = Len(fields) + 2 + Len(length)
      /\ Len(h) = Len(fields) + Len(length) + 3
  BY <1>1, <1>2, <1>4, <1>5, <1>6
<1>9. ASSUME NEW i \in 1..Len(f)
      PROVE  r[i] = f[i]
  <2>1. i \in 1..Len(l) /\ i \in 1..Len(h)
    BY <1>2, <1>8
  <2> QED
    BY <1>5, <1>6, <1>7, <2>1
<1>10. r[1] = Word("status") /\ r[2] = Eol
  <2>1. 1 \in 1..Len(s) /\ 2 \in 1..Len(s) /\ 1 \in 1..Len(f) /\ 2 \in 1..Len(f)
    BY <1>1, <1>2, <1>8
  <2> QED
    BY <1>1, <1>4, <1>9, <2>1
<1>11. ASSUME NEW i \in 1..Len(fields)
       PROVE  r[2 + i] = fields[i]
  <2>1. Len(s) + i \in 1..Len(f) /\ Len(s) + i = 2 + i
    BY <1>1, <1>2, <1>8
  <2> QED
    BY <1>4, <1>9, <2>1
<1>12. ASSUME NEW i \in 1..Len(length)
       PROVE  r[Len(fields) + 2 + i] = length[i]
  <2>1. Len(f) + i \in 1..Len(l) /\ Len(f) + i \in 1..Len(h) /\ Len(f) + i = Len(fields) + 2 + i
    BY <1>2, <1>8
  <2>2. r[Len(f) + i] = l[Len(f) + i]
    BY <1>6, <1>7, <2>1
  <2> QED
    BY <1>5, <2>1, <2>2
<1>13. r[Len(fields) + Len(length) + 3] = Eol
  <2>1. /\ 1 \in 1..Len(e) /\ Len(l) + 1 \in 1..Len(h)
        /\ Len(l) + 1 = Len(fields) + Len(length) + 3
    BY <1>1, <1>2, <1>8
  <2>2. r[Len(l) + 1] = h[Len(l) + 1] /\ h[Len(l) + 1] = e[1]
    BY <1>6, <1>7, <2>1
  <2> QED
    BY <1>1, <2>1, <2>2
<1>14. ASSUME NEW i \in 1..Len(body)
       PROVE  r[Len(fields) + Len(length) + 3 + i] = body[i]
  BY <1>7, <1>8
<1>15. Len(r) = Len(fields) + Len(length) + 3 + Len(body)
  BY <1>2, <1>7, <1>8
<1> QED
  BY <1>7, <1>10, <1>11, <1>12, <1>13, <1>14, <1>15 DEF r

\* Where the first empty line is.
LEMMA TerminatorAt ==
    ASSUME NEW a \in Seq(Units), NEW k \in 1..Len(a), k + 1 <= Len(a),
           a[k] = Eol, a[k + 1] = Eol,
           \A i \in 1..k - 1 : ~(a[i] = Eol /\ a[i + 1] = Eol)
    PROVE  HeaderEnd(a) = k + 1
<1> DEFINE at == {i \in 0..(Len(a) - 2) : a[i + 1] = Eol /\ a[i + 2] = Eol}
<1>1. Len(a) \in Nat
  OBVIOUS
<1>2. k - 1 \in at
  <2>1. k - 1 \in 0..(Len(a) - 2) /\ k - 1 + 1 = k /\ k - 1 + 2 = k + 1
    BY <1>1
  <2> QED
    BY <2>1
<1>3. ASSUME NEW i \in at
      PROVE  ~(i < k - 1)
  <2>1. SUFFICES ASSUME i < k - 1
                 PROVE  FALSE
    OBVIOUS
  <2>2. i + 1 \in 1..k - 1 /\ i + 1 + 1 = i + 2 /\ a[i + 1] = Eol /\ a[i + 2] = Eol
    BY <2>1
  <2> QED
    BY <2>2
<1>4. at \in SUBSET Nat
  BY <1>1
<1>5. FindTerminator(a) = FirstOf(at)
  BY DEF FindTerminator
<1> HIDE DEF at
<1>6. Min(at) \in at /\ Min(at) <= k - 1
  BY <1>2, <1>4, MinIsLeast
<1>7. Min(at) = k - 1
  <2>1. ~(Min(at) < k - 1) /\ Min(at) \in Nat
    BY <1>3, <1>4, <1>6
  <2> QED
    BY <1>6, <2>1
<1>8. FindTerminator(a) = k - 1
  BY <1>2, <1>5, <1>7 DEF FirstOf
<1> QED
  BY <1>8 DEF HeaderEnd

LEMMA KindAt ==
    ASSUME NEW a \in Seq(Units), NEW kind, NEW k \in 1..Len(a), a[k].kind = kind,
           \A i \in 1..k - 1 : a[i].kind # kind
    PROVE  FindKind(a, kind) = k - 1
<1> DEFINE at == {i \in 0..(Len(a) - 1) : a[i + 1].kind = kind}
<1>1. Len(a) \in Nat
  OBVIOUS
<1>2. k - 1 \in at
  <2>1. k - 1 \in 0..(Len(a) - 1) /\ k - 1 + 1 = k
    BY <1>1
  <2> QED
    BY <2>1
<1>3. ASSUME NEW i \in at
      PROVE  ~(i < k - 1)
  <2>1. SUFFICES ASSUME i < k - 1
                 PROVE  FALSE
    OBVIOUS
  <2>2. i + 1 \in 1..k - 1 /\ a[i + 1].kind = kind
    BY <2>1
  <2> QED
    BY <2>2
<1>4. at \in SUBSET Nat
  BY <1>1
<1>5. FindKind(a, kind) = FirstOf(at)
  BY DEF FindKind
<1> HIDE DEF at
<1>6. Min(at) \in at /\ Min(at) <= k - 1
  BY <1>2, <1>4, MinIsLeast
<1>7. Min(at) = k - 1
  <2>1. ~(Min(at) < k - 1) /\ Min(at) \in Nat
    BY <1>3, <1>4, <1>6
  <2> QED
    BY <1>6, <2>1
<1> QED
  BY <1>2, <1>5, <1>7 DEF FirstOf

LEMMA KindNowhere ==
    ASSUME NEW a \in Seq(Units), NEW kind, \A i \in 1..Len(a) : a[i].kind # kind
    PROVE  FindKind(a, kind) = -1
<1>1. \A i \in 0..(Len(a) - 1) : i + 1 \in 1..Len(a)
  OBVIOUS
<1>2. {i \in 0..(Len(a) - 1) : a[i + 1].kind = kind} = {}
  BY <1>1
<1> QED
  BY <1>2 DEF FindKind, FirstOf

\* The service's responses: no second length, and no empty line in the header.
Tidy(fields, body) ==
    /\ Len(fields) + Len(body) <= 4
    /\ \A i \in 1..Len(fields) :
         /\ fields[i].kind # "Content-Length"
         /\ fields[i] = Eol => i > 1 /\ i = Len(fields)
    /\ \A i \in 1..Len(body) : body[i].kind # "Content-Length"

LEMMA LengthUnits ==
    ASSUME NEW n \in Nat
    PROVE  /\ LengthLine(n) \in Seq(Units) /\ Len(LengthLine(n)) = 4
           /\ LengthLine(n)[1].kind = "Content-Length"
           /\ LengthLine(n)[2].kind = "digit" /\ LengthLine(n)[3].kind = "digit"
           /\ 2 * LengthLine(n)[2].text[1] + LengthLine(n)[3].text[1] = n
           /\ LengthLine(n)[4] = Eol
<1> DEFINE a == Word("Content-Length")
           b == Text("digit", <<n \div 2>>)
           c == Text("digit", <<n % 2>>)
           l == <<a, b, c, Eol>>
<1>1. n \div 2 \in Nat /\ n % 2 \in Nat /\ 2 * (n \div 2) + (n % 2) = n
  OBVIOUS
<1>2. a \in Units /\ b \in Units /\ c \in Units /\ Eol \in Units
  BY <1>1, DigitOf, UnitsFrame DEF Frame
<1>3. a.kind = "Content-Length" /\ b.kind = "digit" /\ c.kind = "digit"
  BY KindOf
<1>4. b.text = <<n \div 2>> /\ c.text = <<n % 2>>
  BY KindOf
<1>5. b.text[1] = n \div 2 /\ c.text[1] = n % 2
  BY <1>4
<1>6. LengthLine(n) = l
  BY DEF LengthLine
<1> HIDE DEF a, b, c
<1>7. l \in Seq(Units) /\ Len(l) = 4 /\ l[1] = a /\ l[2] = b /\ l[3] = c /\ l[4] = Eol
  BY <1>2
<1> HIDE DEF l
<1>8. 2 * l[2].text[1] + l[3].text[1] = n
  BY <1>1, <1>5, <1>7
<1> QED
  BY <1>3, <1>6, <1>7, <1>8

LEMMA LengthFramed ==
    ASSUME SIZE > 11, NEW fields \in Seq(Units), NEW body \in Seq(Units), Tidy(fields, body)
    PROVE  Framed(Laid(fields, LengthLine(Len(body)), body))
<1> DEFINE n == Len(body)
           k == Len(fields)
           l == LengthLine(n)
           r == Laid(fields, l, body)
<1>1. n \in Nat /\ k \in Nat /\ k + n <= 4 /\ SIZE \in Nat
  BY HttpAssumption DEF Tidy
<1>2. /\ l \in Seq(Units) /\ Len(l) = 4 /\ l[1].kind = "Content-Length"
      /\ l[2].kind = "digit" /\ l[3].kind = "digit"
      /\ 2 * l[2].text[1] + l[3].text[1] = n /\ l[4] = Eol
  BY <1>1, LengthUnits
<1> HIDE DEF l
<1>3. /\ r \in Seq(Units) /\ Len(r) = k + Len(l) + 3 + n
      /\ r[1] = Word("status") /\ r[2] = Eol
      /\ \A i \in 1..k : r[2 + i] = fields[i]
      /\ \A i \in 1..Len(l) : r[k + 2 + i] = l[i]
      /\ r[k + Len(l) + 3] = Eol
  <2>1. r \in Seq(Units) /\ Len(r) = k + Len(l) + 3 + n
    BY <1>2, ResponseUnits
  <2>2. r[1] = Word("status") /\ r[2] = Eol /\ r[k + Len(l) + 3] = Eol
    BY <1>2, ResponseUnits
  <2>3. \A i \in 1..k : r[2 + i] = fields[i]
    BY <1>2, ResponseUnits
  <2>4. \A i \in 1..Len(l) : r[k + 2 + i] = l[i]
    BY <1>2, ResponseUnits
  <2> HIDE DEF n, k, r
  <2> QED
    BY <2>1, <2>2, <2>3, <2>4
<1> HIDE DEF r
<1>4. r[k + 3] = l[1] /\ r[k + 4] = l[2] /\ r[k + 5] = l[3] /\ r[k + 6] = l[4]
  <2>1. /\ 1 \in 1..Len(l) /\ 2 \in 1..Len(l) /\ 3 \in 1..Len(l) /\ 4 \in 1..Len(l)
        /\ k + 2 + 1 = k + 3 /\ k + 2 + 2 = k + 4 /\ k + 2 + 3 = k + 5 /\ k + 2 + 4 = k + 6
    BY <1>1, <1>2
  <2>2. r[k + 2 + 1] = l[1] /\ r[k + 2 + 2] = l[2] /\ r[k + 2 + 3] = l[3] /\ r[k + 2 + 4] = l[4]
    BY <1>3, <2>1
  <2> QED
    BY <2>1, <2>2
<1>5. r[k + 7] = Eol /\ Len(r) = k + n + 7
  <2>1. k + Len(l) + 3 = k + 7 /\ k + Len(l) + 3 + n = k + n + 7
    BY <1>1, <1>2
  <2> QED
    BY <1>3, <2>1
<1>6. /\ r[1] # Eol /\ r[1].kind # "Content-Length" /\ r[2].kind # "Content-Length"
      /\ r[k + 3] # Eol /\ r[k + 4] # Eol /\ r[k + 5] # Eol
  BY <1>2, <1>3, <1>4, KindOf
<1>7. ASSUME NEW i \in 3..k + 2
      PROVE  r[i].kind # "Content-Length" /\ (r[i] = Eol => i = k + 2)
  <2>1. i - 2 \in 1..k /\ 2 + (i - 2) = i
    BY <1>1
  <2>2. r[i] = fields[i - 2]
    BY <1>3, <2>1
  <2>3. fields[i - 2].kind # "Content-Length" /\ (fields[i - 2] = Eol => i - 2 = k)
    BY <2>1 DEF Tidy
  <2> QED
    BY <1>1, <2>2, <2>3
<1>8. r[3] # Eol
  <2>1. CASE k = 0
    BY <1>6, <2>1
  <2>2. CASE k # 0
    <3>1. 1 \in 1..k /\ 2 + 1 = 3
      BY <1>1, <2>2
    <3>2. r[3] = fields[1]
      BY <1>3, <3>1
    <3>3. fields[1] # Eol
      BY <3>1 DEF Tidy
    <3> QED
      BY <3>2, <3>3
  <2> QED
    BY <2>1, <2>2
<1>9. HeaderEnd(r) = k + 7
  <2> DEFINE p == k + 6
  <2>1. ASSUME NEW i \in 1..p - 1
        PROVE  ~(r[i] = Eol /\ r[i + 1] = Eol)
    <3>1. i = 1 \/ i = 2 \/ i \in 3..k + 1 \/ i = k + 2 \/ i = k + 3 \/ i = k + 4 \/ i = k + 5
      BY <1>1
    <3>2. CASE i = 2
      BY <1>8, <3>2
    <3>3. CASE i \in 3..k + 1
      <4>1. i \in 3..k + 2 /\ i # k + 2
        BY <1>1, <3>3
      <4> QED
        BY <1>7, <4>1
    <3>4. CASE i = k + 2
      <4>1. i + 1 = k + 3
        BY <1>1, <3>4
      <4> QED
        BY <1>6, <4>1
    <3> QED
      BY <1>6, <3>1, <3>2, <3>3, <3>4
  <2>2. p \in 1..Len(r) /\ p + 1 <= Len(r) /\ p + 1 = k + 7
    BY <1>1, <1>5
  <2>3. r[p] = Eol /\ r[p + 1] = Eol
    BY <1>2, <1>4, <1>5, <2>2
  <2> HIDE DEF p
  <2>4. HeaderEnd(r) = p + 1
    BY <1>3, <2>1, <2>2, <2>3, TerminatorAt, Zenon
  <2> QED
    BY <2>2, <2>4
<1>10. LengthStart(r) = k + 2
  <2> DEFINE p == k + 3
  <2>1. ASSUME NEW i \in 1..p - 1
        PROVE  r[i].kind # "Content-Length"
    <3>1. i = 1 \/ i = 2 \/ i \in 3..k + 2
      BY <1>1
    <3> QED
      BY <1>6, <1>7, <3>1
  <2>2. p \in 1..Len(r) /\ p - 1 = k + 2 /\ r[p].kind = "Content-Length"
    BY <1>1, <1>2, <1>4, <1>5
  <2> HIDE DEF p
  <2>3. FindKind(r, "Content-Length") = p - 1
    BY <1>3, <2>1, <2>2, KindAt, Zenon
  <2> QED
    BY <2>2, <2>3 DEF LengthStart
<1>11. /\ Len(r) < SIZE
       /\ LengthStart(r) + 3 <= HeaderEnd(r)
       /\ LengthStart(r) + 2 = k + 4 /\ LengthStart(r) + 3 = k + 5
       /\ Len(r) - HeaderEnd(r) = n
  BY <1>1, <1>5, <1>9, <1>10
<1>12. Framed(r)
  BY <1>2, <1>4, <1>11 DEF Framed
<1> QED
  BY <1>12 DEF r, l

LEMMA PlainFramed ==
    ASSUME SIZE > 11, NEW fields \in Seq(Units), NEW body \in Seq(Units), Tidy(fields, body)
    PROVE  Framed(Laid(fields, <<>>, body))
<1> DEFINE n == Len(body)
           k == Len(fields)
           l == <<>>
           r == Laid(fields, l, body)
<1>1. n \in Nat /\ k \in Nat /\ k + n <= 4 /\ SIZE \in Nat
  BY HttpAssumption DEF Tidy
<1>2. l \in Seq(Units)
  BY EmptySeq
<1>0. Len(l) = 0
  BY EmptySeq
<1> HIDE DEF l
<1>3. /\ r \in Seq(Units) /\ Len(r) = k + Len(l) + 3 + n
      /\ r[1] = Word("status") /\ r[2] = Eol
      /\ \A i \in 1..k : r[2 + i] = fields[i]
      /\ r[k + Len(l) + 3] = Eol
      /\ \A i \in 1..n : r[k + Len(l) + 3 + i] = body[i]
  <2>1. r \in Seq(Units) /\ Len(r) = k + Len(l) + 3 + n
    BY <1>2, ResponseUnits
  <2>2. r[1] = Word("status") /\ r[2] = Eol /\ r[k + Len(l) + 3] = Eol
    BY <1>2, ResponseUnits
  <2>3. \A i \in 1..k : r[2 + i] = fields[i]
    BY <1>2, ResponseUnits
  <2>4. \A i \in 1..n : r[k + Len(l) + 3 + i] = body[i]
    BY <1>2, ResponseUnits
  <2> HIDE DEF n, k, r
  <2> QED
    BY <2>1, <2>2, <2>3, <2>4
<1> HIDE DEF r
<1>4. k + Len(l) + 3 = k + 3 /\ Len(r) = k + n + 3
  BY <1>1, <1>0, <1>3
<1>5. r[1].kind # "Content-Length" /\ r[2].kind # "Content-Length"
      /\ r[k + 3].kind # "Content-Length"
  BY <1>3, <1>4, KindOf
<1>6. ASSUME NEW i \in 1..Len(r)
      PROVE  r[i].kind # "Content-Length"
  <2>1. i = 1 \/ i = 2 \/ i \in 3..k + 2 \/ i = k + 3 \/ i \in k + 4..k + 3 + n
    BY <1>1, <1>4
  <2>2. CASE i \in 3..k + 2
    <3>1. i - 2 \in 1..k /\ 2 + (i - 2) = i
      BY <1>1, <2>2
    <3>2. r[i] = fields[i - 2]
      BY <1>3, <3>1
    <3> QED
      BY <3>1, <3>2 DEF Tidy
  <2>3. CASE i \in k + 4..k + 3 + n
    <3>1. i - (k + 3) \in 1..n /\ k + 3 + (i - (k + 3)) = i
      BY <1>1, <2>3
    <3>2. r[k + Len(l) + 3 + (i - (k + 3))] = body[i - (k + 3)]
      BY <1>3, <3>1
    <3>3. r[i] = body[i - (k + 3)]
      BY <1>4, <3>1, <3>2
    <3> QED
      BY <3>1, <3>3 DEF Tidy
  <2> QED
    BY <1>5, <2>1, <2>2, <2>3
<1>7. LengthStart(r) = -1
  BY <1>3, <1>6, KindNowhere DEF LengthStart
<1>8. ~HasLength(r)
  BY <1>7 DEF HasLength
<1>9. Len(r) < SIZE
  BY <1>1, <1>4
<1>10. Framed(r)
  BY <1>8, <1>9 DEF Framed
<1> QED
  BY <1>10 DEF r, l

LEMMA ResponseFramed ==
    ASSUME SIZE > 11, NEW fields \in Seq(Units), NEW body \in Seq(Units),
           Tidy(fields, body), NEW withLength \in BOOLEAN
    PROVE  Framed(Response(fields, body, withLength))
<1>1. CASE withLength = TRUE
  <2>1. Response(fields, body, withLength) = Laid(fields, LengthLine(Len(body)), body)
    BY <1>1 DEF Response, Laid
  <2> QED
    BY <2>1, LengthFramed
<1>2. CASE withLength = FALSE
  <2>1. Response(fields, body, withLength) = Laid(fields, <<>>, body)
    BY <1>2 DEF Response, Laid
  <2> QED
    BY <2>1, PlainFramed
<1> QED
  BY <1>1, <1>2

LEMMA ReadJoins ==
    ASSUME buffer \in Seq(Units), wire \in Seq(Units), Read
    PROVE  buffer' \o wire' = buffer \o wire
<1>1. PICK n \in 1..BUFLEN :
        /\ n <= Len(wire)
        /\ buffer' = buffer \o SubSeq(wire, 1, n)
        /\ wire' = SubSeq(wire, n + 1, Len(wire))
  BY DEF Read
<1> DEFINE s == SubSeq(wire, 1, n)
           t == SubSeq(wire, n + 1, Len(wire))
<1>2. n \in Nat /\ Len(wire) \in Nat /\ BUFLEN \in Nat
  BY HttpAssumption
<1>3. 1 \in 1..Len(wire) + 1 /\ n \in 1 - 1..Len(wire) /\ Len(wire) \in n..Len(wire)
      /\ n + 1 \in 1..Len(wire) + 1 /\ Len(wire) \in 0..Len(wire) /\ n \in 0..Len(wire)
  BY <1>1, <1>2
<1>4. s \o t = wire
  <2>1. s \o t = SubSeq(wire, 1, Len(wire))
    BY <1>3, ConcatAdjacentSubSeq
  <2> QED
    BY <2>1, SubSeqFull
<1>5. s \in Seq(Units) /\ t \in Seq(Units)
  BY <1>3, Part
<1>6. buffer' = buffer \o s /\ wire' = t
  BY <1>1
<1> HIDE DEF s, t
<1>7. (buffer \o s) \o t = buffer \o (s \o t)
  BY <1>5, ConcatAssociative
<1> QED
  BY <1>4, <1>6, <1>7

\* What has come and what is on the way are the answer, if it is not cut; a
\* client that reads the body knows how much there is, or has it all.
Arrived == ~cut => buffer \o wire = answer
Counted == pc = "body" /\ ~cut => wire = <<>> \/ total = Len(answer)

WInv == TypeOK /\ Quiet /\ Understood /\ Framed(answer) /\ Arrived /\ Counted /\ Whole

LEMMA NothingFramed == SIZE > 11 => Framed(<<>>)
<1> SUFFICES ASSUME SIZE > 11
             PROVE  Framed(<<>>)
  OBVIOUS
<1> DEFINE e == <<>>
<1>1. e \in Seq(Units) /\ Len(e) = 0
  BY EmptySeq
<1> HIDE DEF e
<1>2. \A i \in 1..Len(e) : e[i].kind # "Content-Length"
  BY <1>1
<1>3. LengthStart(e) = -1
  BY <1>1, <1>2, KindNowhere DEF LengthStart
<1>4. ~HasLength(e)
  BY <1>3 DEF HasLength
<1>5. Len(e) < SIZE
  BY <1>1, HttpAssumption
<1>6. Framed(e)
  BY <1>4, <1>5 DEF Framed
<1> QED
  BY <1>6 DEF e

LEMMA NothingJoins ==
    ASSUME NEW s \in Seq(Units)
    PROVE  <<>> \o s = s /\ s \o <<>> = s
  BY ConcatEmptySeq

LEMMA WInit == SIZE > 11 /\ Init => WInv
<1> SUFFICES ASSUME SIZE > 11, Init
             PROVE  WInv
  OBVIOUS
<1>1. TypeOK
  BY TypeInit
<1>2. Quiet /\ Understood /\ Counted /\ Whole
  BY DEF Init, Quiet, Understood, Counted, Whole
<1>3. Framed(answer)
  BY NothingFramed DEF Init
<1>4. Arrived
  <2>1. buffer = <<>> /\ answer = wire
    BY DEF Init
  <2> QED
    BY <1>1, <2>1, NothingJoins DEF Arrived, TypeOK
<1> QED
  BY <1>1, <1>2, <1>3, <1>4 DEF WInv

LEMMA AnswerFrames ==
    ASSUME SIZE > 11, NEW fields \in Seq(Units), NEW body \in Seq(Units),
           Tidy(fields, body), Answer(fields, body)
    PROVE  Framed(answer') /\ (cut' = FALSE => wire' = answer')
<1>1. PICK withLength \in BOOLEAN, closes \in BOOLEAN :
        /\ answer' = Response(fields, body, withLength)
        /\ \/ wire' = answer' /\ cut' = FALSE
           \/ cut' = TRUE
  BY DEF Answer
<1>2. Framed(answer')
  BY <1>1, ResponseFramed
<1> QED
  BY <1>1, <1>2

\* What the service answers is tidy.
LEMMA AnswersTidy ==
    /\ Plain \in Seq(Units) /\ <<>> \in Seq(Units) /\ Tidy(<<>>, Plain)
    /\ \A s \in Sessions :
         LET fields == <<Text("Set-Cookie", CookieOf(s)), Word("semicolon"), Eol>>
         IN  fields \in Seq(Units) /\ Tidy(fields, Plain)
    /\ \A s \in Sessions :
         LET body == <<Text("token", TokenOf(s)), Word("quote")>>
         IN  body \in Seq(Units) /\ Tidy(<<>>, body)
<1> DEFINE e == <<>>
           p == Plain
<1>1. e \in Seq(Units) /\ Len(e) = 0
  BY EmptySeq
<1>2. p \in Seq(Units) /\ Len(p) = 1 /\ p[1].kind # "Content-Length"
  BY UnitsFrame, PlainIn, KindOf DEF Plain
<1> HIDE DEF e, p
<1>3. Tidy(e, p)
  BY <1>1, <1>2 DEF Tidy
<1>4. ASSUME NEW s \in Sessions
      PROVE  LET fields == <<Text("Set-Cookie", CookieOf(s)), Word("semicolon"), Eol>>
             IN  fields \in Seq(Units) /\ Tidy(fields, p)
  <2> DEFINE a == Text("Set-Cookie", CookieOf(s))
             b == Word("semicolon")
             f == <<a, b, Eol>>
  <2>1. a \in Units /\ b \in Units /\ Eol \in Units
    BY CookieIsString, UnitOf, UnitsFrame DEF Frame, Kinds
  <2>2. /\ a.kind = "Set-Cookie" /\ b.kind = "semicolon" /\ Eol.kind = "\r\n"
    BY KindOf
  <2> HIDE DEF a, b
  <2>3. f \in Seq(Units) /\ Len(f) = 3 /\ f[1] = a /\ f[2] = b /\ f[3] = Eol
    BY <2>1
  <2> HIDE DEF f
  <2>4. \A i \in 1..Len(f) : i = 1 \/ i = 2 \/ i = 3
    BY <2>3
  <2>5. Tidy(f, p)
    <3>1. Len(f) + Len(p) <= 4
      BY <1>2, <2>3
    <3>2. \A i \in 1..Len(f) :
            f[i].kind # "Content-Length" /\ (f[i] = Eol => i > 1 /\ i = Len(f))
      BY <2>2, <2>3, <2>4
    <3>3. \A i \in 1..Len(p) : p[i].kind # "Content-Length"
      BY <1>2
    <3> QED
      BY <3>1, <3>2, <3>3 DEF Tidy
  <2> QED
    BY <2>3, <2>5 DEF f, a, b
<1>5. ASSUME NEW s \in Sessions
      PROVE  LET body == <<Text("token", TokenOf(s)), Word("quote")>>
             IN  body \in Seq(Units) /\ Tidy(e, body)
  <2> DEFINE a == Text("token", TokenOf(s))
             b == Word("quote")
             f == <<a, b>>
  <2>1. a \in Units /\ b \in Units
    BY CookieIsString, UnitOf, UnitsFrame DEF Frame, Kinds
  <2>2. a.kind = "token" /\ b.kind = "quote"
    BY KindOf
  <2> HIDE DEF a, b
  <2>3. f \in Seq(Units) /\ Len(f) = 2 /\ f[1] = a /\ f[2] = b
    BY <2>1
  <2> HIDE DEF f
  <2>4. \A i \in 1..Len(f) : i = 1 \/ i = 2
    BY <2>3
  <2>5. Tidy(e, f)
    <3>1. Len(e) + Len(f) <= 4
      BY <1>1, <2>3
    <3>2. \A i \in 1..Len(f) : f[i].kind # "Content-Length"
      BY <2>2, <2>3, <2>4
    <3>3. \A i \in 1..Len(e) : FALSE
      BY <1>1
    <3> QED
      BY <3>1, <3>2, <3>3 DEF Tidy
  <2> QED
    BY <2>3, <2>5 DEF f, a, b
<1> QED
  BY <1>1, <1>2, <1>3, <1>4, <1>5 DEF e, p

LEMMA ServeFrames ==
    ASSUME SIZE > 11, Serve
    PROVE  /\ request # <<>> /\ pc' = pc /\ buffer' = buffer
           /\ Framed(answer') /\ (cut' = FALSE => wire' = answer')
<1>1. PICK fields \in Seq(Units), body \in Seq(Units) :
        Tidy(fields, body) /\ Answer(fields, body)
  <2>1. CASE \E s \in Sessions : ServeLogin(s)
    <3>1. PICK s \in Sessions : ServeLogin(s)
      BY <2>1
    <3> DEFINE f == <<Text("Set-Cookie", CookieOf(s)), Word("semicolon"), Eol>>
    <3>2. Answer(f, Plain)
      BY <3>1 DEF ServeLogin
    <3>3. f \in Seq(Units) /\ Tidy(f, Plain) /\ Plain \in Seq(Units)
      BY AnswersTidy
    <3> HIDE DEF f
    <3> QED
      BY <3>2, <3>3
  <2>2. CASE \E s \in Sessions : ServeAccess(s)
    <3>1. PICK s \in Sessions : ServeAccess(s)
      BY <2>2
    <3> DEFINE b == <<Text("token", TokenOf(s)), Word("quote")>>
               e == <<>>
    <3>2. Answer(e, b)
      BY <3>1 DEF ServeAccess
    <3>3. b \in Seq(Units) /\ Tidy(e, b) /\ e \in Seq(Units)
      BY AnswersTidy
    <3> HIDE DEF b, e
    <3> QED
      BY <3>2, <3>3
  <2>3. CASE ServeOther \/ \E s \in Sessions : ServeLogout(s)
    <3> DEFINE e == <<>>
    <3>2. Answer(e, Plain)
      BY <2>3 DEF ServeOther, ServeLogout
    <3>3. Plain \in Seq(Units) /\ Tidy(e, Plain) /\ e \in Seq(Units)
      BY AnswersTidy
    <3> HIDE DEF e
    <3> QED
      BY <3>2, <3>3
  <2> QED
    BY <2>1, <2>2, <2>3 DEF Serve
<1>2. request # <<>>
  BY AsksSomething DEF Serve, ServeLogin, ServeAccess, ServeLogout, ServeOther
<1>3. pc' = pc /\ buffer' = buffer
  BY <1>1 DEF Answer, reader
<1> QED
  BY <1>1, <1>2, <1>3, AnswerFrames

\* What has been read is the first part of an answer that is not cut.
LEMMA PartOfAnswer ==
    ASSUME TypeOK, Arrived, cut = FALSE
    PROVE  Begins(buffer, answer) /\ Len(answer) = Len(buffer) + Len(wire)
<1>1. buffer \in Seq(Units) /\ wire \in Seq(Units) /\ answer = buffer \o wire
  BY DEF TypeOK, Arrived
<1>2. /\ Len(buffer \o wire) = Len(buffer) + Len(wire)
      /\ \A i \in 1..Len(buffer) : (buffer \o wire)[i] = buffer[i]
  BY <1>1, JoinedUnits
<1>3. Len(buffer) \in Nat /\ Len(wire) \in Nat
  BY <1>1
<1> QED
  BY <1>1, <1>2, <1>3 DEF Begins

LEMMA AllRead ==
    ASSUME TypeOK, Arrived, cut = FALSE, wire = <<>>
    PROVE  buffer = answer
<1>1. buffer \in Seq(Units) /\ buffer \o <<>> = answer
  BY DEF TypeOK, Arrived
<1> QED
  BY <1>1, NothingJoins

LEMMA CommandReads ==
    ASSUME SIZE > 11, WInv, Command, TypeOK'
    PROVE  Framed(answer') /\ Arrived' /\ Counted' /\ Whole'
<1>1. CASE Exit
  BY <1>1 DEF Exit, reader, connection, WInv, Arrived, Counted, Whole
<1>2. CASE ~Exit
  <2>1. /\ answer' = <<>> /\ wire' = <<>> /\ buffer' = <<>> /\ pc' = "header"
    BY <1>2 DEF Command, Register, Login, EnterLibrary, GetBooks, GetBook, AddBook,
                DeleteBook, Logout, Ask
  <2>2. <<>> \o <<>> = <<>>
    BY EmptySeq, NothingJoins
  <2> QED
    BY <2>1, <2>2, NothingFramed DEF Arrived, Counted, Whole
<1> QED
  BY <1>1, <1>2

LEMMA ServeReads ==
    ASSUME SIZE > 11, WInv, Serve, TypeOK'
    PROVE  Framed(answer') /\ Arrived' /\ Counted' /\ Whole'
<1>1. /\ request # <<>> /\ pc' = pc /\ buffer' = buffer
      /\ Framed(answer') /\ (cut' = FALSE => wire' = answer')
  BY ServeFrames
<1>2. pc' = "header" /\ buffer' = <<>>
  BY <1>1 DEF WInv, Quiet
<1>3. Arrived'
  <2>1. <<>> \o wire' = wire'
    BY NothingJoins DEF TypeOK
  <2>2. cut' \in BOOLEAN
    BY DEF TypeOK
  <2> QED
    BY <1>1, <1>2, <2>1, <2>2 DEF Arrived
<1> QED
  BY <1>1, <1>2, <1>3 DEF Counted, Whole

LEMMA ReceiveReads ==
    ASSUME SIZE > 11, WInv, Receive, TypeOK'
    PROVE  Framed(answer') /\ Arrived' /\ Counted' /\ Whole'
<1>1. answer' = answer /\ cut' = cut /\ cut \in BOOLEAN
  BY DEF Receive, ReadHeader, EndInHeader, ReadBody, Received, ReadFails, connection,
         WInv, TypeOK
<1>2. Framed(answer')
  BY <1>1 DEF WInv
<1>3. Arrived'
  <2>1. CASE ReadHeader \/ ReadBody
    <3>1. buffer' \o wire' = buffer \o wire
      BY <2>1, ReadJoins DEF ReadHeader, ReadBody, WInv, TypeOK
    <3> QED
      BY <1>1, <3>1 DEF WInv, Arrived
  <2>2. CASE EndInHeader \/ Received \/ ReadFails
    BY <1>1, <2>2 DEF EndInHeader, Received, ReadFails, reader, connection, WInv, Arrived
  <2> QED
    BY <2>1, <2>2 DEF Receive
<1>4. CASE ReadHeader
  <2>1. Whole'
    BY <1>4 DEF ReadHeader, Whole
  <2>2. ASSUME pc' = "body", cut' = FALSE
        PROVE  total' = Len(answer')
    <3>1. /\ header_end' = HeaderEnd(buffer') /\ HasLength(buffer')
          /\ content_length' = strtol(buffer', LengthStart(buffer') + 1)
      BY <1>4, <2>2 DEF ReadHeader
    <3>2. Begins(buffer', answer')
      <4>1. buffer' \in Seq(Units) /\ wire' \in Seq(Units) /\ answer' = buffer' \o wire'
        BY <1>3, <2>2 DEF TypeOK, Arrived
      <4>2. /\ Len(buffer' \o wire') = Len(buffer') + Len(wire')
            /\ \A i \in 1..Len(buffer') : (buffer' \o wire')[i] = buffer'[i]
        BY <4>1, JoinedUnits
      <4>3. Len(buffer') \in Nat /\ Len(wire') \in Nat
        BY <4>1
      <4> QED
        BY <4>1, <4>2, <4>3 DEF Begins
    <3>3. answer' \in Seq(Units) /\ buffer' \in Seq(Units)
      BY DEF TypeOK
    <3>4. content_length' + header_end' = Len(answer')
      BY <1>2, <3>1, <3>2, <3>3, LengthInPart
    <3>5. Len(answer') \in Nat /\ Len(answer') < SIZE /\ SIZE \in Nat \ {0}
      BY <1>2, <3>3, HttpAssumption DEF Framed
    <3>6. Len(answer') % SIZE = Len(answer')
      BY <3>5
    <3> QED
      BY <3>4, <3>6 DEF total
  <2>3. Counted'
    BY <1>1, <2>2 DEF Counted
  <2> QED
    BY <1>2, <1>3, <2>1, <2>3
<1>5. CASE EndInHeader
  <2>1. wire' = <<>> /\ pc' = "body"
    BY <1>5 DEF EndInHeader, AtEnd, connection
  <2> QED
    BY <1>2, <1>3, <2>1 DEF Counted, Whole
<1>6. CASE ReadBody
  <2>1. pc' = "body" /\ pc = "body" /\ total' = total
    BY <1>6 DEF ReadBody, total
  <2>2. wire # <<>>
    <3>1. Len(wire) > 0
      BY <1>6, ReadMoves DEF ReadBody, WInv, TypeOK
    <3> QED
      BY <3>1
  <2> QED
    BY <1>1, <1>2, <1>3, <2>1, <2>2 DEF WInv, Counted, Whole
<1>7. CASE Received
  <2>1. pc = "body" /\ pc' = "process" /\ UNCHANGED <<buffer, wire>>
    BY <1>7 DEF Received, reader, connection
  <2>2. ASSUME cut = FALSE
        PROVE  wire = <<>>
    <3>1. CASE AtEnd
      BY <3>1 DEF AtEnd
    <3>2. CASE Len(buffer) >= total
      <4>1. wire = <<>> \/ total = Len(answer)
        BY <2>1, <2>2 DEF WInv, Counted
      <4>2. CASE total = Len(answer)
        <5>1. Len(answer) = Len(buffer) + Len(wire)
          BY <2>2, PartOfAnswer DEF WInv
        <5>2. Len(buffer) \in Nat /\ Len(wire) \in Nat /\ wire \in Seq(Units)
          BY DEF WInv, TypeOK
        <5>3. Len(wire) = 0
          BY <3>2, <4>2, <5>1, <5>2
        <5> QED
          BY <5>2, <5>3, EmptySeq
      <4> QED
        BY <4>1, <4>2
    <3> QED
      BY <1>7, <3>1, <3>2 DEF Received
  <2>3. Whole'
    <3>1. ASSUME cut = FALSE
          PROVE  buffer = answer
      BY <2>2, <3>1, AllRead DEF WInv
    <3> QED
      BY <1>1, <2>1, <3>1 DEF Whole
  <2> QED
    BY <1>2, <1>3, <2>1, <2>3 DEF Counted
<1>8. CASE ReadFails
  <2>1. pc' = "exited"
    BY <1>8 DEF ReadFails
  <2> QED
    BY <1>2, <1>3, <2>1 DEF Counted, Whole
<1> QED
  BY <1>4, <1>5, <1>6, <1>7, <1>8 DEF Receive

LEMMA WNext == SIZE > 11 /\ WInv /\ [Next]_vars => WInv'
<1> SUFFICES ASSUME SIZE > 11, WInv, [Next]_vars
             PROVE  WInv'
  OBVIOUS
<1>1. TypeOK' /\ Quiet' /\ Understood'
  BY TypeNext, QuietNext, UnderstoodNext DEF WInv
<1>2. Framed(answer') /\ Arrived' /\ Counted' /\ Whole'
  <2>1. ASSUME UNCHANGED <<answer, wire, cut, buffer, header_end, content_length>>,
               pc' = pc \/ pc' \in {"prompt", "crashed"}
        PROVE  Framed(answer') /\ Arrived' /\ Counted' /\ Whole'
    BY <2>1 DEF WInv, Arrived, Counted, Whole, total
  <2>2. CASE \E s \in Sessions : Expire(s)
    BY <2>1, <2>2 DEF Expire, reader, connection
  <2>3. CASE Handle
    BY <2>1, <2>3 DEF Handle, HandleLogin, HandleEnter, HandleLogout, HandleOther,
                      reader, connection
  <2>4. CASE UNCHANGED vars
    BY <2>1, <2>4 DEF vars
  <2> QED
    BY <1>1, <2>2, <2>3, <2>4, CommandReads, ServeReads, ReceiveReads DEF Next
<1> QED
  BY <1>1, <1>2 DEF WInv

\* Whatever the number and the sizes of the reads, a response that is not cut is
\* handed on whole, with a length in it or without; and the service reads in a
\* request the credential and the payload the command is to carry
\* (helpers.c:73-125, requests.c).  size_t counts further than a response is long.
THEOREM SaidIsMeant == SIZE > 11 => (Spec => []Exchanged)
<1> SUFFICES ASSUME SIZE > 11 PROVE Spec => []Exchanged
  OBVIOUS
<1>1. Init => WInv
  BY WInit
<1>2. WInv /\ [Next]_vars => WInv'
  BY WNext
<1>3. WInv => Exchanged
  BY DEF WInv, Exchanged
<1> QED
  BY <1>1, <1>2, <1>3, PTL DEF Spec
-----------------------------------------------------------------------------
(* What ends the program *)

\* What ends a text comes right behind it, and nowhere else.
Followed(a, kind, end) ==
    /\ \A i \in 1..Len(a) : a[i].kind = kind => i + 1 \in 1..Len(a) /\ a[i + 1].kind = end
    /\ \A i \in 1..Len(a) : a[i].kind = end => i - 1 \in 1..Len(a) /\ a[i - 1].kind = kind

LEMMA KindFirst ==
    ASSUME NEW b \in Seq(Units), NEW kind, NEW i \in 1..Len(b), b[i].kind = kind
    PROVE  FindKind(b, kind) \in Nat /\ FindKind(b, kind) <= i - 1
<1> DEFINE places == {j \in 0..(Len(b) - 1) : b[j + 1].kind = kind}
<1>1. i - 1 \in places
  <2>1. i - 1 \in 0..(Len(b) - 1) /\ i - 1 + 1 = i
    OBVIOUS
  <2> QED
    BY <2>1
<1>2. places \in SUBSET Nat
  OBVIOUS
<1>3. FindKind(b, kind) = FirstOf(places)
  BY DEF FindKind
<1> HIDE DEF places
<1>4. FindKind(b, kind) = Min(places)
  BY <1>1, <1>3 DEF FirstOf
<1>5. Min(places) \in places /\ Min(places) <= i - 1
  BY <1>1, <1>2, MinIsLeast
<1> QED
  BY <1>2, <1>4, <1>5

\* strstr() finds the end behind the text it has found.
LEMMA CopiesMarked ==
    ASSUME buffer \in Seq(Units), NEW kind, NEW end, NEW old \in Strings,
           Followed(buffer, kind, end), FindKind(buffer, kind) >= 0
    PROVE  Copied(kind, end, old) # NULL
<1> DEFINE at == FindKind(buffer, kind)
           e == FindKind(buffer, end)
<1>1. at \in Int /\ at >= 0 /\ at + 1 \in 1..Len(buffer) /\ buffer[at + 1].kind = kind
  BY KindFound
<1>2. at + 1 + 1 \in 1..Len(buffer) /\ buffer[at + 1 + 1].kind = end
  BY <1>1 DEF Followed
<1>3. e \in Nat
  BY <1>2, KindFirst
<1> DEFINE p == e + 1
<1>4. p \in 1..Len(buffer) /\ buffer[p].kind = end
  BY <1>3, KindFound
<1>5. p - 1 \in 1..Len(buffer) /\ buffer[p - 1].kind = kind
  <2> HIDE DEF p
  <2> QED
    BY <1>4 DEF Followed
<1>6. at <= p - 1 - 1
  <2> HIDE DEF p
  <2> QED
    BY <1>5, KindFirst
<1>7. ~(at < 0 \/ e < at)
  BY <1>1, <1>3, <1>6
<1>8. Copied(kind, end, old) = strncpy(old, buffer[at + 1].text)
  BY <1>7 DEF Copied
<1>9. buffer[at + 1].text \in Strings
  BY <1>1 DEF Units
<1> QED
  BY <1>8, <1>9, CopyIsString, HttpAssumption

\* A pair stays a pair in a response.
LEMMA FollowedLaid ==
    ASSUME NEW kind, NEW end,
           kind \notin {"status", "\r\n", "Content-Length", "digit"},
           end \notin {"status", "\r\n", "Content-Length", "digit"},
           NEW fields \in Seq(Units), NEW length \in Seq(Units), NEW body \in Seq(Units),
           Followed(fields, kind, end), Followed(body, kind, end),
           \A i \in 1..Len(length) : length[i].kind \in {"\r\n", "Content-Length", "digit"}
    PROVE  Followed(Laid(fields, length, body), kind, end)
<1> DEFINE r == Laid(fields, length, body)
           k == Len(fields)
           w == Len(length)
           n == Len(body)
           d == k + w + 3
<1>1. k \in Nat /\ w \in Nat /\ n \in Nat /\ d = k + w + 3
  OBVIOUS
<1>2. r \in Seq(Units) /\ Len(r) = d + n
  BY ResponseUnits
<1>3. r[1] = Word("status") /\ r[2] = Eol /\ r[d] = Eol
  BY ResponseUnits
<1>4. \A i \in 1..k : r[2 + i] = fields[i]
  BY ResponseUnits
<1>5. \A i \in 1..w : r[k + 2 + i] = length[i]
  BY ResponseUnits
<1>6. \A i \in 1..n : r[d + i] = body[i]
  BY ResponseUnits
<1> HIDE DEF r, k, w, n, d
<1>7. r[1].kind = "status" /\ r[2].kind = "\r\n" /\ r[d].kind = "\r\n"
  BY <1>3, KindOf
<1>8. ASSUME NEW i \in 1..Len(r), r[i].kind \in {kind, end}
      PROVE  \/ i - 2 \in 1..k /\ r[i] = fields[i - 2]
             \/ i - d \in 1..n /\ r[i] = body[i - d]
  <2>1. i = 1 \/ i = 2 \/ i - 2 \in 1..k \/ i - (k + 2) \in 1..w \/ i = d \/ i - d \in 1..n
    BY <1>1, <1>2
  <2>2. i # 1 /\ i # 2 /\ i # d
    BY <1>7, <1>8
  <2>3. ~(i - (k + 2) \in 1..w)
    <3>1. SUFFICES ASSUME i - (k + 2) \in 1..w
                   PROVE  FALSE
      OBVIOUS
    <3>2. k + 2 + (i - (k + 2)) = i
      BY <1>1
    <3>3. r[i] = length[i - (k + 2)]
      BY <1>5, <3>1, <3>2
    <3>4. length[i - (k + 2)].kind \in {"\r\n", "Content-Length", "digit"}
      BY <3>1 DEF w
    <3> QED
      BY <1>8, <3>3, <3>4
  <2>4. i - 2 \in 1..k => r[i] = fields[i - 2]
    <3>1. 2 + (i - 2) = i
      OBVIOUS
    <3> QED
      BY <1>4, <3>1
  <2>5. i - d \in 1..n => r[i] = body[i - d]
    <3>1. d + (i - d) = i
      BY <1>1
    <3> QED
      BY <1>6, <3>1
  <2> QED
    BY <2>1, <2>2, <2>3, <2>4, <2>5
<1>9. ASSUME NEW i \in 1..Len(r), r[i].kind = kind
      PROVE  i + 1 \in 1..Len(r) /\ r[i + 1].kind = end
  <2>1. CASE i - 2 \in 1..k /\ r[i] = fields[i - 2]
    <3>1. i - 2 + 1 \in 1..k /\ fields[i - 2 + 1].kind = end
      BY <1>9, <2>1 DEF Followed, k
    <3>2. 2 + (i - 2 + 1) = i + 1 /\ i + 1 \in 1..Len(r)
      BY <1>1, <1>2, <3>1
    <3>3. r[2 + (i - 2 + 1)] = fields[i - 2 + 1]
      BY <1>4, <3>1
    <3> QED
      BY <3>1, <3>2, <3>3
  <2>2. CASE i - d \in 1..n /\ r[i] = body[i - d]
    <3>1. i - d + 1 \in 1..n /\ body[i - d + 1].kind = end
      BY <1>9, <2>2 DEF Followed, n
    <3>2. d + (i - d + 1) = i + 1 /\ i + 1 \in 1..Len(r)
      BY <1>1, <1>2, <3>1
    <3>3. r[d + (i - d + 1)] = body[i - d + 1]
      BY <1>6, <3>1
    <3> QED
      BY <3>1, <3>2, <3>3
  <2> QED
    BY <1>8, <1>9, <2>1, <2>2
<1>10. ASSUME NEW i \in 1..Len(r), r[i].kind = end
       PROVE  i - 1 \in 1..Len(r) /\ r[i - 1].kind = kind
  <2>1. CASE i - 2 \in 1..k /\ r[i] = fields[i - 2]
    <3>1. i - 2 - 1 \in 1..k /\ fields[i - 2 - 1].kind = kind
      BY <1>10, <2>1 DEF Followed, k
    <3>2. 2 + (i - 2 - 1) = i - 1 /\ i - 1 \in 1..Len(r)
      BY <1>1, <1>2, <3>1
    <3>3. r[2 + (i - 2 - 1)] = fields[i - 2 - 1]
      BY <1>4, <3>1
    <3> QED
      BY <3>1, <3>2, <3>3
  <2>2. CASE i - d \in 1..n /\ r[i] = body[i - d]
    <3>1. i - d - 1 \in 1..n /\ body[i - d - 1].kind = kind
      BY <1>10, <2>2 DEF Followed, n
    <3>2. d + (i - d - 1) = i - 1 /\ i - 1 \in 1..Len(r)
      BY <1>1, <1>2, <3>1
    <3>3. r[d + (i - d - 1)] = body[i - d - 1]
      BY <1>6, <3>1
    <3> QED
      BY <3>1, <3>2, <3>3
  <2> QED
    BY <1>8, <1>10, <2>1, <2>2
<1>11. Followed(r, kind, end)
  BY <1>9, <1>10 DEF Followed
<1> QED
  BY <1>11 DEF r

Marked(a) == Followed(a, "Set-Cookie", "semicolon") /\ Followed(a, "token", "quote")

LEMMA ResponseMarked ==
    ASSUME NEW fields \in Seq(Units), NEW body \in Seq(Units), NEW withLength \in BOOLEAN,
           Marked(fields), Marked(body)
    PROVE  /\ Marked(Response(fields, body, withLength))
           /\ \A i \in 1..Len(body) : \E j \in 1..Len(Response(fields, body, withLength)) :
                Response(fields, body, withLength)[j] = body[i]
<1> DEFINE length == IF withLength THEN LengthLine(Len(body)) ELSE <<>>
           r == Laid(fields, length, body)
<1>1. Response(fields, body, withLength) = r
  BY DEF Response, Laid
<1>2. /\ length \in Seq(Units)
      /\ \A i \in 1..Len(length) : length[i].kind \in {"\r\n", "Content-Length", "digit"}
  <2>1. CASE withLength
    <3> DEFINE l == LengthLine(Len(body))
    <3>1. /\ l \in Seq(Units) /\ Len(l) = 4 /\ l[1].kind = "Content-Length"
          /\ l[2].kind = "digit" /\ l[3].kind = "digit" /\ l[4] = Eol
      BY LengthUnits
    <3> HIDE DEF l
    <3>2. \A i \in 1..Len(l) : i = 1 \/ i = 2 \/ i = 3 \/ i = 4
      BY <3>1
    <3>3. \A i \in 1..Len(l) : l[i].kind \in {"\r\n", "Content-Length", "digit"}
      BY <3>1, <3>2, KindOf
    <3>4. length = l
      BY <2>1 DEF l
    <3> QED
      BY <3>1, <3>3, <3>4
  <2>2. CASE ~withLength
    <3> DEFINE e == <<>>
    <3>1. e \in Seq(Units) /\ Len(e) = 0 /\ length = e
      BY <2>2, EmptySeq
    <3> HIDE DEF e
    <3>2. \A i \in 1..Len(e) : FALSE
      BY <3>1
    <3> HIDE DEF length
    <3> QED
      BY <3>1, <3>2
  <2> QED
    BY <2>1, <2>2
<1> HIDE DEF length
<1>3. Marked(r)
  BY <1>2, FollowedLaid DEF Marked
<1>4. \A i \in 1..Len(body) : r[Len(fields) + Len(length) + 3 + i] = body[i]
  BY <1>2, ResponseUnits
<1>5. Len(r) = Len(fields) + Len(length) + 3 + Len(body)
  BY <1>2, ResponseUnits
<1> HIDE DEF r
<1>6. ASSUME NEW i \in 1..Len(body)
      PROVE  \E j \in 1..Len(r) : r[j] = body[i]
  <2>1. Len(fields) + Len(length) + 3 + i \in 1..Len(r)
    BY <1>2, <1>5
  <2> QED
    BY <1>4, <2>1
<1> QED
  BY <1>1, <1>3, <1>6

\* No mark in a text, none to be followed.
LEMMA Unmarked ==
    ASSUME NEW a \in Seq(Units),
           \A i \in 1..Len(a) : a[i].kind \notin {"Set-Cookie", "semicolon", "token", "quote"}
    PROVE  Marked(a)
  BY DEF Marked, Followed

\* What the service answers is marked.
LEMMA AnswersMarked ==
    /\ Marked(<<>>) /\ Marked(Plain)
    /\ \A s \in Sessions : Marked(<<Text("Set-Cookie", CookieOf(s)), Word("semicolon"), Eol>>)
    /\ \A s \in Sessions : Marked(<<Text("token", TokenOf(s)), Word("quote")>>)
<1>1. Marked(<<>>)
  <2> DEFINE e == <<>>
  <2>1. e \in Seq(Units) /\ Len(e) = 0
    BY EmptySeq
  <2> HIDE DEF e
  <2>2. Marked(e)
    <3>1. \A i \in 1..Len(e) : FALSE
      BY <2>1
    <3> QED
      BY <2>1, <3>1, Unmarked
  <2> QED
    BY <2>2 DEF e
<1>2. Marked(Plain)
  <2> DEFINE p == Plain
  <2>1. p \in Seq(Units) /\ Len(p) = 1 /\ p[1].kind = "body"
    BY UnitsFrame, PlainIn, KindOf DEF Plain
  <2> HIDE DEF p
  <2>2. Marked(p)
    BY <2>1, Unmarked
  <2> QED
    BY <2>2 DEF p
<1>3. ASSUME NEW s \in Sessions
      PROVE  Marked(<<Text("Set-Cookie", CookieOf(s)), Word("semicolon"), Eol>>)
  <2> DEFINE a == Text("Set-Cookie", CookieOf(s))
             b == Word("semicolon")
             f == <<a, b, Eol>>
  <2>1. a \in Units /\ b \in Units /\ Eol \in Units
    BY CookieIsString, UnitOf, UnitsFrame DEF Frame, Kinds
  <2>2. a.kind = "Set-Cookie" /\ b.kind = "semicolon" /\ Eol.kind = "\r\n"
    BY KindOf
  <2> HIDE DEF a, b
  <2>3. f \in Seq(Units) /\ Len(f) = 3 /\ f[1] = a /\ f[2] = b /\ f[3] = Eol
    BY <2>1
  <2> HIDE DEF f
  <2>4. \A i \in 1..Len(f) : i = 1 \/ i = 2 \/ i = 3
    BY <2>3
  <2>5. f[1].kind = "Set-Cookie" /\ f[2].kind = "semicolon" /\ f[3].kind = "\r\n"
    BY <2>2, <2>3
  <2>6. Followed(f, "Set-Cookie", "semicolon")
    <3>1. ASSUME NEW i \in 1..Len(f), f[i].kind = "Set-Cookie"
          PROVE  i + 1 \in 1..Len(f) /\ f[i + 1].kind = "semicolon"
      <4>1. i = 1
        BY <2>4, <2>5, <3>1
      <4> QED
        BY <2>3, <2>5, <4>1
    <3>2. ASSUME NEW i \in 1..Len(f), f[i].kind = "semicolon"
          PROVE  i - 1 \in 1..Len(f) /\ f[i - 1].kind = "Set-Cookie"
      <4>1. i = 2
        BY <2>4, <2>5, <3>2
      <4> QED
        BY <2>3, <2>5, <4>1
    <3> QED
      BY <3>1, <3>2 DEF Followed
  <2>7. Followed(f, "token", "quote")
    BY <2>4, <2>5 DEF Followed
  <2> QED
    BY <2>6, <2>7 DEF Marked, f, a, b
<1>4. ASSUME NEW s \in Sessions
      PROVE  Marked(<<Text("token", TokenOf(s)), Word("quote")>>)
  <2> DEFINE a == Text("token", TokenOf(s))
             b == Word("quote")
             f == <<a, b>>
  <2>1. a \in Units /\ b \in Units
    BY CookieIsString, UnitOf, UnitsFrame DEF Frame, Kinds
  <2>2. a.kind = "token" /\ b.kind = "quote"
    BY KindOf
  <2> HIDE DEF a, b
  <2>3. f \in Seq(Units) /\ Len(f) = 2 /\ f[1] = a /\ f[2] = b
    BY <2>1
  <2> HIDE DEF f
  <2>4. \A i \in 1..Len(f) : i = 1 \/ i = 2
    BY <2>3
  <2>5. f[1].kind = "token" /\ f[2].kind = "quote"
    BY <2>2, <2>3
  <2>6. Followed(f, "token", "quote")
    <3>1. ASSUME NEW i \in 1..Len(f), f[i].kind = "token"
          PROVE  i + 1 \in 1..Len(f) /\ f[i + 1].kind = "quote"
      <4>1. i = 1
        BY <2>4, <2>5, <3>1
      <4> QED
        BY <2>3, <2>5, <4>1
    <3>2. ASSUME NEW i \in 1..Len(f), f[i].kind = "quote"
          PROVE  i - 1 \in 1..Len(f) /\ f[i - 1].kind = "token"
      <4>1. i = 2
        BY <2>4, <2>5, <3>2
      <4> QED
        BY <2>3, <2>5, <4>1
    <3> QED
      BY <3>1, <3>2 DEF Followed
  <2>7. Followed(f, "Set-Cookie", "semicolon")
    BY <2>4, <2>5 DEF Followed
  <2> QED
    BY <2>6, <2>7 DEF Marked, f, a, b
<1> QED
  BY <1>1, <1>2, <1>3, <1>4

\* A cookie the client holds is that of a session that was opened.
Opened == \A s \in Sessions : cookie = CookieOf(s) => session[s] # "unused"

\* A request to enter names the library.
Enters == request # <<>> /\ command = "enter_library" => Asks("access")

\* The answer to it has a token, or the session is over by itself.
Entered ==
    command = "enter_library" /\ pc \in {"header", "body", "process"} /\ request = <<>> =>
      \A s \in Sessions : cookie = CookieOf(s) =>
        session[s] = "expired" \/ \E i \in 1..Len(answer) : answer[i].kind = "token"

CrashInv == IInv /\ WInv /\ Opened /\ Enters /\ Marked(answer) /\ Entered /\ FallsOnlyThen

LEMMA CrashInit == SIZE > 11 /\ Init => CrashInv
<1> SUFFICES ASSUME SIZE > 11, Init
             PROVE  CrashInv
  OBVIOUS
<1>1. IInv /\ WInv
  BY IInit, WInit
<1>2. Opened
  BY CookieIsString DEF Init, Opened, CookieOf
<1>3. Enters /\ Marked(answer) /\ Entered /\ FallsOnlyThen
  BY AnswersMarked DEF Init, Enters, Entered, FallsOnlyThen
<1> QED
  BY <1>1, <1>2, <1>3 DEF CrashInv

LEMMA CommandCrash ==
    ASSUME CrashInv, Command
    PROVE  Enters' /\ Marked(answer') /\ Entered' /\ FallsOnlyThen'
<1>1. CASE Exit
  BY <1>1 DEF Exit, client, connection, CrashInv, Enters, Entered, FallsOnlyThen, Asks
<1>2. CASE EnterLibrary
  <2> DEFINE m == compute_get_request("access", cookie, NULL)
  <2>1. \E i \in 1..Len(m) : m[i].kind = "access"
    <3>1. "access" \in Urls /\ cookie \in Strings /\ NULL \in Strings \cup {NULL}
      BY DEF Urls, CrashInv, IInv, TypeOK
    <3> QED
      BY <3>1, GetReads
  <2>2. Ask("enter_library", m)
    BY <1>2 DEF EnterLibrary
  <2> HIDE DEF m
  <2>3. request' = m /\ pc' = "header" /\ answer' = <<>>
    BY <2>2 DEF Ask
  <2>4. Asks("access")'
    BY <2>1, <2>3 DEF Asks
  <2>5. request' # <<>>
    <3> DEFINE e == <<>>
    <3>1. Len(e) = 0
      BY EmptySeq
    <3> HIDE DEF e
    <3>2. m # e
      BY <2>1, <3>1
    <3> QED
      BY <2>3, <3>2 DEF e
  <2> QED
    BY <2>3, <2>4, <2>5, AnswersMarked DEF Enters, Entered, FallsOnlyThen
<1>3. CASE ~Exit /\ ~EnterLibrary
  <2>1. command' # "enter_library" /\ pc' = "header" /\ answer' = <<>>
    BY <1>3 DEF Command, Register, Login, GetBooks, GetBook, AddBook, DeleteBook, Logout, Ask
  <2> QED
    BY <2>1, AnswersMarked DEF Enters, Entered, FallsOnlyThen
<1> QED
  BY <1>1, <1>2, <1>3

LEMMA ServeMarks ==
    ASSUME Serve
    PROVE  Marked(answer')
<1>1. ASSUME NEW fields \in Seq(Units), NEW body \in Seq(Units), Marked(fields), Marked(body),
             Answer(fields, body)
      PROVE  Marked(answer')
  BY <1>1, ResponseMarked DEF Answer
<1>2. CASE \E s \in Sessions : ServeLogin(s)
  <2>1. PICK s \in Sessions : ServeLogin(s)
    BY <1>2
  <2> DEFINE f == <<Text("Set-Cookie", CookieOf(s)), Word("semicolon"), Eol>>
  <2>2. Answer(f, Plain)
    BY <2>1 DEF ServeLogin
  <2>3. f \in Seq(Units) /\ Marked(f) /\ Plain \in Seq(Units) /\ Marked(Plain)
    BY AnswersTidy, AnswersMarked
  <2> HIDE DEF f
  <2> QED
    BY <1>1, <2>2, <2>3
<1>3. CASE \E s \in Sessions : ServeAccess(s)
  <2>1. PICK s \in Sessions : ServeAccess(s)
    BY <1>3
  <2> DEFINE b == <<Text("token", TokenOf(s)), Word("quote")>>
             e == <<>>
  <2>2. Answer(e, b)
    BY <2>1 DEF ServeAccess
  <2>3. b \in Seq(Units) /\ Marked(b) /\ e \in Seq(Units) /\ Marked(e)
    BY AnswersTidy, AnswersMarked
  <2> HIDE DEF b, e
  <2> QED
    BY <1>1, <2>2, <2>3
<1>4. CASE ServeOther \/ \E s \in Sessions : ServeLogout(s)
  <2> DEFINE e == <<>>
  <2>1. Answer(e, Plain)
    BY <1>4 DEF ServeOther, ServeLogout
  <2>2. Plain \in Seq(Units) /\ Marked(Plain) /\ e \in Seq(Units) /\ Marked(e)
    BY AnswersTidy, AnswersMarked
  <2> HIDE DEF e
  <2> QED
    BY <1>1, <2>1, <2>2
<1> QED
  BY <1>2, <1>3, <1>4 DEF Serve

\* The answer to a request to enter the library.
LEMMA ServeEnters ==
    ASSUME CrashInv, Serve, command = "enter_library",
           NEW s \in Sessions, cookie = CookieOf(s)
    PROVE  session'[s] = "expired" \/ \E i \in 1..Len(answer') : answer'[i].kind = "token"
<1>1. request # <<>>
  BY AsksSomething DEF Serve, ServeLogin, ServeAccess, ServeLogout, ServeOther
<1>2. ~(\E r \in Sessions : ServeLogin(r) \/ ServeLogout(r))
  BY <1>1, AddressOfCommand DEF CrashInv, ServeLogin, ServeLogout
<1>3. CASE \E r \in Sessions : ServeAccess(r)
  <2>1. PICK r \in Sessions : ServeAccess(r)
    BY <1>3
  <2> DEFINE b == <<Text("token", TokenOf(r)), Word("quote")>>
             e == <<>>
  <2>2. Answer(e, b)
    BY <2>1 DEF ServeAccess
  <2>3. b \in Seq(Units) /\ Marked(b) /\ e \in Seq(Units) /\ Marked(e)
    BY AnswersTidy, AnswersMarked
  <2>4. Len(b) = 2 /\ b[1].kind = "token"
    <3>1. Text("token", TokenOf(r)).kind = "token"
      BY KindOf
    <3> QED
      BY <3>1
  <2> HIDE DEF b, e
  <2>5. PICK withLength \in BOOLEAN : answer' = Response(e, b, withLength)
    BY <2>2 DEF Answer
  <2>6. PICK i \in 1..Len(Response(e, b, withLength)) : Response(e, b, withLength)[i] = b[1]
    <3>1. 1 \in 1..Len(b)
      BY <2>4
    <3> QED
      BY <2>3, <3>1, ResponseMarked
  <2> QED
    BY <2>4, <2>5, <2>6
<1>4. CASE ServeOther
  <2>1. Asks("access")
    BY <1>1 DEF CrashInv, Enters
  <2>2. ~Bears(s) /\ session' = session
    BY <1>4, <2>1 DEF ServeOther
  <2>3. Field(request, "Cookie") = cookie
    BY <1>1 DEF CrashInv, WInv, Understood, ReadsCookie
  <2>4. session[s] # "live"
    BY <2>2, <2>3 DEF Bears
  <2>5. session[s] # "ended" /\ session[s] # "unused"
    BY DEF CrashInv, Opened, IInv, EndedOnlyInLogout
  <2>6. session[s] \in {"unused", "live", "expired", "ended"}
    BY DEF CrashInv, IInv, TypeOK
  <2> QED
    BY <2>2, <2>4, <2>5, <2>6
<1> QED
  BY <1>2, <1>3, <1>4 DEF Serve

\* The program ends over a response that is not cut only if the session is over.
LEMMA HandleFalls ==
    ASSUME CrashInv, Handle, pc' = "crashed", cut = FALSE
    PROVE  \E s \in Sessions : cookie' = CookieOf(s) /\ session'[s] = "expired"
<1>1. /\ pc = "process" /\ buffer = answer /\ buffer \in Seq(Units) /\ cookie \in Strings
      /\ <<>> \in Strings
  <2>1. pc = "process"
    BY DEF Handle, HandleLogin, HandleEnter, HandleLogout, HandleOther
  <2>2. <<>> \in Strings
    BY EmptySeq DEF Strings
  <2> QED
    BY <2>1, <2>2 DEF CrashInv, WInv, Whole, TypeOK
<1>2. /\ Followed(buffer, "Set-Cookie", "semicolon") /\ Followed(buffer, "token", "quote")
  BY <1>1 DEF CrashInv, Marked
<1>3. ~HandleLogin
  <2>1. SUFFICES ASSUME HandleLogin
                 PROVE  FALSE
    OBVIOUS
  <2>2. /\ FindKind(buffer, "Set-Cookie") >= 0
        /\ Copied("Set-Cookie", "semicolon", cookie) = NULL
    BY <2>1 DEF HandleLogin
  <2> QED
    BY <1>1, <1>2, <2>2, CopiesMarked
<1>4. HandleEnter
  BY <1>3 DEF Handle, HandleLogout, HandleOther
<1>5. /\ Copied("token", "quote", <<>>) = NULL /\ ~is_logged_out
      /\ command = "enter_library" /\ UNCHANGED <<cookie, session>>
  BY <1>4 DEF HandleEnter, TakesToken
<1>6. PICK s \in Sessions : cookie = CookieOf(s)
  BY <1>5 DEF CrashInv, IInv, OneSession
<1>7. ~(\E i \in 1..Len(answer) : answer[i].kind = "token")
  <2>1. SUFFICES ASSUME NEW i \in 1..Len(answer), answer[i].kind = "token"
                 PROVE  FALSE
    OBVIOUS
  <2>2. FindKind(buffer, "token") >= 0
    <3>1. FindKind(buffer, "token") \in Nat
      BY <1>1, <2>1, KindFirst
    <3> QED
      BY <3>1
  <2> QED
    BY <1>1, <1>2, <1>5, <2>2, CopiesMarked
<1>8. request = <<>>
  BY <1>1 DEF CrashInv, WInv, Quiet
<1>9. session[s] = "expired"
  BY <1>1, <1>5, <1>6, <1>7, <1>8 DEF CrashInv, Entered
<1> QED
  BY <1>5, <1>6, <1>9 DEF CookieOf

LEMMA OpenedNext ==
    ASSUME CrashInv, [Next]_vars
    PROVE  Opened'
<1>1. session \in [Sessions -> {"unused", "live", "expired", "ended"}]
  BY DEF CrashInv, IInv, TypeOK
<1>2. ASSUME cookie' = cookie,
             \A s \in Sessions : session[s] # "unused" => session'[s] # "unused"
      PROVE  Opened'
  BY <1>2 DEF CrashInv, Opened, CookieOf
<1>3. CASE Command
  BY <1>2, <1>3 DEF Command, Register, Login, EnterLibrary, GetBooks, GetBook, AddBook,
                    DeleteBook, Logout, Exit, Ask, client
<1>4. CASE Serve
  <2>1. cookie' = cookie
    BY <1>4 DEF Serve, ServeLogin, ServeAccess, ServeLogout, ServeOther, Answer, client
  <2>2. \A s \in Sessions : session[s] # "unused" => session'[s] # "unused"
    BY <1>1, <1>4 DEF Serve, ServeLogin, ServeAccess, ServeLogout, ServeOther
  <2> QED
    BY <1>2, <2>1, <2>2
<1>5. CASE \E s \in Sessions : Expire(s)
  BY <1>1, <1>2, <1>5 DEF Expire, client
<1>6. CASE Receive
  BY <1>2, <1>6 DEF Receive, ReadHeader, ReadBody, EndInHeader, Received, ReadFails, client
<1>7. CASE Handle
  <2>1. session' = session
    BY <1>7 DEF Handle, HandleLogin, HandleEnter, HandleLogout, HandleOther
  <2>2. CASE cookie' = cookie
    BY <1>2, <2>1, <2>2
  <2>3. CASE HandleLogin /\ cookie' # cookie
    <3>1. PICK s \in Sessions : cookie' = CookieOf(s) /\ session[s] \in {"live", "expired"}
      BY <2>3, LoginTakes DEF CrashInv
    <3>2. \A r \in Sessions : cookie' = CookieOf(r) => r = s
      BY <3>1, CookiesDiffer
    <3> QED
      BY <2>1, <3>1, <3>2 DEF Opened, CookieOf
  <2>4. CASE HandleLogout
    <3>1. cookie' = <<>>
      BY <2>4 DEF HandleLogout, Forget
    <3>2. \A s \in Sessions : cookie' # CookieOf(s)
      BY <3>1, CookieIsString
    <3> QED
      BY <3>2 DEF Opened, CookieOf
  <2> QED
    BY <1>7, <2>2, <2>3, <2>4 DEF Handle, HandleEnter, HandleOther, client
<1>8. CASE UNCHANGED vars
  BY <1>2, <1>8 DEF vars
<1> QED
  BY <1>3, <1>4, <1>5, <1>6, <1>7, <1>8 DEF Next

LEMMA CrashNext == SIZE > 11 /\ Careful /\ CrashInv /\ [Next]_vars => CrashInv'
<1> SUFFICES ASSUME SIZE > 11, Careful, CrashInv, [Next]_vars
             PROVE  CrashInv'
  OBVIOUS
<1>1. IInv' /\ WInv' /\ Opened'
  BY INext, WNext, OpenedNext DEF CrashInv
<1>2. session \in [Sessions -> {"unused", "live", "expired", "ended"}]
  BY DEF CrashInv, IInv, TypeOK
<1>3. ASSUME UNCHANGED <<command, cookie, request, answer, cut>>,
             \A s \in Sessions : session[s] = "expired" => session'[s] = "expired"
      PROVE  Enters' /\ Marked(answer')
  BY <1>3 DEF CrashInv, Enters, Asks
<1>4. ASSUME UNCHANGED <<command, cookie, request, answer, cut>>,
             \A s \in Sessions : session[s] = "expired" => session'[s] = "expired",
             pc \in {"header", "body", "process"} \/ pc' = pc, pc' # "crashed" \/ pc' = pc
      PROVE  Enters' /\ Marked(answer') /\ Entered' /\ FallsOnlyThen'
  <2>1. Entered'
    BY <1>4 DEF CrashInv, Entered, CookieOf
  <2>2. FallsOnlyThen'
    BY <1>4 DEF CrashInv, FallsOnlyThen, CookieOf
  <2> QED
    BY <1>3, <1>4, <2>1, <2>2
<1>5. Enters' /\ Marked(answer') /\ Entered' /\ FallsOnlyThen'
  <2>1. CASE Command
    BY <2>1, CommandCrash
  <2>2. CASE Serve
    <3>1. request # <<>> /\ pc' = pc /\ request' = <<>>
      BY <2>2, ServeFrames DEF Serve, ServeLogin, ServeAccess, ServeLogout, ServeOther, Answer
    <3>2. pc' = "header"
      BY <3>1 DEF CrashInv, WInv, Quiet
    <3>3. command' = command /\ cookie' = cookie
      BY <2>2 DEF Serve, ServeLogin, ServeAccess, ServeLogout, ServeOther, Answer, client
    <3>4. Entered'
      BY <2>2, <3>3, ServeEnters DEF Entered, CookieOf
    <3> QED
      BY <2>2, <3>1, <3>2, <3>4, ServeMarks DEF Enters, FallsOnlyThen
  <2>3. CASE \E s \in Sessions : Expire(s)
    BY <1>2, <1>4, <2>3 DEF Expire, client, connection
  <2>4. CASE Receive
    <3>1. /\ UNCHANGED <<command, cookie, request, answer, cut, session>>
          /\ pc \in {"header", "body"} /\ pc' # "crashed"
      BY <2>4 DEF Receive, ReadHeader, ReadBody, EndInHeader, Received, ReadFails,
                  client, connection
    <3> QED
      BY <1>4, <3>1
  <2>5. CASE Handle
    <3>1. /\ UNCHANGED <<command, request, answer, cut, session>>
          /\ pc = "process" /\ pc' \in {"prompt", "crashed"}
      BY <2>5 DEF Handle, HandleLogin, HandleEnter, HandleLogout, HandleOther,
                  client, connection
    <3>2. Enters' /\ Marked(answer') /\ Entered'
      BY <3>1 DEF CrashInv, Enters, Asks, Entered
    <3>3. FallsOnlyThen'
      <4>1. cut \in BOOLEAN
        BY DEF CrashInv, IInv, TypeOK
      <4>2. CASE pc' = "crashed" /\ cut = FALSE
        BY <2>5, <4>2, HandleFalls DEF FallsOnlyThen, CookieOf
      <4> QED
        BY <3>1, <4>1, <4>2 DEF FallsOnlyThen
    <3> QED
      BY <3>2, <3>3
  <2>6. CASE UNCHANGED vars
    BY <1>4, <2>6 DEF vars
  <2> QED
    BY <2>1, <2>2, <2>3, <2>4, <2>5, <2>6 DEF Next
<1> QED
  BY <1>1, <1>5 DEF CrashInv

\* With users that log out before they log in again, a search that finds
\* nothing ends the program only over a response that broke off, or when the
\* service has ended the session (client.c:137-142, 160-170).
THEOREM FallsOnlyThere == SIZE > 11 /\ Careful => (Spec => []FallsOnlyThen)
<1> SUFFICES ASSUME SIZE > 11, Careful PROVE Spec => []FallsOnlyThen
  OBVIOUS
<1>1. Init => CrashInv
  BY CrashInit
<1>2. CrashInv /\ [Next]_vars => CrashInv'
  BY CrashNext
<1>3. CrashInv => FallsOnlyThen
  BY DEF CrashInv
<1> QED
  BY <1>1, <1>2, <1>3, PTL DEF Spec
=============================================================================
