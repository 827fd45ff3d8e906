------------------------------ MODULE Connection ------------------------------
(***************************************************************************)
(* handle_connection() of src/src/proxy.rs up to the tunnel, with what it  *)
(* uses of http_probe.rs: the head of the request is read ahead in chunks, *)
(* answered if it is a plain request, and replayed to the websocket        *)
(* handshake otherwise.                                                    *)
(*                                                                         *)
(* The client's bytes are numbered; the first request.head of them are the *)
(* head (0: it never ends), the rest follows it.  What the head says is    *)
(* the rest of the record.  The client, the kernel and the handshake of    *)
(* tungstenite are external.                                               *)
(***************************************************************************)
EXTENDS Target, ClientAddr

CONSTANTS
    Cases,             \* pairs of a configuration (auth: is there an AuthConfig? trusted:
                       \* ranges, peer: address) and a request
    ForgedLines,       \* header lines that a client may put before the others
    AnonymousTargets,  \* texts of the anonymous targets in effect
    MAX_REQUEST_HEAD,
    MAX_HEADERS,
    CHUNK,             \* bytes one read of the head takes (2048)
    HANDSHAKE_BUFFER   \* bytes one read of the handshake takes

ASSUME ConnectionAssumption ==
    /\ MAX_REQUEST_HEAD \in Nat \ {0} /\ CHUNK \in Nat \ {0} /\ HANDSHAKE_BUFFER \in Nat \ {0}
    /\ \A c \in Cases : /\ c[2].total \in Nat /\ c[2].head \in 0 .. c[2].total
                        /\ c[2].path.text \in Seq(STRING)
    /\ AnonymousTargets \subseteq Seq(STRING)

\* Ranges and addresses come out of their parsers, and what a header line can hold is known.
ASSUME ForwardingAssumption ==
    /\ \A c \in Cases : /\ c[1].trusted \in Seq(IpRange) /\ c[1].peer \in Address
                        /\ c[2].lines \in Seq(HeaderLine) /\ c[2].headers \in Nat
                        /\ Len(c[2].lines) <= c[2].headers
    /\ MAX_HEADERS \in Nat
    /\ ForgedLines \subseteq HeaderLine

\* "No answer" is not an answer.
ASSUME NoneAssumption ==
    \A s \in 100 .. 599, b \in BOOLEAN : None # [status |-> s, body |-> b]

VARIABLES
    pc,         \* where the task waits
    config, request,
    client,     \* bytes sent so far, and whether it is there: "open", "eof" or "lost"
    socket,     \* bytes that have arrived and were not read
    head,       \* bytes read ahead; the prefix of ReplayStream
    position,   \* how much of it was replayed
    handed,     \* bytes the handshake and then the tunnel have read
    reply,      \* status that is being written, 0 if none
    answer,     \* what the client got: [status, body], or None
    dialled     \* upstream addresses a connection was attempted to

conn_vars == <<pc, config, request, client, socket, head, position, handed, reply, answer, dialled>>
stream_vars == <<socket, head, position, handed>>

Smaller(a, b) == IF a <= b THEN a ELSE b

Numbered(a, b) == [i \in 1 .. b - a + 1 |-> a + i - 1]

FirstOf(queue, n) == SubSeq(queue, 1, n)

Rest(queue, n) == SubSeq(queue, n + 1, Len(queue))

-----------------------------------------------------------------------------
(* Requests *)

\* The whole head is among the first n bytes.
EndsWithin(n) == request.head # 0 /\ request.head <= n

\* httparse takes the head: it is complete and has no more than MAX_HEADERS headers.
Parsed(h) == EndsWithin(Len(h)) /\ request.headers <= MAX_HEADERS

\* tungstenite takes it for a handshake: the Upgrade header, and the rest of what it asks
\* for (GET, HTTP/1.1, Connection, Sec-WebSocket-Version and Key).
IsHandshake == request.upgrade /\ request.handshake

IsRoot == request.path.prefix = "/"

IsTokenPath == request.path.prefix \in {"/auth/token", "/auth/other"}

\* Mutant: any request to "/" is a plain one.
parse_plain_request_upgrades(h) ==
    Parsed(h) /\ (IsTokenPath \/ (IsRoot /\ request.method \in {"GET", "HEAD"}))

\* A health check or a token request, without the Upgrade header of a websocket.
parse_plain_request(h) ==
    /\ Parsed(h)
    /\ \/ IsRoot /\ request.method \in {"GET", "HEAD"}
       \/ IsTokenPath
    /\ ~request.upgrade

allows_anonymous_target(path) ==
    \E t \in parse_target(path), line \in AnonymousTargets :
        \E a \in parse_host_port(line) : addr(t) = addr(a)

\* authorize_request; whether the credentials are good is Gateway's business.
authorized ==
    ~config.auth \/ allows_anonymous_target(request.path) \/ request.credentials

\* Mutant: a body is not refused.
handle_auth_request_takes_body ==
    IF ~config.auth \/ request.path.prefix # "/auth/token" THEN {404}
    ELSE IF request.method # "POST" THEN {405}
    ELSE {200, 204, 401, 500, 503}

\* The answers of the token endpoints, in the order of the checks.  "body": the headers
\* announce one.
handle_auth_request ==
    IF ~config.auth \/ request.path.prefix # "/auth/token" THEN {404}
    ELSE IF request.method # "POST" THEN {405}
    ELSE IF request.body THEN {400}
    ELSE {200, 204, 401, 500, 503}

plain_response ==
    IF IsRoot THEN IF authorized THEN {200} ELSE {401} ELSE handle_auth_request

\* The callback of the handshake: authorize, then capture_requested_target.
handshake_response ==
    IF ~authorized THEN 401
    ELSE IF IsRoot \/ parse_target(request.path) # {} THEN 101 ELSE 400

-----------------------------------------------------------------------------
(* The client *)

ClientSends ==
    /\ client.end = "open"
    /\ \E n \in 1 .. request.total - client.sent :
          /\ socket' = socket \o Numbered(client.sent + 1, client.sent + n)
          /\ client' = [client EXCEPT !.sent = @ + n]
    /\ UNCHANGED <<pc, config, request, head, position, handed, reply, answer, dialled>>

\* It ends its side, or is gone.
ClientEnds ==
    /\ client.end = "open"
    /\ client' \in {[client EXCEPT !.end = e] : e \in {"eof", "lost"}}
    /\ UNCHANGED <<pc, config, request, stream_vars, reply, answer, dialled>>

-----------------------------------------------------------------------------
(* The head *)

\* Mutant: only a read that fills the chunk is taken.
Readable_whole_chunks == {CHUNK} \cap 1 .. Len(socket)

\* What one read of the head takes.
Readable == {Smaller(CHUNK, Len(socket))} \ {0}

\* Mutant: no limit.
HeadEnough_no_limit(h) == EndsWithin(Len(h))

\* The condition of the loop of read_request_head, negated.
HeadEnough(h) == EndsWithin(Len(h)) \/ Len(h) >= MAX_REQUEST_HEAD

\* The address in the logs, from the moment the head was read.
reported ==
    client_addr(config.trusted, config.peer, IF Parsed(head) THEN request.lines ELSE << >>)

\* From the head to the next await.
Route(h) ==
    \/ parse_plain_request(h) /\ pc' = "respond" /\ reply' \in plain_response
    \/ ~parse_plain_request(h) /\ pc' = "handshake" /\ UNCHANGED reply

\* Mutant: a read of no bytes is tried again.
HeadEof_retries == FALSE

\* n == 0
HeadEof == client.end = "eof" /\ socket = << >>

read_request_head ==
    /\ pc = "read_head"
    /\ \/ /\ client.end # "lost"
          /\ \E n \in Readable :
                /\ head' = head \o FirstOf(socket, n)
                /\ socket' = Rest(socket, n)
          /\ \/ HeadEnough(head') /\ Route(head')
             \/ ~HeadEnough(head') /\ UNCHANGED <<pc, reply>>
       \/ /\ HeadEof
          /\ Route(head)
          /\ UNCHANGED <<head, socket>>
       \/ /\ client.end = "lost"
          /\ pc' = "closed"
          /\ UNCHANGED <<head, socket, reply>>
    /\ UNCHANGED <<config, request, client, position, handed, answer, dialled>>

\* The kernel resets a connection that is closed with bytes unread or still coming, and what
\* was just written may not arrive.
Unread == socket # << >> \/ client.sent < request.total

\* write_response, and the connection is closed.  A client that is gone gets nothing.
write_response ==
    /\ pc = "respond"
    /\ pc' = "closed"
    /\ \/ /\ client.end # "lost"
          /\ answer' = [status |-> reply, body |-> reply # 204 /\ request.method # "HEAD"]
       \/ /\ client.end = "lost" \/ Unread
          /\ UNCHANGED answer
    /\ UNCHANGED <<config, request, client, stream_vars, reply, dialled>>

-----------------------------------------------------------------------------
(* The handshake *)

\* Mutant: once the socket has more, it is read first.
Source_socket_first == IF socket # << >> THEN "socket" ELSE "prefix"

\* Where ReplayStream reads from.
Source == IF position < Len(head) THEN "prefix" ELSE "socket"

\* poll_read of ReplayStream.
Replay ==
    \/ /\ Source = "prefix"
       /\ LET n == Smaller(HANDSHAKE_BUFFER, Len(head) - position)
          IN  /\ handed' = handed \o SubSeq(head, position + 1, position + n)
              /\ position' = position + n
       /\ UNCHANGED <<head, socket>>
    \/ /\ Source = "socket" /\ client.end # "lost" /\ socket # << >>
       /\ LET n == Smaller(HANDSHAKE_BUFFER, Len(socket))
          IN  handed' = handed \o FirstOf(socket, n) /\ socket' = Rest(socket, n)
       /\ UNCHANGED <<head, position>>

ReplayEnds ==
    Source = "socket" /\ (client.end = "lost" \/ (client.end = "eof" /\ socket = << >>))

\* tungstenite reads until it has the head.  It answers a handshake, and gives up without an
\* answer on anything else (with the Upgrade header or not) and on bytes that came with the
\* head.
accept_hdr_async ==
    /\ pc = "handshake"
    /\ \/ /\ Replay
          /\ \/ ~EndsWithin(Len(handed')) /\ UNCHANGED <<pc, reply>>
             \/ /\ request.head = Len(handed') /\ IsHandshake
                /\ pc' = "reply" /\ reply' = handshake_response
             \/ /\ EndsWithin(Len(handed'))
                /\ request.head < Len(handed') \/ ~IsHandshake
                /\ pc' = "closed" /\ UNCHANGED reply
       \/ ReplayEnds /\ pc' = "closed" /\ UNCHANGED <<stream_vars, reply>>
    /\ UNCHANGED <<config, request, client, answer, dialled>>

\* Mutant: the upgrade is answered whatever the callback said.
AfterReply_accepts == IF IsRoot THEN "health" ELSE "connect"

\* What follows the answer to the handshake.
AfterReply ==
    IF reply # 101 THEN "closed" ELSE IF IsRoot THEN "health" ELSE "connect"

HandshakeReply ==
    /\ pc = "reply"
    /\ \/ /\ client.end # "lost"
          /\ answer' = [status |-> reply, body |-> reply # 101]
          /\ pc' = AfterReply
       \/ client.end = "lost" /\ pc' = "closed" /\ UNCHANGED answer
    /\ UNCHANGED <<config, request, client, stream_vars, reply, dialled>>

\* The message and the Close; it makes no difference whether they can be sent.
HealthCheck ==
    /\ pc = "health"
    /\ pc' = "closed"
    /\ UNCHANGED <<config, request, client, stream_vars, reply, answer, dialled>>

-----------------------------------------------------------------------------
(* The upstream *)

\* TcpStream::connect resolves and connects.
ConnectTcp ==
    /\ pc = "connect"
    /\ \E t \in parse_target(request.path) :
          t.protocol = "Tcp" /\ dialled' = dialled \cup {addr(t)}
    /\ pc' \in {"tunnel", "closed"}
    /\ UNCHANGED <<config, request, client, stream_vars, reply, answer>>

\* connect_udp: the first address of the target, a local socket of its family, connect().
\* Each of the three may fail; only the last names the upstream.
ConnectUdp ==
    /\ \/ /\ pc = "connect"
          /\ \E t \in parse_target(request.path) : t.protocol = "Udp"
          /\ pc' \in {"udp_bind", "closed"} /\ UNCHANGED dialled
       \/ pc = "udp_bind" /\ pc' \in {"udp_connect", "closed"} /\ UNCHANGED dialled
       \/ /\ pc = "udp_connect"
          /\ dialled' = dialled \cup {addr(t) : t \in parse_target(request.path)}
          /\ pc' \in {"tunnel", "closed"}
    /\ UNCHANGED <<config, request, client, stream_vars, reply, answer>>

\* The tunnel reads what is left of the stream, and may end; whether and when it does is
\* the matter of ProxyTcp and ProxyUdp.
Tunnel ==
    /\ pc = "tunnel"
    /\ \/ Replay /\ UNCHANGED pc
       \/ pc' = "closed" /\ UNCHANGED stream_vars
    /\ UNCHANGED <<config, request, client, reply, answer, dialled>>

-----------------------------------------------------------------------------

ConnInit ==
    /\ pc = "read_head"
    /\ \E c \in Cases : config = c[1] /\ request = c[2]
    /\ client = [sent |-> 0, end |-> "open"]
    /\ socket = << >> /\ head = << >> /\ position = 0 /\ handed = << >>
    /\ reply = 0 /\ answer = None /\ dialled = {}

\* The task before the tunnel, if it comes to one.
Task == \/ read_request_head \/ write_response \/ accept_hdr_async \/ HandshakeReply
        \/ HealthCheck \/ ConnectTcp \/ ConnectUdp

ConnNext == ClientSends \/ ClientEnds \/ Task \/ Tunnel

\* The runtime polls a task that can go on, and the kernel ends every attempt to connect.  A
\* tunnel may stay in a write for ever and is not assumed to end.
ConnSpec == ConnInit /\ [][ConnNext]_conn_vars /\ WF_conn_vars(Task)

-----------------------------------------------------------------------------
(* Properties *)

\* The limit is looked at between two reads: however the bytes arrive, the head that is
\* kept is shorter than the limit and one chunk, and little is read past its end.
HeadBounded ==
    /\ Len(head) < MAX_REQUEST_HEAD + CHUNK
    /\ request.head # 0 => Len(head) < request.head + CHUNK

\* Reading ahead and replaying implements reading the client's stream: handshake and
\* tunnel get its bytes in order, none twice and none missing, whatever was read ahead.
Replayed == INSTANCE Pipe WITH transit <- Rest(head, position) \o socket,
                               got <- handed, cut <- FALSE

ReplayIsExact == Replayed!PipeSpec

\* The target a text names, if it names one: there is one way to read it, the parser finds
\* it, and its normal form names the same target again.  So comparing normal forms, as the
\* anonymous targets are compared, never takes one target for another.
TargetsHaveOneReading ==
    LET text == request.path.text
    IN  /\ parse_host_port(text) = Readings(text)
        /\ \A t \in Readings(text) : parse_host_port(addr(t)) = {t}

\* The request may have its upstream without credentials.
Anonymous ==
    \E t \in Readings(request.path.text), line \in AnonymousTargets : t \in Readings(line)

\* Nothing is connected to but the target that the path of a websocket request names, after
\* the upgrade was answered, and then with credentials or to an anonymous target: what was
\* authorized is what is dialled.
DialsWhatWasAuthorized ==
    dialled # {} =>
        /\ IsHandshake /\ answer # None /\ answer.status = 101
        /\ dialled = {addr(t) : t \in Readings(request.path.text)}
        /\ ~config.auth \/ request.credentials \/ Anonymous

IsTargetPath == request.path.prefix \in {"/tcp:", "/udp:"} /\ Readings(request.path.text) # {}

\* The statuses the README gives for a request.
Documented ==
    IF ~(~config.auth \/ request.credentials \/ (IsTargetPath /\ Anonymous)) /\ ~IsTokenPath
    THEN {401}
    ELSE IF IsHandshake THEN IF IsRoot \/ IsTargetPath THEN {101} ELSE {400, 401}
    ELSE IF IsRoot THEN {200}
    ELSE IF IsTokenPath THEN IF config.auth THEN {200, 204, 400, 401, 404, 405, 500, 503} ELSE {404}
    ELSE {}

\* The plain requests the router answers itself.
IsPlain ==
    ~request.upgrade /\ (IsTokenPath \/ (IsRoot /\ request.method \in {"GET", "HEAD"}))

\* However its bytes are split, a request gets the documented answer or none; a plain
\* request to any other path gets none, nor does one with the Upgrade header that is no
\* handshake, and one for the header only gets no body.
AnsweredAsDocumented ==
    answer # None =>
        /\ answer.status \in Documented
        /\ IsHandshake \/ IsPlain
        /\ request.method = "HEAD" /\ IsPlain => ~answer.body

\* "Refusing a body also means there is nothing left unread on the connection that is
\* closed after the answer": the answer to a request that reached the token service is not
\* lost in the reset of a connection with unread bytes, if the client sends nothing after
\* its request.
TokenAnswersArrive ==
    (/\ pc = "closed" /\ client.end = "open"
     /\ request.total > request.head => request.body
     /\ IsTokenPath /\ reply \in {200, 204, 401, 500, 503})
        => answer # None

Entries == EntryList(request.lines)

\* The address in the logs is the peer's, or that of an entry right of which there are
\* trusted proxies only; and it is the entry of a trusted proxy only if all of them are.
ReportedIsNearest ==
    reported # config.peer =>
        /\ Trusted(config.trusted, config.peer)
        /\ \E i \in 1 .. Len(Entries) :
              /\ Entries[i].form # "other" /\ reported = to_canonical(Entries[i].ip)
              /\ \A j \in i + 1 .. Len(Entries) : ~Foreign(config.trusted, Entries[j])
              /\ i = 1 \/ Foreign(config.trusted, Entries[i])

\* Whether a head of so many headers and bytes is parsed, over the ways its bytes may arrive:
\* read_request_head() looks at its limit between two reads.
MayParse(headers, size) ==
    {b \in BOOLEAN : /\ b => headers <= MAX_HEADERS /\ size < MAX_REQUEST_HEAD + CHUNK
                     /\ ~b => headers > MAX_HEADERS \/ size > MAX_REQUEST_HEAD}

\* The addresses that may be reported for this request when its client puts a header line
\* of some bytes before the others.
ReportedBehind(line, bytes) ==
    {client_addr(config.trusted, config.peer, IF b THEN <<line>> \o request.lines ELSE << >>) :
        b \in MayParse(request.headers + 1, request.head + bytes)}

\* What a client writes cannot matter by what it says: there is an address that is no trusted
\* proxy in the part that trusted proxies added, or the peer is none.
IsSettled ==
    \/ ~Trusted(config.trusted, config.peer)
    \/ \E i \in 1 .. Len(Entries) : Foreign(config.trusted, Entries[i])

\* Lines that a client puts before the others never get it reported under an address of its
\* choice.  "Whatever a client puts to the left of that cannot change the outcome", says the
\* comment at the head of client_addr.rs; that is so as long as the head stays within both of
\* its limits.  With one header too many it does not parse, and the peer is reported.
ForgedEntriesChangeNothing ==
    Parsed(head) /\ IsSettled =>
        \A line \in ForgedLines, bytes \in 1 .. MAX_REQUEST_HEAD :
            /\ ReportedBehind(line, bytes) \subseteq {reported, config.peer}
            /\ request.headers < MAX_HEADERS /\ request.head + bytes <= MAX_REQUEST_HEAD
                  => ReportedBehind(line, bytes) = {reported}
            /\ request.headers = MAX_HEADERS => ReportedBehind(line, bytes) = {config.peer}

\* The requests that are to be answered: no bytes follow the head, and that of a plain one is
\* within the limits.
Answerable ==
    /\ request.head = request.total /\ request.head # 0
    /\ \/ IsHandshake
       \/ IsPlain /\ request.head <= MAX_REQUEST_HEAD /\ request.headers <= MAX_HEADERS

\* A client that sends its request and stays is answered, however the bytes arrive.
EveryRequestIsAnswered ==
    (client.sent = request.total /\ Answerable) ~> (answer # None \/ client.end # "open")

\* A client that ended its side or is gone leaves no task behind that waits for its request,
\* its handshake or its answer: the task ends, or has got to the tunnel.
ClientGoneEndsRequest == (client.end # "open") ~> (pc \in {"closed", "tunnel"})
=============================================================================
