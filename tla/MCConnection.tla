---------------------------- MODULE MCConnection ----------------------------
(* Connection for TLC. *)
EXTENDS Connection

MCNumberOf == [w \in {"80", "080", "+80", "99999"} |-> IF w = "99999" THEN 99999 ELSE 80]

MCDecimal(n) == "80"

MCWidth == [f \in {"v4", "v6"} |-> IF f = "v4" THEN 2 ELSE 3]

MCMappedPrefix == <<1>>

V4(a, b) == Ip("v4", <<a, b>>)

V6(a, b, c) == Ip("v6", <<a, b, c>>)

\* Every text of up to four tokens, and some longer ones.
Texts == UNION {[1 .. n -> {"[", "]", ":", "a", "080", "99999"}] : n \in 0 .. 4}
         \cup {<<"[", "a", "]", ":", "080">>, <<"[", "]", "a", "]", ":", "80">>,
               <<"[", ":", ":", "a", "]", ":", "+80">>}

Path(prefix, text) == [prefix |-> prefix, text |-> text]

MCEntry(form, ip) == [form |-> form, ip |-> ip]

Line(entries) == [utf8 |-> TRUE, entries |-> entries]

Base == [method |-> "GET", path |-> Path("/", << >>), upgrade |-> FALSE, handshake |-> TRUE,
         credentials |-> TRUE, body |-> FALSE, lines |-> << >>, headers |-> 0, head |-> 1,
         total |-> 1]

Config(auth) == [auth |-> auth, trusted |-> << >>, peer |-> V4(0, 0)]

\* Every length of the head and of what follows it.
Shapes ==
    {[Base EXCEPT !.head = sizes[1], !.total = sizes[2], !.upgrade = up] :
        sizes \in {s \in (0 .. 7) \X (1 .. 7) : s[1] <= s[2]}, up \in BOOLEAN}

\* Every kind of request.  Only a GET is a handshake, and not every one with the header is.
Kinds ==
    {[Base EXCEPT !.method = m, !.path = p, !.upgrade = up, !.handshake = m = "GET" /\ rest,
                  !.credentials = good, !.headers = h, !.body = b, !.total = n] :
        m \in {"GET", "HEAD", "POST"},
        p \in {Path("/", << >>), Path("/auth/token", << >>), Path("/auth/other", << >>),
               Path("/x", << >>), Path("/udp:", <<"a", ":", "+80">>)},
        up \in BOOLEAN, rest \in BOOLEAN, good \in BOOLEAN,
        h \in {MAX_HEADERS, MAX_HEADERS + 1}, b \in BOOLEAN, n \in {1, 2}}

\* Every target.
Targets ==
    {[Base EXCEPT !.path = Path("/tcp:", t), !.upgrade = TRUE, !.credentials = good] :
        t \in Texts, good \in BOOLEAN}

Addresses == {V4(0, 0), V4(0, 1), V4(1, 1), V6(0, 0, 1), V6(1, 0, 1)}

EntryChoices == {MCEntry("ip", ip) : ip \in Addresses}
                \cup {MCEntry("ip:port", V4(0, 1)), MCEntry("[ip]", V6(0, 0, 1)),
                      MCEntry("other", None), MCEntry("empty", None)}

Lists == UNION {{<<Line(e)>> : e \in [1 .. n -> EntryChoices]} : n \in 0 .. 2}
         \cup {<<Line(<<a>>), [utf8 |-> u, entries |-> <<b, c>>]>> :
                  a \in EntryChoices,
                  b \in {MCEntry("ip", V4(1, 1)), MCEntry("other", None)},
                  c \in {MCEntry("ip", V4(0, 0))}, u \in BOOLEAN}

\* With room for one more header, and with none.
Forwarded ==
    {[Base EXCEPT !.lines = l, !.headers = h] : l \in Lists, h \in {MAX_HEADERS - 1, MAX_HEADERS}}

\* The ranges that can be configured (0.0.0.0/0, ::1/128, ...), and those that cannot.
Ranges == UNION {from_str(ip, p) : ip \in {V4(0, 0), V6(0, 0, 1), V6(1, 0, 1)},
                                   p \in {None, 0, 1, 3, 4}}

Proxied == {[auth |-> TRUE, trusted |-> <<r>>, peer |-> p] :
               r \in Ranges, p \in {V4(0, 0), V4(0, 1), V6(1, 0, 1)}}

MCCases == ({Config(TRUE)} \X (Shapes \cup Targets)) \cup ({Config(TRUE), Config(FALSE)} \X Kinds)
           \cup (Proxied \X Forwarded)

MCForgedLines == {Line(<<e>>) : e \in EntryChoices}

MCAnonymousTargets == {<<"a", ":", "080">>}
=============================================================================
