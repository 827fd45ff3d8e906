# ws2tcp-router in TLA+

`ws2tcp-router` accepts WebSocket connections and forwards each to the TCP or
UDP upstream its path names. Requests are authorized by Basic credentials, by
signed access tokens, or not at all for listed targets. This directory holds a
specification of the router, the model-checking runs over it, and machine-checked
proofs. Paths below are relative to the repository, which the project sees as
`src/` (so `token.rs` is `src/src/token.rs`).

## 1. Inventory

The process is one Tokio *current-thread* runtime (`main.rs:29`). Two listeners
(ws, wss) spawn one task per connection; two more tasks poll files. Everything is
therefore interleaved at `await` points only, and a function that does not await
is atomic. Locks are never held over an `await`.

| Component | State | Operations | Talks to |
|---|---|---|---|
| Token service, `token.rs` | `State`: live refresh tokens, spent (rotated) ones, revoked families, time of the next sweep; the signing key | `login`, `refresh`, `revoke`, `verify_access`, `sweep`, `make_room` | called by the endpoints and by authorization; two clocks |
| Credentials, `auth.rs` | expected authorizations, anonymous targets | load at start, two 1-second polls, `basic_user`, `has_user`, `allows_anonymous_target` | two files that others edit |
| Token endpoints, `token_api.rs`; authorization, `auth.rs`; routing, `proxy.rs` | none of their own (the open tunnels) | `POST /auth/{token,refresh,revoke}`, health check, websocket handshake | the two above |
| TCP tunnel, `proxy_tcp` | a read buffer; what an `await` still has to write | the `select!` loop | client and upstream sockets |
| UDP tunnel, `proxy_udp` | the same, and two timeouts | the `select!` loop | client and upstream sockets |
| Request head, `http_probe.rs` | bytes read ahead | `read_request_head`, `parse_plain_request`, `ReplayStream`, `write_response` | a connection |
| Target parsing, `target.rs` | - | `parse_target`, `Target::addr` | authorization, tunnels |
| Client address, `client_addr.rs` | - | rightmost untrusted address of `X-Forwarded-For` | logging |
| Listeners, `main.rs`, `listener.rs` | bound sockets, spawned tasks | accept loop | connections |
| Arguments, `args.rs` | - | merge of file and command line, `validate` | everything, once |
| TLS, `tls.rs`; logging, `logging.rs` | - | set-up that can fail | libraries |

What is hard here, and what makes each part correct:

- **Token service.** Rotation, reuse detection, revocation and the bound on the
  store are four mechanisms on the same three maps, and each can undo another:
  a sweep that forgets too early un-revokes a login or hides a reuse. Expiry of
  access tokens is by the system clock in whole seconds, everything else by the
  monotonic clock. The random generator can fail half-way through a refresh. The
  store is memory only, while the signing key may outlive a restart.
- **Credentials.** Files are read at any moment of their being edited. In effect
  must always be one whole valid version, and in the end the last one.
- **Endpoints and authorization.** A token outlives changes of the credentials
  behind its user's name. A tunnel opens some awaits after its request was authorized.
- **Tunnels.** One task serves both directions, and awaits its writes inside the
  branches of `select!`. Order and completeness of the streams, the end of the
  tunnel, and timeouts that race with traffic.
- **Request head.** The head is read ahead to tell a plain request from a websocket,
  in chunks that end anywhere, and handed to the handshake again: no byte may be lost,
  repeated or moved, the limit is looked at between chunks, and every request has to
  be answered in one of three ways.
- **Targets.** The same text decides what is authorized (compared in normal form with
  the anonymous targets) and what is dialled; both have to mean the same upstream.
- **Client address.** Part of the list is written by the client, part by proxies.
- **Start-up.** Settings come from two places, one step of several fails, a listener
  serves before the other is bound, and a client stalls in its TLS handshake.

`PROJECT.json` lists the hazards line by line with the properties that cover them.

## 2. Modules

```
Sessions ◁┄┄ TokenService ──┬── TokenServiceProofs
                            ├── TokenFaults ── FaultProofs
                            └── Gateway ── GatewayProofs
                 AuthConfig ────┘

Target ──┬── Connection ┄┄▷ Pipe ◁┄┄ ProxyTcp       Args ── Startup
ClientAddr ┘    │                       │                      │
         ConnectionProofs           TcpProofs            StartupProofs
                └──── SequenceFacts ────┘
                                    ProxyUdp ── UdpProofs
```

(Solid lines: one module extends the other; `FaultProofs` and `GatewayProofs` extend
`TokenServiceProofs` too. Dotted: it implements the other, by `INSTANCE ... WITH`.)

(`MC*` modules give TLC its model values.)

**TokenService** (`token.rs`). The mutex-protected `State` is the record `state`.
Functions that take `&mut State` are operators from a state to the next
(`force_sweep`, `sweep`, `make_room`, `revoke_family`, `issue`, `Consume`,
`Retire`); `Login`, `Refresh` and `Revoke` are the actions, with every branch,
the failures of the random generator before and after the store was touched
included. A refresh token stands for itself and its hash; 256 random bits do not
repeat, so a new one is one never issued. Time has two clocks in ticks,
`TicksPerSec` to the second: `now` is `Instant::now()`, `wall` the system clock,
whose position within its first second is arbitrary. `login_at`, `issued`,
`rotated`, `dead` and `answer` are history, read by no action.

**TokenFaults** adds what the process does not control: a restart (`new()` with
the old key if there is a secret file, with a new one otherwise) and a system
clock that is set. The run sets it ahead only (`MaxStepBack` is 0): a clock set
back after a sweep forgot a revoked family makes its access tokens valid again,
since the entry is kept by the monotonic clock (`token.rs:114`) and the token
expires by the other (`token.rs:262`).

**AuthConfig** (`auth.rs`). A file is the set of its lines; `BadLine` does not
parse, `NoFile` cannot be read. `reload_auth_file` and
`reload_anonymous_target_file` are polls; a writer may leave any content at any
moment. A poll reads a file in one step: what several reads would find of a file that is
being rewritten, a part or a mixture of two versions, is a content of its own that the
writer may leave. `Addr` is the normalisation of `Target::addr()`.

**Gateway** composes both with the endpoints, health checks and handshakes. From
the parsed request head to the decision nothing awaits, so the answer to a request is
one step. A tunnel takes two: `Handshake` is the callback that authorizes it
(`proxy.rs:100-106`) and leaves it "connecting"; the 101, the resolution of the target and
the connection to it are awaited after that (lines 107, 149, 158), and `ConnectTunnel` opens
it. Reloads, logouts, ticks and other requests come in between, and nothing is looked
at again ("the token is checked at the handshake only", `README.md:570`).
A router without any credentials (which authorizes everything, and has no token
endpoints) is left out.

**ProxyTcp** (`proxy_tcp`). `pc` says where the one task waits: in `select`, or in
one of the awaits inside its branches (`write_tcp`, `send_ws`, `send_close`,
`shutdown`) with `pending` still to be written. Each direction of each connection
is a queue of bounded capacity. Bytes are numbered, so loss, repetition and
reordering all show. Returning drops both sockets (`Finish`): the peer gets the
rest and an end, or, when it sent what nobody reads any more, a reset that may
cost it the rest. Client, upstream and kernel are external. The client may close or be
lost at any moment, also while the loop waits in a write and reads nothing.

**ProxyUdp** (`proxy_udp`). The same, with datagrams that may be lost or refused,
messages longer than a datagram can be, and the idle timeouts. Each pass through
the loop creates both timeouts anew, so one counter, `left`, stands for both; it
runs only while the loop is in `select!`.

**Sessions** is what the token service promises, without its store: logins that hold
at most one refresh token that works, opened, renewed and ended one at a time by
requests, several at once only by the clock. `TokenService!ImplementsSessions` maps a
login to its tokens that are live *and* unexpired, so sweeps and failed requests are
stuttering steps.

**Pipe** is what a byte stream promises: bytes come out in their order, none missing or
twice, and a cut costs the last part of what is in transit. `ProxyTcp` implements one
pipe each way (`PipeToUpstream`, `PipeToClient`), and `Connection` implements one from
the client through the bytes read ahead to the handshake and the tunnel
(`ReplayIsExact`).

**Connection** (`handle_connection`, `http_probe.rs`, the answers of `token_api.rs`,
`connect_udp`). One connection from its first byte to its tunnel. `pc` is the await the
task is in; bytes are numbered, and `request.head` of them are the head, so that every
split into reads and every length around the limit is a behaviour. What the head says
is a record. `request.upgrade` is the header that `parse_plain_request` looks for;
`IsHandshake` is what tungstenite asks for, which is more (GET, HTTP/1.1, `Connection`, the
version and the key), and a request that has the one and not the other gets no answer.
`request.headers` counts all headers, for `MAX_HEADERS`.
Whether credentials are good is an input here; `Gateway` decides it. The
tunnel itself is `ProxyTcp` and `ProxyUdp`; here it reads the rest of the stream and may
end or not. The kernel resets a connection that is closed with bytes unread, which is why a body is
refused before the token service is asked.

**Target** (`target.rs`). A text is a sequence of tokens: `[`, `]`, `:` and words.
`parse_host_port` is the parser with its cuts, `Readings` the definition it is compared
with: every way to write a host, a colon and a port. `NumberOf` has several spellings
of one port (`80`, `080`, `+80`), as `parse::<u16>` does.

**ClientAddr** (`client_addr.rs`). An address is a word of bits of its family's width; the
IPv4-mapped ones start with `MappedPrefix`. A mask is all ones shifted left, as
`checked_shl` does it: not at all by the whole width, where `unwrap_or(0)` decides. A
header line that is no UTF-8 and an entry that is empty count as no entries, and the
lines in a row are one list (`EntryList`). `InBlock` (the first bits agree) and `Foreign`
are the reference definitions. What a client can do with lines of its own is judged in
`Connection`, where the limits of the head are: `ReportedBehind` is the set of addresses that
may be reported when a line is put before the others, over all splits into reads, with the
header count and the length of the head that the line brings about. The comment at the head
of `client_addr.rs` (line 8: what a client puts to the left "cannot change the outcome") is
true only within those limits: `ForgedEntriesChangeNothing` says that within them nothing
changes, that with one header too many the proxy's address is reported, and that an
address of the client's choice never is.

**Args** and **Startup** (`args.rs`, `main.rs`, `listener.rs`). `Args` is the merge of
command line and file and `validate()`; `Startup` runs `main()` step by step with its
error exits, the accept loops, and each connection from the backlog of its listener to
`handle_connection`. A listener is a task of its own from the moment it is bound.

## 3. Runs

Passing runs:

| Run | Bounds | Shows |
|---|---|---|
| `token_service` | 2 families, 4 tokens, `MAX_RECORDS` 3, 5 half-second ticks | the store is bounded; one live token per login; revocation is final; a token is exchanged once; a login ends; reuse is detected unless the store is full; a client loses a usable token only to a request of its own login; the service implements `Sessions` |
| `restart` | one restart with or without a secret file, the clock set ahead once, 2 families, 2 tokens | without a secret file no revoked login comes back; with one, an access token that was not revoked is accepted until it expires |
| `auth_config` | 2 users, 3 spellings of 2 targets, 3 writes | one whole valid version is in effect, and the last one in the end |
| `gateway` | 2 users, 1 login, 2 tokens, 1 write, 1 tunnel | a websocket is accepted, and a token handed out, only for those who are entitled at that moment; a tunnel opens only for what was accepted; a 401 to a refresh is final |
| `tcp_tunnel` | 5 bytes to the upstream in messages of up to 3, 2 bytes back, buffers of 2, one ping or pong, an upstream that echoes or sends on its own, breaking connections | the tunnel implements a `Pipe` each way; an orderly end comes last; a close ends the tunnel unless it is `Stuck` in a write for good |
| `udp_tunnel` | 2 messages, 2 datagrams, timeout of 2 ticks, buffers of 1 | one datagram per message and back, in order; only idle sessions time out; idle sessions end if the client reads |
| `connection` | heads of 0 to 7 bytes and up to 7 in all, with a limit of 4, chunks of 2 and buffers of 3; `MAX_HEADERS` 3, with one header less, as many, and one more; every kind of request, with a whole handshake, part of one or none; every target of up to 4 tokens; lists of up to 3 forwarded addresses at widths 2 and 3 | the head is bounded and replayed exactly; targets have one reading; what was authorized is dialled; answers are the documented ones and arrive; the reported address is the nearest foreign one, and forged lines change nothing within the limits of the head and lead to the peer's address beyond them; every plain request and every handshake is answered, and a client that is gone ends the task or finds it in the tunnel |
| `startup` | every combination of modes and certificate options in both places, two values of each other setting; three connections, one stalled | no panic; all listeners or none; nothing but TLS on the wss port; the command line wins; a stalled client blocks nobody |

The bounds are the smallest in which the mechanisms meet: a store that fills
up while one of its records is spent and another live (3 records, 4 tokens); time
enough for a revoked entry to be swept and an access token minted late in a
second to run out (5 ticks at 2 a second, tokens that live 1 second and logins that
live 2); a message
longer than the room left in a buffer, more bytes than both buffers of an echoing upstream
hold (5 with two buffers of 2, so that `Stuck` is reached and the client closes in it), and
a read shorter than what has arrived; a head
that ends before, at and after the limit and at every place within a chunk; ranges of
prefix 0, 1 and the whole width.
Not reached within the bounds is an access token that outlives its login by more than
`access_ttl`, the second half of `LoginLifetime`: it takes more ticks than `token_service`
has, and rests on the theorem `LoginsEnd`.
The mutants of `PROJECT.json` confirm it: each passing property is violated
under the same bounds by a small change to the code it is about.

Runs that end in a counterexample, each a disagreement of the code with what the
repository says (`findings`):

| Run | The text | What happens |
|---|---|---|
| `full_store_reuse` | `token.rs:9`: presenting a rotated token revokes the family | `refresh` makes room first: with a full store it answers `Full`, and nothing is revoked |
| `lost_revocation` | `token.rs:12`: a logout kills the access tokens | with a secret file a restart forgets the revocation, not the key |
| `tcp_echo` | `README.md:355`: bytes flow both ways | the loop awaits a write to the upstream without reading from it: an upstream that answers as it reads fills both buffers, and both wait for ever |
| `udp_stalled_client` | `README.md:28`: the session is closed after the timeout | the timeout does not run while a send waits, and the `Close` itself is awaited without one |

`CHECK_DEADLOCK FALSE` is given where the model may stop: time and tokens
run out, the tunnel or the connection has ended, the process has. In `auth_config` polls go on for ever.

### Fairness

- `AuthSpec`: both polling tasks loop for ever, once a second, and every error is
  caught in the loop (`poll_file_reload`), so each poll is weakly fair.
- `ProxyTcp!Spec`: Tokio runs a task that can go on (the awaits), and `select!`
  polls its branches in random order, so neither a ready message nor ready
  bytes are passed over for ever. Of the peers it assumes that they read, and that
  the client sends what it has. Nothing forces anybody to close or to fail. It does not
  make every write end: an echo server reads on only when it can send, and with full
  buffers both ways the loop stays in `write_all()` (`proxy.rs:254`) whatever the client does.
  `CloseEndsTunnel` names that state (`Stuck`) as the one exception.
- `ProxyUdp!Spec`: time passes, the task runs, and TCP reports a client that is
  gone. `ReadingClientSpec` adds that the client reads. The difference between the
  two is the finding `udp_stalled_client`.

- `ConnSpec`: the runtime polls a task that can go on, and the kernel ends every attempt to
  resolve or connect. A tunnel is not assumed to end. Nothing is assumed of the client:
  it may send slowly, stop, end or be lost. An answer is small and fits the socket
  buffer, so writing it never waits for a client that does not read.
- `StartSpec`: `main()` goes on, each accept loop takes what is in its backlog, and the
  TLS handshake of a client that takes part in it ends. A stalled one has no fairness.

The token service and the gateway state no fairness: their properties are safety.

## 4. Proofs

`TokenServiceProofs` proves, for every value of the constants (any lifetimes, clock
resolution, sweep interval, bound, and any sets of users, tokens and families),
all the invariants and action properties of the run `token_service`. The assumptions are
`ConstantsAssumption`: durations and bounds are positive (which `args.validate()`
enforces for the lifetimes) and `NoToken` is no token.

None of the properties is inductive alone. `Inv` adds to `TypeOK`:

- `StoreOK`: each live record agrees with the history of its token, was not
  rotated, belongs to a login that is not dead, and expires no later than its
  deadline, which is that of the login; each spent record is of a rotated token;
  there is one live token per family.
- `SpentOK`: a rotated token is remembered until it would have expired. This is
  what `ReuseDetected` needs of every sweep.
- `RevokedOK`: for every access token of a dead family, either the revoked entry is
  there and lasts at least as long as the token, or the token has expired. The two
  clocks are compared through their constant distance `wall - now`; that `unix_now()`
  rounds *down* is essential, and `UnixNowFacts` is the lemma that says so.
- `MintedOK` and `HistoryOK`: access tokens expire within `access_ttl` of now, and
  before the deadline of their login plus `access_ttl`.
- `Bounded`: both maps are finite and together within `MAX_RECORDS`.

`StoreOK`, `SpentOK`, `RevokedOK` and `Bounded` are stated of any record `s`,
because `refresh` works on what `sweep` and `make_room` leave of `state`:
`SweptInv` shows that sweeping keeps them, and each request then starts from
there. `Inv` is split in two. `Core` (types, `StoreOK`, `Bounded`, `MintedOK`,
`HistoryOK`) holds of any store that agrees with the history; `SpentOK` and
`RevokedOK` say what a store has to remember. One lemma per action (`LoginStep`,
`RefreshStep`, `RevokeStep`, `TickStep`) shows `Kept`: `Core` is kept without the
other two, and each of those is kept if it held. The properties with restarts need
that form. The two action properties follow from `Inv` and a case split on the
request.

The same module proves the ninth, `ImplementsSessions`: from `Inv`, each branch of each
request is shown to be a step of `Sessions` or a stuttering one (`SessionStep`). The
mapping takes the *working* tokens (live and unexpired), since a record that has expired
is removed only by some later sweep, which the abstract login must not notice. That a
login never works again once it does not is the part that needs `StoreOK`; that it is
younger than its lifetime comes from the deadline of its record.

`FaultProofs` proves what `TokenFaults` checks, for any number of restarts and of
settings of the clock: `RestartRevivesNothing` and `TokensSurviveRestarts`, and beyond the
run `LoginLifetime` and that the store stays bounded, with one live token per login and none exchanged twice
(`RefreshTokensOverRestarts`). A restart forgets spent tokens and revoked families, so
of `Inv` only `Core` survives; `RevokedOK`, which speaks of tokens under the current key,
survives when the key is drawn anew, since no access token of the time before is signed
with it (`KeysInOrder`). `TokensSurviveRestarts` needs the opposite (`SurviveInv`): with a file
every access token is signed with the current key, and no family is revoked but a dead one.
The theorems have one hypothesis, `NeverSetBack`
(`MaxStepBack = 0`): with a clock that is set back they are false, as section 2 explains.
`ReuseDetected` does not survive a restart and is not claimed.

`GatewayProofs` proves all the safety properties of the runs `auth_config` and `gateway`.
Of the credentials: `OneWholeVersion` and `AuthTypeOK`, for any files and any number of
writes (`AuthInv` adds that the history of the file holds its content now). Of the
router: every request does to the token service what `login`, `refresh` or `revoke` does
or nothing, and to the credentials nothing (`GatewaySteps`), so both invariants hold side by
side, and `TunnelsAreEntitled`, `OnlyListedUsersGetTokens` and `RefusalIsFinal` follow
from them in one case split. The first needs `RevokedOK` (a token of a dead login does not
verify) and `MintedOK` (nor does one that outlived its login), in the state of the
handshake; of the later opening it says that user, target and login are those accepted then.

From the same lemma the promises of the parts are carried over to the whole
(`RouterStep`): under any mix of requests, reloads and edits of the files the invariants
of the token service hold (`PromisesBehindRequests`), it implements `Sessions`
(`RouterKeepsSessions`), reuse is detected (`RouterDetectsReuse`) and no request costs
another login its token (`RouterKeepsLoginsApart`). The run `gateway` does not
repeat them; `token_service` checks them of the service alone.

`StartupProofs` proves `NeverPanics`, `AllListenersOrNone`, `TlsPortIsNeverPlain` and
`CommandLineWins` for any set of command lines, files and connections. Its invariant says
what `validate()` has left behind at each step (`Certified`: arguments that include wss
have a certificate, and `tls_config` exists once it was built), which listeners are bound
at which step (`Bound`), and that an open wss connection went through a TLS listener
(`Served`). `NeverPanics` is exactly the argument the `expect()` in `main.rs` makes.
`CommandLineWins` is about one step, the merge and `validate()`, and needs no invariant
but that the options are those the router was started with.

`ConnectionProofs` proves the eight safety properties of the run `connection`, for
every limit, chunk, buffer, and set of requests. The first is about targets, for texts of
any length: the parser finds the ways to read a text and nothing else
(`TargetsHaveOneReading`), and normal forms tell targets apart
(`NormalFormsTellTargetsApart`). A port is one token, so the only possible cut is at
the last place but one; there the cases with and without brackets are compared
(`PlainPlaces`, `BracketPlaces`). It assumes what `u16` gives (`TargetAssumption`): a
port that is written and read again is the same port.

`Streams` (with `pc = "read_head" => ~HeadEnough(head)`)
makes `HeadBounded` inductive and gives `ReplayIsExact`: a read of the head moves bytes
within what is in transit (`MoveFacts`), a `poll_read` takes its first ones
(`ReplayFacts`). `DialInv` follows the authorization from the callback of the handshake
to the dial; with `NormalFormsTellTargetsApart` it gives `DialsWhatWasAuthorized`, and
with `PlainInv`, `AnsweredAsDocumented`. `TokenAnswersArrive` rests on `Counted`: until a
request is routed, the bytes that were read and those that wait in the socket are all the
client has sent, so that a request without a body whose head was read leaves nothing
unread; and on `Chosen`, that the answers in question are given on that path only.

The last two are about the client's address. `MaskFacts` says which bits a mask has, for
every width and every prefix up to the width, and `MaskedWords` that masked words are
equal exactly if the first bits are; so a range takes the addresses of its block and no
others (`RangesAreBlocks`), and the search through the entries stops at the foreign ones
(`StopsIsForeign`), where it ends at the last (`StopsAtLast`, from the definition of
`SelectLastInSeq` by a maximum). Lines put before the others put their entries before
those of the others (`ListOfLonger`), so with a foreign entry behind them they are never
reached (`ForgeriesAreNotReached`). Whether the longer head is parsed at all is a matter of
its two limits (`MayParse`): if it is, nothing changes (`ForgedLineIsNotReached`), and if it is
not, no entry counts and the peer is reported (`NoEntries`). `AddrInv` says that configuration
and request are those the connection came with. The
assumptions are `ClientAddrAssumption` (the widths are positive, IPv4 is no wider than
IPv6, a missing address is no address) and `ForwardingAssumption`: the ranges are ones
`from_str` returns, peer and lines are of their types, and lines are counted as headers. An IPv4-mapped range is refused
by `from_str`; a range is compared with canonical addresses, so one would match nothing.

`UdpProofs` proves the two safety properties of the run `udp_tunnel`, for every timeout,
capacity and number of messages. `TimerOK` relates the timer to the silence it measures:
in `select!` the ticks of silence and the ticks left are together at least the timeout,
because each pass starts a whole timeout anew. `SentOK` says that the datagrams are the
client's first messages and that the messages behind them wait in `ws_in`, in order among
the control messages; `ReceivedOK` the same of the other direction. Order among other
messages is stated by a function that counts the data messages (`Carries` in `ProxyUdp`,
`InOrder`), and each step extends or cuts that function.

`TcpProofs` proves the safety of the run `tcp_tunnel`: both refinements of `Pipe`
(`PipeToUpstream`, `PipeToClient`) and `EndComesLast`, for any number of bytes, any split
into messages, any buffer sizes, and either kind of upstream. The invariant has the types
(`Typed`), where the end of a stream may stand (`EndsOK`), what is in transit while the
loop runs (`StreamsOK`: what arrived and what is on its way are all that was sent), and
what the two sides can still get once it does not (`AfterEnd`). For the refinement each
action is shown to do one of four things to each of the two streams (`UpstreamMoves`,
`ClientMoves`): nothing (`Still`), deliver a first part (`Arrived`), take new bytes in at
the end (`Added`), or lose a last part when the loop ends (`Shortened`). The mapping
names what is on its way in `UpstreamTransit` and `ClientTransit`. `Payload`, the bytes of
a queue of messages, is a `FlattenSeq`.

`SequenceFacts` has what `TcpProofs` and `ConnectionProofs` need of `FlattenSeq`, which is
defined by recursion: its type, and that flattening two lists in a row is flattening each
(`FlattenConcat`). The partial results are shown to exist and to be those of the
recursion by taking the least length at which the claim fails (`Least`, `UpTo`), since no
induction theorem can be instantiated; `Greatest` gives the maximum of a set of positions.

Only model-checked: what holds under fairness (`ReloadTakesEffect`, `TargetsTakeEffect`,
`CloseEndsTunnel`, `IdleSessionsEnd`, `EveryRequestIsAnswered`, `ClientGoneEndsRequest`,
`StalledClientBlocksNobody`), which the proof system does not handle. The four
counterexamples of section 3 are TLC's.

## 5. Plan

Done: every component is modelled, with its abstract specification where it has one; every
invariant, action property and refinement that a passing run checks is also proved. What
is left is to keep the model next to the code:

1. a change to `token.rs`, `auth.rs` or `proxy.rs` that adds an `await` between a check and
   its use splits an action here, and `GatewaySteps` is the first proof that notices;
2. a bound on the revoked families, should `make_room` get one, belongs into `Bounded`;
3. a fix of one of the four findings turns its run into a passing one.

## 6. Not modelled

- Encodings: base64, HMAC, JSON, HTTP and websocket framing. A token is the record it
  encodes; a signature is good exactly under the key that made it.
- The limits of `httparse` and `tungstenite` other than `MAX_HEADERS`. A head ends with an
  empty line in CR LF: `httparse` would also take bare line feeds, which
  `read_request_head` does not look for.
- Wording, headers and logging of answers; the log rate of failing polls
  (`last_error`); the format of log lines and the log writer.
- What is inside a certificate: generating one and reading PEM files succeed or fail.
- What `clap` and the TOML parser refuse by themselves, and the help texts.
- An empty websocket message (it writes nothing).

Some weaknesses of the code are listed as hazards and have no property, because nothing
in the repository promises otherwise: `make_room` does not count revoked families, and only
a refresh or a full store sweeps them; a lifetime of centuries overflows an `Instant` and
poisons the mutex; a header line with a byte that is no UTF-8 is dropped with the entries
that trusted proxies appended to it. Nor does a property promise an answer to a request with
the `Upgrade` header that is no handshake, an end to a stalled TLS handshake, or a listener
that comes back after a failed `accept()`.
