------------------------------- MODULE Startup -------------------------------
(***************************************************************************)
(* main() of src/src/main.rs: from the command line to two listeners, and  *)
(* their accept loops.                                                     *)
(*                                                                         *)
(* A step of start-up that can fail for reasons of its own (a file, a      *)
(* port, the operating system) fails or not, as the environment likes; an  *)
(* error ends the process.  A listener that is bound has a task of its     *)
(* own, which may run before main() has bound the other one.  A connection *)
(* is followed from the backlog of its listener to handle_connection       *)
(* (module Connection).                                                    *)
(***************************************************************************)
EXTENDS Args

CONSTANTS
    Options,    \* [cli, config]: command lines and files; config is NotGiven when the file
                \* cannot be read or parsed
    Conns,      \* connections
    Stalled     \* those whose client never takes part in a TLS handshake

\* ConfigArgs has a field for every setting (args.rs:324-346).
ASSUME StartupAssumption ==
    /\ Stalled \subseteq Conns
    /\ \A o \in Options : o.config # NotGiven =>
          DOMAIN o.config = {"set", "lists", "ipv6_only", "tls_cert", "tls_key",
                             "auto_self_signed_cert"}

VARIABLES
    pc,         \* the step main() is at; "up" when it waits for ever
    options,    \* command line and file, NotGiven once they were taken over
    args,       \* Args, NotGiven before
    auth,       \* is there an AuthConfig, with its reloaders running?
    tls_config, \* is there a ServerConfig?
    listener,   \* of each scheme: "off", "plain", "tls" or "ended"
    conn        \* of each connection: its scheme, its stage, and whether it is under TLS

start_vars == <<pc, options, args, auth, tls_config, listener, conn>>

Schemes == {"ws", "wss"}

Idle == [scheme |-> "ws", stage |-> "none", secure |-> FALSE]

\* The process ends: its sockets are closed.
Exit(how) ==
    /\ pc' = how
    /\ listener' = [l \in Schemes |-> "off"]
    /\ conn' = [c \in Conns |-> IF conn[c].stage = "none" THEN conn[c]
                                ELSE [conn[c] EXCEPT !.stage = "closed"]]

Goes(to) == pc' = to /\ UNCHANGED <<listener, conn>>

-----------------------------------------------------------------------------
(* Start-up *)

\* Args::parse
ParseArgs ==
    /\ pc = "parse"
    /\ options' = NotGiven
    /\ LET cli == options.cli
           config == options.config
       IN  \/ /\ Conflict(cli) \/ config = NotGiven
              /\ Exit("exited") /\ UNCHANGED args
           \/ /\ ~Conflict(cli) /\ config # NotGiven
              /\ ~Valid(from_cli(cli, config))
              /\ Exit("exited") /\ UNCHANGED args
           \/ /\ ~Conflict(cli) /\ config # NotGiven
              /\ Valid(from_cli(cli, config))
              /\ args' = from_cli(cli, config) /\ Goes("logging")
    /\ UNCHANGED <<auth, tls_config>>

\* init_logging: a filter that is given may be no filter, a log file may not open.
InitLogging ==
    /\ pc = "logging"
    /\ \/ Goes("auth")
       \/ /\ args.set.log_level # NotGiven \/ args.set.log_file # NotGiven
          /\ Exit("exited")
    /\ UNCHANGED <<options, args, auth, tls_config>>

auth_enabled == args.lists.basic_auth # {} \/ args.set.basic_auth_file # NotGiven

\* build_auth_config and spawn_auth_file_reloader; AuthConfig says what makes it fail.
BuildAuth ==
    /\ pc = "auth"
    /\ auth' = auth_enabled
    /\ Goes("tls") \/ (auth_enabled /\ Exit("exited"))
    /\ UNCHANGED <<options, args, tls_config>>

\* build_tls_config, if it is called: a certificate is made or read (or not), and there is
\* none when neither was asked for.
BuildTls ==
    /\ pc = "tls"
    /\ \/ /\ tls_config' = (includes_wss(args.set.service_mode) /\ has_tls_config(args))
          /\ Goes("bind_ws")
       \/ /\ includes_wss(args.set.service_mode) /\ has_tls_config(args)
          /\ Exit("exited") /\ UNCHANGED tls_config
    /\ UNCHANGED <<options, args, auth>>

\* resolve_bind_addr and bind_listener can succeed.
Bindable ==
    /\ args.set.bind \in {"v4", "v6"}
    /\ ~(args.set.bind = "v4" /\ args.ipv6_only)

\* Mutant: a listener that cannot be bound is passed over.
BindFails_goes_on(next) == Goes(next)

BindFails(next) == Exit("exited")

BindWs ==
    /\ pc = "bind_ws"
    /\ \/ ~includes_ws(args.set.service_mode) /\ Goes("bind_wss")
       \/ /\ includes_ws(args.set.service_mode) /\ Bindable
          /\ pc' = "bind_wss" /\ listener' = [listener EXCEPT !["ws"] = "plain"]
          /\ UNCHANGED conn
       \/ includes_ws(args.set.service_mode) /\ BindFails("bind_wss")
    /\ UNCHANGED <<options, args, auth, tls_config>>

\* The expect() on the TLS configuration comes after the bind.
BindWss ==
    /\ pc = "bind_wss"
    /\ \/ ~includes_wss(args.set.service_mode) /\ Goes("up")
       \/ /\ includes_wss(args.set.service_mode) /\ Bindable /\ tls_config
          /\ pc' = "up" /\ listener' = [listener EXCEPT !["wss"] = "tls"]
          /\ UNCHANGED conn
       \/ includes_wss(args.set.service_mode) /\ Bindable /\ ~tls_config /\ Exit("panicked")
       \/ includes_wss(args.set.service_mode) /\ BindFails("up")
    /\ UNCHANGED <<options, args, auth, tls_config>>

Main == ParseArgs \/ InitLogging \/ BuildAuth \/ BuildTls \/ BindWs \/ BindWss

-----------------------------------------------------------------------------
(* Listeners *)

Serving(l) == listener[l] \in {"plain", "tls"}

main_vars == <<pc, options, args, auth, tls_config>>

\* A client connects: the kernel takes it into the backlog.
Connect(c) ==
    /\ conn[c].stage = "none"
    /\ \E l \in Schemes :
          /\ Serving(l)
          /\ conn' = [conn EXCEPT ![c] = [@ EXCEPT !.scheme = l, !.stage = "backlog"]]
    /\ UNCHANGED <<main_vars, listener>>

\* Mutant: the loop does the TLS handshake itself.
MayAccept_in_turn(l) == \A c \in Conns : ~(conn[c].scheme = l /\ conn[c].stage = "tls")

\* The loop is back at accept(): the connections it took have tasks of their own.
MayAccept(l) == TRUE

\* serve_listener: the task of the connection goes on to the handshake or to the request.
Accept(c) ==
    /\ conn[c].stage = "backlog" /\ Serving(conn[c].scheme) /\ MayAccept(conn[c].scheme)
    /\ conn' = [conn EXCEPT ![c].stage = IF listener[conn[c].scheme] = "tls" THEN "tls" ELSE "open"]
    /\ UNCHANGED <<main_vars, listener>>

\* An error of accept() ends the loop, and the listener with its backlog; the process, the
\* other listener and the connections go on.
AcceptFails(l) ==
    /\ Serving(l)
    /\ \E c \in Conns : conn[c].scheme = l /\ conn[c].stage = "backlog"
    /\ listener' = [listener EXCEPT ![l] = "ended"]
    /\ conn' = [c \in Conns |-> IF conn[c].scheme = l /\ conn[c].stage = "backlog"
                                THEN [conn[c] EXCEPT !.stage = "closed"] ELSE conn[c]]
    /\ UNCHANGED main_vars

\* Mutant: a client that does not speak TLS is served without.
AfterTlsFailure_plain(c) == [conn[c] EXCEPT !.stage = "open"]

AfterTlsFailure(c) == [conn[c] EXCEPT !.stage = "closed"]

\* handle_accepted_stream: the TLS handshake has no timeout.
TlsHandshake(c) ==
    /\ conn[c].stage = "tls" /\ c \notin Stalled
    /\ conn' \in {[conn EXCEPT ![c] = [@ EXCEPT !.stage = "open", !.secure = TRUE]],
                  [conn EXCEPT ![c] = AfterTlsFailure(c)]}
    /\ UNCHANGED <<main_vars, listener>>

\* handle_connection returns.
ConnectionEnds(c) ==
    /\ conn[c].stage = "open"
    /\ conn' = [conn EXCEPT ![c].stage = "closed"]
    /\ UNCHANGED <<main_vars, listener>>

-----------------------------------------------------------------------------

StartInit ==
    /\ pc = "parse" /\ options \in Options /\ args = NotGiven
    /\ auth = FALSE /\ tls_config = FALSE
    /\ listener = [l \in Schemes |-> "off"]
    /\ conn = [c \in Conns |-> Idle]

StartNext ==
    \/ Main
    \/ \E c \in Conns : Connect(c) \/ Accept(c) \/ TlsHandshake(c) \/ ConnectionEnds(c)
    \/ \E l \in Schemes : AcceptFails(l)

\* The runtime polls main() and every task that can go on.
StartSpec ==
    /\ StartInit /\ [][StartNext]_start_vars
    /\ WF_start_vars(Main)
    /\ \A c \in Conns : WF_start_vars(Accept(c)) /\ WF_start_vars(TlsHandshake(c))

-----------------------------------------------------------------------------
(* Properties *)

\* "validated wss service mode requires tls config": no command line and no file that
\* validate() lets pass leads to the panic of that expect().
NeverPanics == pc # "panicked"

\* The router is up with a listener for each scheme of its mode and for no other (one may
\* have failed since), or not at all: after an error in start-up nothing listens, and
\* connections that the first listener took meanwhile are closed.
AllListenersOrNone ==
    /\ pc = "up" =>
          /\ listener["ws"] # "off" <=> includes_ws(args.set.service_mode)
          /\ listener["wss"] # "off" <=> includes_wss(args.set.service_mode)
    /\ pc = "exited" =>
          /\ \A l \in Schemes : ~Serving(l)
          /\ \A c \in Conns : conn[c].stage \in {"none", "closed"}

\* No request is read from a connection of the wss listener but under TLS.
TlsPortIsNeverPlain ==
    \A c \in Conns : conn[c].scheme = "wss" /\ conn[c].stage = "open" => conn[c].secure

\* "Command-line options take precedence" over the file: what is given on the command line
\* is what the router runs with, and a complete choice of a certificate there is not
\* refused because of the file's choice.
CommandLineWins ==
    [][pc = "parse" /\ options.config # NotGiven =>
        LET cli == options.cli
            file == options.config
        IN  /\ pc' = "logging" =>
                  /\ \A s \in DOMAIN Defaults :
                        args'.set[s] \in {cli.set[s], file.set[s], Defaults[s]}
                        /\ (cli.set[s] # NotGiven => args'.set[s] = cli.set[s])
                  /\ \A l \in DOMAIN DefaultLists :
                        cli.lists[l] # {} => args'.lists[l] = cli.lists[l]
                  /\ cli.tls_cert # NotGiven => args'.tls.cert = cli.tls_cert /\ ~args'.tls.auto
                  /\ cli.tls_key # NotGiven => args'.tls.key = cli.tls_key /\ ~args'.tls.auto
                  /\ cli.auto_self_signed_cert => args'.tls.auto
                  /\ cli.no_auto_self_signed_cert => ~args'.tls.auto
                  /\ cli.ipv6_only => args'.ipv6_only
                  /\ cli.no_ipv6_only => ~args'.ipv6_only
            /\ (/\ ~Conflict(cli)
                /\ cli.auto_self_signed_cert \/ (cli.tls_cert # NotGiven /\ cli.tls_key # NotGiven)
                /\ Valid(from_cli(cli, [file EXCEPT !.tls_cert = NotGiven, !.tls_key = NotGiven,
                                                    !.auto_self_signed_cert = NotGiven])))
                  => pc' = "logging"]_start_vars

\* A client in the backlog is served, or its connection is closed, whatever other clients
\* do: one that stalls in its TLS handshake keeps nobody else waiting.
StalledClientBlocksNobody ==
    \A c \in Conns \ Stalled :
        (conn[c].stage = "backlog") ~> (conn[c].stage \in {"open", "closed"})
=============================================================================
