--------------------------------- MODULE Args ---------------------------------
(***************************************************************************)
(* src/src/args.rs: the command line, the configuration file, and what     *)
(* they are merged into.                                                   *)
(*                                                                         *)
(* Command line and file are records over the same settings.  A setting    *)
(* that is not given is NotGiven; on the command line a list that is not   *)
(* given is empty.  A path, a number or a name is any value the checks     *)
(* tell apart.                                                             *)
(***************************************************************************)
EXTENDS Naturals

CONSTANTS
    NotGiven,
    Loopback,        \* IpRange::loopback()
    ValidTargets     \* the texts that parse_target_addr takes

\* Settings that are cli.or(config), with their defaults.
Defaults ==
    [bind |-> "v6", service_mode |-> "WsOnly", port |-> 80, tls_port |-> 443,
     buffer_size |-> 16384, udp_idle_timeout |-> 60, access_token_ttl |-> 600,
     refresh_token_ttl |-> 604800, basic_auth_file |-> NotGiven,
     anonymous_target_file |-> NotGiven, token_secret_file |-> NotGiven,
     log_file |-> NotGiven, log_level |-> NotGiven]

\* Settings that are lists: one on the command line replaces that of the file.
DefaultLists == [basic_auth |-> {}, anonymous_target |-> {}, trusted_proxy |-> Loopback]

or(a, b) == IF a # NotGiven THEN a ELSE b

-----------------------------------------------------------------------------

\* clap's conflicts_with: options that exclude each other.  What clap and the file parser
\* refuse by itself (an unknown name, a port that is none) is no record here.
Conflict(cli) ==
    \/ cli.ipv6_only /\ cli.no_ipv6_only
    \/ /\ cli.auto_self_signed_cert
       /\ cli.no_auto_self_signed_cert \/ cli.tls_cert # NotGiven \/ cli.tls_key # NotGiven

\* Mutant: the file's choice of a self-signed certificate stands against --tls-cert.
TlsSource_keeps_auto(cli) ==
    IF cli.auto_self_signed_cert THEN "auto"
    ELSE IF cli.no_auto_self_signed_cert THEN "files" ELSE "config"

\* Which of the three branches decides about TLS.
TlsSource(cli) ==
    IF cli.auto_self_signed_cert THEN "auto"
    ELSE IF \/ cli.no_auto_self_signed_cert
            \/ cli.tls_cert # NotGiven \/ cli.tls_key # NotGiven THEN "files"
    ELSE "config"

TlsArgs(cli, config) ==
    CASE TlsSource(cli) = "auto" ->
            [cert |-> NotGiven, key |-> NotGiven, auto |-> TRUE]
      [] TlsSource(cli) = "files" ->
            [cert |-> or(cli.tls_cert, config.tls_cert), key |-> or(cli.tls_key, config.tls_key),
             auto |-> FALSE]
      [] TlsSource(cli) = "config" ->
            [cert |-> config.tls_cert, key |-> config.tls_key,
             auto |-> or(config.auto_self_signed_cert, FALSE)]

\* The merged arguments; "set" and "lists" hold the settings of the two tables above.
from_cli(cli, config) ==
    [set |-> [s \in DOMAIN Defaults |-> or(or(cli.set[s], config.set[s]), Defaults[s])],
     lists |-> [l \in DOMAIN DefaultLists |->
                   IF cli.lists[l] # {} THEN cli.lists[l]
                   ELSE or(config.lists[l], DefaultLists[l])],
     ipv6_only |-> cli.ipv6_only \/ (~cli.no_ipv6_only /\ or(config.ipv6_only, FALSE)),
     tls |-> TlsArgs(cli, config)]

includes_ws(mode) == mode \in {"WsOnly", "Both"}

includes_wss(mode) == mode \in {"WssOnly", "Both"}

has_tls_config(args) == args.tls.auto \/ (args.tls.cert # NotGiven /\ args.tls.key # NotGiven)

\* Mutant: only the mode that serves nothing else is checked for a certificate.
NeedsTls_wss_only(args) == args.set.service_mode = "WssOnly"

NeedsTls(args) == includes_wss(args.set.service_mode)

\* validate()
Valid(args) ==
    /\ \A s \in {"buffer_size", "udp_idle_timeout", "access_token_ttl", "refresh_token_ttl"} :
          args.set[s] > 0
    /\ args.lists.anonymous_target \subseteq ValidTargets
    /\ args.tls.cert # NotGiven <=> args.tls.key # NotGiven
    /\ ~(args.tls.auto /\ args.tls.cert # NotGiven)
    /\ NeedsTls(args) => has_tls_config(args)
    /\ args.set.service_mode = "Both" => args.set.port # args.set.tls_port
=============================================================================
