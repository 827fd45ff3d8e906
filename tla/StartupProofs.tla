----------------------------- MODULE StartupProofs -----------------------------
(***************************************************************************)
(* Proofs about Startup, for every command line, every configuration file  *)
(* and any number of connections.                                          *)
(*                                                                         *)
(* The inductive invariant says what each step of main() may rely on: the  *)
(* arguments passed validate(), a configuration that is needed was built,  *)
(* and the listeners are exactly those bound so far.                       *)
(***************************************************************************)
EXTENDS Startup, TLAPS

Stages == {"none", "backlog", "tls", "open", "closed"}

\* Types of what the accept loops change.
Typed ==
    /\ listener \in [Schemes -> {"off", "plain", "tls", "ended"}]
    /\ conn \in [Conns -> [scheme : Schemes, stage : Stages, secure : BOOLEAN]]

\* From the parsed arguments to the end of start-up: a certificate that is needed is there.
Certified ==
    /\ pc \in {"logging", "auth", "tls"} => Valid(args)
    /\ pc \in {"bind_ws", "bind_wss"} /\ includes_wss(args.set.service_mode) => tls_config
    /\ pc # "panicked"

\* The listeners at each step: each is bound in its turn, if its scheme is served at all.
Bound ==
    /\ pc \in {"parse", "logging", "auth", "tls", "bind_ws", "exited"} => listener["ws"] = "off"
    /\ pc \in {"bind_wss", "up"} =>
          (listener["ws"] # "off" <=> includes_ws(args.set.service_mode))
    /\ pc # "up" => listener["wss"] = "off"
    /\ pc = "up" => (listener["wss"] # "off" <=> includes_wss(args.set.service_mode))
    /\ listener["wss"] # "plain"

\* The connections: none is left when the process has ended, and one to the wss listener is
\* open only under TLS.
Served ==
    /\ pc = "exited" => \A c \in Conns : conn[c].stage \in {"none", "closed"}
    /\ \A c \in Conns : conn[c].scheme = "wss" /\ conn[c].stage = "open" => conn[c].secure

StartInv == Typed /\ Certified /\ Bound /\ Served

\* Before the command line and the file are taken over, nothing listens and nobody is
\* connected.
Untouched ==
    pc = "parse" =>
        /\ options \in Options
        /\ \A l \in Schemes : listener[l] = "off"
        /\ \A c \in Conns : conn[c].stage = "none"

-----------------------------------------------------------------------------
(* Start-up *)

\* validate() has refused a mode with wss and without a certificate.
LEMMA ValidHasTls ==
    ASSUME Valid(args), includes_wss(args.set.service_mode)
    PROVE  has_tls_config(args)
BY DEF Valid, NeedsTls

\* An error in start-up leaves no listener and no connection.
LEMMA ExitStep ==
    ASSUME StartInv, Exit("exited")
    PROVE  StartInv'
<1>1. Typed'
  BY DEF StartInv, Typed, Exit, Stages
<1>2. Certified'
  BY DEF Exit, Certified
<1>3. Bound'
  BY DEF Exit, Bound, Schemes
<1>4. Served'
  BY DEF StartInv, Typed, Served, Exit, Stages
<1>. QED BY <1>1, <1>2, <1>3, <1>4 DEF StartInv

\* A step to the next one that leaves the listeners alone.
LEMMA GoesStep ==
    ASSUME StartInv, NEW to, Goes(to), Certified', Bound', to # "exited"
    PROVE  StartInv'
BY DEF StartInv, Typed, Served, Goes

\* Each step of main() establishes what the next one relies on.
LEMMA MainStep ==
    ASSUME StartInv, Main
    PROVE  StartInv'
<1>1. CASE ParseArgs
  <2>1. CASE Exit("exited")
    BY <2>1, ExitStep
  <2>2. CASE Goes("logging") /\ Valid(args')
    <3>1. Certified' /\ Bound'
      BY <1>1, <2>2 DEF ParseArgs, Goes, Certified, Bound, StartInv
    <3>. QED BY <2>2, <3>1, GoesStep
  <2>. QED BY <1>1, <2>1, <2>2 DEF ParseArgs
<1>2. CASE InitLogging
  <2>1. CASE Exit("exited")
    BY <2>1, ExitStep
  <2>2. CASE Goes("auth")
    <3>1. Certified' /\ Bound'
      BY <1>2, <2>2 DEF InitLogging, Goes, Certified, Bound, StartInv
    <3>. QED BY <2>2, <3>1, GoesStep
  <2>. QED BY <1>2, <2>1, <2>2 DEF InitLogging
<1>3. CASE BuildAuth
  <2>1. CASE Exit("exited")
    BY <2>1, ExitStep
  <2>2. CASE Goes("tls")
    <3>1. Certified' /\ Bound'
      BY <1>3, <2>2 DEF BuildAuth, Goes, Certified, Bound, StartInv
    <3>. QED BY <2>2, <3>1, GoesStep
  <2>. QED BY <1>3, <2>1, <2>2 DEF BuildAuth
<1>4. CASE BuildTls
  <2>1. CASE Exit("exited")
    BY <2>1, ExitStep
  <2>2. CASE Goes("bind_ws") /\ tls_config' = (/\ includes_wss(args.set.service_mode)
                                              /\ has_tls_config(args))
    <3>1. includes_wss(args.set.service_mode) => tls_config'
      BY <1>4, <2>2, ValidHasTls DEF BuildTls, StartInv, Certified
    <3>2. Certified' /\ Bound'
      BY <1>4, <2>2, <3>1 DEF BuildTls, Goes, Certified, Bound, StartInv
    <3>. QED BY <2>2, <3>2, GoesStep
  <2>. QED BY <1>4, <2>1, <2>2 DEF BuildTls
<1>5. CASE BindWs
  <2>1. CASE Exit("exited")
    BY <2>1, ExitStep
  <2>2. CASE Goes("bind_wss") /\ ~includes_ws(args.set.service_mode)
    <3>1. Certified' /\ Bound'
      BY <1>5, <2>2 DEF BindWs, Goes, Certified, Bound, StartInv
    <3>. QED BY <2>2, <3>1, GoesStep
  <2>3. CASE /\ includes_ws(args.set.service_mode) /\ pc' = "bind_wss"
             /\ listener' = [listener EXCEPT !["ws"] = "plain"] /\ UNCHANGED conn
    <3>1. Certified' /\ Bound'
      BY <1>5, <2>3 DEF BindWs, Certified, Bound, StartInv, Typed, Schemes
    <3>2. Typed' /\ Served'
      BY <2>3 DEF StartInv, Typed, Served
    <3>. QED BY <3>1, <3>2 DEF StartInv
  <2>. QED BY <1>5, <2>1, <2>2, <2>3 DEF BindWs, BindFails
<1>6. CASE BindWss
  <2>1. CASE Exit("exited")
    BY <2>1, ExitStep
  <2>2. CASE Goes("up") /\ ~includes_wss(args.set.service_mode)
    <3>1. Certified' /\ Bound'
      BY <1>6, <2>2 DEF BindWss, Goes, Certified, Bound, StartInv
    <3>. QED BY <2>2, <3>1, GoesStep
  <2>3. CASE /\ includes_wss(args.set.service_mode) /\ pc' = "up"
             /\ listener' = [listener EXCEPT !["wss"] = "tls"] /\ UNCHANGED conn
    <3>1. Certified' /\ Bound'
      BY <1>6, <2>3 DEF BindWss, Certified, Bound, StartInv, Typed, Schemes
    <3>2. Typed' /\ Served'
      BY <2>3 DEF StartInv, Typed, Served
    <3>. QED BY <3>1, <3>2 DEF StartInv
  <2>4. ~(includes_wss(args.set.service_mode) /\ ~tls_config)
    BY <1>6 DEF BindWss, StartInv, Certified
  <2>. QED BY <1>6, <2>1, <2>2, <2>3, <2>4 DEF BindWss, BindFails
<1>. QED BY <1>1, <1>2, <1>3, <1>4, <1>5, <1>6 DEF Main

-----------------------------------------------------------------------------
(* Listeners *)

\* An accept loop and the tasks of its connections touch nothing of main(), and a connection
\* of the wss listener reaches a request only through the handshake.
LEMMA ListenerStep ==
    ASSUME StartInv, NEW c \in Conns,
           Connect(c) \/ Accept(c) \/ TlsHandshake(c) \/ ConnectionEnds(c)
    PROVE  StartInv'
<1>1. UNCHANGED <<pc, options, args, auth, tls_config, listener>>
  BY DEF Connect, Accept, TlsHandshake, ConnectionEnds, main_vars
<1>2. Certified' /\ Bound'
  BY <1>1 DEF StartInv, Certified, Bound
<1>3. conn \in [Conns -> [scheme : Schemes, stage : Stages, secure : BOOLEAN]]
  BY DEF StartInv, Typed
<1>4. ASSUME NEW x \in [scheme : Schemes, stage : Stages, secure : BOOLEAN],
             conn' = [conn EXCEPT ![c] = x],
             pc = "exited" => x.stage \in {"none", "closed"},
             x.scheme = "wss" /\ x.stage = "open" => x.secure
      PROVE  StartInv'
  <2>1. Typed'
    BY <1>1, <1>3, <1>4 DEF StartInv, Typed
  <2>2. Served'
    BY <1>1, <1>3, <1>4 DEF StartInv, Served
  <2>. QED BY <1>2, <2>1, <2>2 DEF StartInv
<1>5. pc = "exited" => \A l \in Schemes : ~Serving(l)
  BY DEF StartInv, Bound, Schemes, Serving
<1>6. CASE Connect(c)
  <2>1. PICK l \in Schemes :
           /\ Serving(l)
           /\ conn' = [conn EXCEPT ![c] = [@ EXCEPT !.scheme = l, !.stage = "backlog"]]
    BY <1>6 DEF Connect
  <2>. DEFINE x == [conn[c] EXCEPT !.scheme = l, !.stage = "backlog"]
  <2>2. x \in [scheme : Schemes, stage : Stages, secure : BOOLEAN] /\ x.stage = "backlog"
    BY <1>3 DEF Stages
  <2>3. conn' = [conn EXCEPT ![c] = x]
    BY <2>1
  <2>. HIDE DEF x
  <2>. QED BY <1>4, <1>5, <2>1, <2>2, <2>3
<1>7. CASE Accept(c)
  <2>. DEFINE x == [conn[c] EXCEPT !.stage = IF listener[conn[c].scheme] = "tls" THEN "tls" ELSE "open"]
  <2>1. conn' = [conn EXCEPT ![c] = x] /\ Serving(conn[c].scheme)
    BY <1>7 DEF Accept
  <2>2. /\ x \in [scheme : Schemes, stage : Stages, secure : BOOLEAN]
        /\ x.scheme = conn[c].scheme
        /\ x.stage = (IF listener[conn[c].scheme] = "tls" THEN "tls" ELSE "open")
        /\ conn[c].scheme \in Schemes
    BY <1>3 DEF Stages
  <2>. HIDE DEF x
  <2>3. x.scheme = "wss" => x.stage = "tls"
    BY <2>1, <2>2 DEF Serving, StartInv, Bound
  <2>. QED BY <1>4, <1>5, <2>1, <2>2, <2>3
<1>8. CASE TlsHandshake(c)
  <2>. DEFINE x == [conn[c] EXCEPT !.stage = "open", !.secure = TRUE]
              y == [conn[c] EXCEPT !.stage = "closed"]
  <2>1. conn' = [conn EXCEPT ![c] = x] \/ conn' = [conn EXCEPT ![c] = y]
    BY <1>8 DEF TlsHandshake, AfterTlsFailure
  <2>2. /\ x \in [scheme : Schemes, stage : Stages, secure : BOOLEAN] /\ x.secure
        /\ y \in [scheme : Schemes, stage : Stages, secure : BOOLEAN] /\ y.stage = "closed"
    BY <1>3 DEF Stages
  <2>3. pc # "exited"
    BY <1>8 DEF TlsHandshake, StartInv, Served
  <2>. HIDE DEF x, y
  <2>. QED BY <1>4, <2>1, <2>2, <2>3
<1>9. CASE ConnectionEnds(c)
  <2>. DEFINE x == [conn[c] EXCEPT !.stage = "closed"]
  <2>1. conn' = [conn EXCEPT ![c] = x]
    BY <1>9 DEF ConnectionEnds
  <2>2. x \in [scheme : Schemes, stage : Stages, secure : BOOLEAN] /\ x.stage = "closed"
    BY <1>3 DEF Stages
  <2>. HIDE DEF x
  <2>. QED BY <1>4, <2>1, <2>2
<1>. QED BY <1>6, <1>7, <1>8, <1>9

\* A failed accept() ends its listener: it does not count as never bound.
LEMMA AcceptFailsStep ==
    ASSUME StartInv, NEW l \in Schemes, AcceptFails(l)
    PROVE  StartInv'
<1>1. /\ UNCHANGED <<pc, options, args, auth, tls_config>>
      /\ listener' = [listener EXCEPT ![l] = "ended"]
      /\ listener[l] \in {"plain", "tls"}
  BY DEF AcceptFails, main_vars, Serving
<1>2. Certified'
  BY <1>1 DEF StartInv, Certified
<1>3. Bound'
  BY <1>1 DEF StartInv, Typed, Bound, Schemes
<1>4. Typed'
  BY <1>1 DEF StartInv, Typed, AcceptFails, Stages
<1>5. Served'
  BY <1>1 DEF StartInv, Typed, Served, AcceptFails
<1>. QED BY <1>2, <1>3, <1>4, <1>5 DEF StartInv

-----------------------------------------------------------------------------
(* The properties *)

\* The inductive invariant holds of start-up and of the listeners throughout.
THEOREM StartInvariance == StartSpec => []StartInv
<1>1. StartInit => StartInv
  BY DEF StartInit, StartInv, Typed, Certified, Bound, Served, Idle, Schemes, Stages
<1>2. StartInv /\ [StartNext]_start_vars => StartInv'
  <2>. SUFFICES ASSUME StartInv, [StartNext]_start_vars PROVE StartInv'
    OBVIOUS
  <2>1. CASE StartNext
    BY <2>1, MainStep, ListenerStep, AcceptFailsStep DEF StartNext
  <2>2. CASE UNCHANGED start_vars
    BY <2>2 DEF start_vars, StartInv, Typed, Certified, Bound, Served
  <2>. QED BY <2>1, <2>2
<1>. QED BY <1>1, <1>2, PTL DEF StartSpec

\* The expect() in main() on the TLS configuration cannot fail: validate() asks for a
\* certificate in every mode that includes wss (main.rs:66, args.rs:182).
THEOREM NoPanic == StartSpec => []NeverPanics
<1>1. StartInv => NeverPanics
  BY DEF StartInv, Certified, NeverPanics
<1>. QED BY <1>1, StartInvariance, PTL

\* The router is up with exactly the listeners of its mode, or it has ended with nothing
\* listening and nobody connected (main.rs:29-84).
THEOREM AllOrNone == StartSpec => []AllListenersOrNone
<1>1. StartInv => AllListenersOrNone
  BY DEF StartInv, Bound, Served, AllListenersOrNone, Schemes, Serving
<1>. QED BY <1>1, StartInvariance, PTL

\* No request is read on the TLS port but under TLS (main.rs:124-162).
THEOREM TlsOnly == StartSpec => []TlsPortIsNeverPlain
<1>1. StartInv => TlsPortIsNeverPlain
  BY DEF StartInv, Served, TlsPortIsNeverPlain
<1>. QED BY <1>1, StartInvariance, PTL

\* Until the arguments are parsed, main() parses them and does nothing else.
LEMMA ParsesFirst ==
    ASSUME Untouched, StartNext, pc = "parse", \A c \in Conns : conn[c].scheme \in Schemes
    PROVE  ParseArgs
<1>1. ASSUME NEW c \in Conns
      PROVE  ~(Connect(c) \/ Accept(c) \/ TlsHandshake(c) \/ ConnectionEnds(c))
  BY DEF Untouched, Connect, Accept, TlsHandshake, ConnectionEnds, Serving
<1>2. ASSUME NEW l \in Schemes PROVE ~AcceptFails(l)
  BY DEF Untouched, AcceptFails, Serving
<1>3. ~(InitLogging \/ BuildAuth \/ BuildTls \/ BindWs \/ BindWss)
  BY DEF InitLogging, BuildAuth, BuildTls, BindWs, BindWss
<1>. QED BY <1>1, <1>2, <1>3 DEF StartNext, Main

\* Main() never goes back to parsing.
LEMMA UntouchedStep == StartInv /\ Untouched /\ [StartNext]_start_vars => Untouched'
<1>. SUFFICES ASSUME StartInv, Untouched, [StartNext]_start_vars, pc' = "parse"
              PROVE  Untouched'
  BY DEF Untouched
<1>1. CASE pc = "parse" /\ StartNext
  <2>1. ParseArgs
    BY <1>1, ParsesFirst DEF StartInv, Typed
  <2>. QED BY <2>1 DEF ParseArgs, Exit, Goes
<1>2. CASE pc # "parse" /\ StartNext
  BY <1>2 DEF StartNext, Main, ParseArgs, InitLogging, BuildAuth, BuildTls, BindWs, BindWss,
              BindFails, Exit, Goes, Connect, Accept, TlsHandshake, ConnectionEnds,
              AcceptFails, main_vars
<1>3. CASE UNCHANGED start_vars
  BY <1>3 DEF start_vars, Untouched
<1>. QED BY <1>1, <1>2, <1>3

\* A complete choice of a certificate on the command line is merged with any file to the
\* same TLS arguments.
LEMMA CompleteTls ==
    ASSUME NEW cli, NEW file, NEW other,
           cli.auto_self_signed_cert \/ (cli.tls_cert # NotGiven /\ cli.tls_key # NotGiven)
    PROVE  TlsArgs(cli, file) = TlsArgs(cli, other)
<1>1. CASE cli.auto_self_signed_cert
  BY <1>1 DEF TlsArgs, TlsSource
<1>2. CASE ~cli.auto_self_signed_cert /\ cli.tls_cert # NotGiven /\ cli.tls_key # NotGiven
  BY <1>2 DEF TlsArgs, TlsSource, or
<1>. QED BY <1>1, <1>2

\* What the command line says about a setting is what from_cli() merges.
LEMMA MergedSettings ==
    ASSUME NEW cli, NEW file, NEW merged, merged = from_cli(cli, file), ~Conflict(cli)
    PROVE  /\ \A s \in DOMAIN Defaults :
                 /\ merged.set[s] \in {cli.set[s], file.set[s], Defaults[s]}
                 /\ cli.set[s] # NotGiven => merged.set[s] = cli.set[s]
           /\ \A l \in DOMAIN DefaultLists :
                 cli.lists[l] # {} => merged.lists[l] = cli.lists[l]
           /\ cli.tls_cert # NotGiven => merged.tls.cert = cli.tls_cert /\ ~merged.tls.auto
           /\ cli.tls_key # NotGiven => merged.tls.key = cli.tls_key /\ ~merged.tls.auto
           /\ cli.auto_self_signed_cert => merged.tls.auto
           /\ cli.no_auto_self_signed_cert => ~merged.tls.auto
           /\ cli.ipv6_only => merged.ipv6_only
           /\ cli.no_ipv6_only => ~merged.ipv6_only
<1>1. /\ merged.set = [s \in DOMAIN Defaults |-> or(or(cli.set[s], file.set[s]), Defaults[s])]
      /\ merged.lists = [l \in DOMAIN DefaultLists |->
                            IF cli.lists[l] # {} THEN cli.lists[l]
                            ELSE or(file.lists[l], DefaultLists[l])]
      /\ merged.ipv6_only = (cli.ipv6_only \/ (~cli.no_ipv6_only /\ or(file.ipv6_only, FALSE)))
      /\ merged.tls = TlsArgs(cli, file)
  BY DEF from_cli
<1>2. ASSUME NEW s \in DOMAIN Defaults
      PROVE  /\ merged.set[s] \in {cli.set[s], file.set[s], Defaults[s]}
             /\ cli.set[s] # NotGiven => merged.set[s] = cli.set[s]
  BY <1>1 DEF or
<1>3. ASSUME NEW l \in DOMAIN DefaultLists
      PROVE  cli.lists[l] # {} => merged.lists[l] = cli.lists[l]
  BY <1>1
<1>4. /\ cli.ipv6_only => merged.ipv6_only
      /\ cli.no_ipv6_only => ~merged.ipv6_only
  BY <1>1 DEF Conflict
<1>5. /\ cli.tls_cert # NotGiven => merged.tls.cert = cli.tls_cert /\ ~merged.tls.auto
      /\ cli.tls_key # NotGiven => merged.tls.key = cli.tls_key /\ ~merged.tls.auto
  BY <1>1 DEF Conflict, TlsArgs, TlsSource, or
<1>6. /\ cli.auto_self_signed_cert => merged.tls.auto
      /\ cli.no_auto_self_signed_cert => ~merged.tls.auto
  <2>1. CASE TlsSource(cli) = "auto"
    <3>1. merged.tls.auto = TRUE
      BY <1>1, <2>1 DEF TlsArgs
    <3>2. cli.auto_self_signed_cert
      BY <2>1 DEF TlsSource
    <3>. QED BY <3>1, <3>2 DEF Conflict
  <2>2. CASE TlsSource(cli) = "files"
    <3>1. merged.tls.auto = FALSE
      BY <1>1, <2>2 DEF TlsArgs
    <3>2. ~cli.auto_self_signed_cert
      BY <2>2 DEF TlsSource
    <3>. QED BY <3>1, <3>2
  <2>3. CASE TlsSource(cli) = "config"
    <3>1. ~cli.auto_self_signed_cert /\ ~cli.no_auto_self_signed_cert
      BY <2>3 DEF TlsSource
    <3>. QED BY <3>1
  <2>. QED BY <2>1, <2>2, <2>3 DEF TlsSource
<1>. QED BY <1>2, <1>3, <1>4, <1>5, <1>6

\* Command-line options take precedence over the file, for every setting, and a complete
\* choice of a certificate there is never refused because of the file's (args.rs:66-192).
THEOREM CommandLineTakesPrecedence == StartSpec => CommandLineWins
<1>. DEFINE Wins ==
       pc = "parse" /\ options.config # NotGiven =>
        LET cli == options.cli
            file == options.config
        IN  /\ pc' = "logging" =>
                  /\ \A s \in DOMAIN Defaults :
                        args'.set[s] \in {cli.set[s], file.set[s], Defaults[s]}
                        /\ (cli.set[s] # NotGiven => args'.set[s] = cli.set[s])
                  /\ \A l \in DOMAIN DefaultLists :
                        cli.lists[l] # {} => args'.lists[l] = cli.lists[l]
                  /\ cli.tls_cert # NotGiven => args'.tls.cert = cli.tls_cert /\ ~args'.tls.auto
                  /\ cli.tls_key # NotGiven => args'.tls.key = cli.tls_key /\ ~args'.tls.auto
                  /\ cli.auto_self_signed_cert => args'.tls.auto
                  /\ cli.no_auto_self_signed_cert => ~args'.tls.auto
                  /\ cli.ipv6_only => args'.ipv6_only
                  /\ cli.no_ipv6_only => ~args'.ipv6_only
            /\ (/\ ~Conflict(cli)
                /\ cli.auto_self_signed_cert \/ (cli.tls_cert # NotGiven /\ cli.tls_key # NotGiven)
                /\ Valid(from_cli(cli, [file EXCEPT !.tls_cert = NotGiven, !.tls_key = NotGiven,
                                                    !.auto_self_signed_cert = NotGiven])))
                  => pc' = "logging"
<1>1. ASSUME StartInv, Untouched, StartNext, pc = "parse", options.config # NotGiven
      PROVE  Wins
  <2>. DEFINE cli == options.cli
              file == options.config
              bare == [file EXCEPT !.tls_cert = NotGiven, !.tls_key = NotGiven,
                                   !.auto_self_signed_cert = NotGiven]
  <2>1. ParseArgs
    BY <1>1, ParsesFirst DEF StartInv, Typed
  <2>2. /\ pc' = "logging" => ~Conflict(cli) /\ args' = from_cli(cli, file)
        /\ ~Conflict(cli) /\ Valid(from_cli(cli, file)) => pc' = "logging"
    BY <1>1, <2>1 DEF ParseArgs, Exit, Goes
  <2>3. /\ bare.set = file.set /\ bare.lists = file.lists /\ bare.ipv6_only = file.ipv6_only
    BY <1>1, StartupAssumption DEF Untouched
  <2>. HIDE DEF cli, file, bare
  <2>4. ASSUME cli.auto_self_signed_cert \/ (cli.tls_cert # NotGiven /\ cli.tls_key # NotGiven)
        PROVE  from_cli(cli, file) = from_cli(cli, bare)
    BY <2>3, <2>4, CompleteTls DEF from_cli
  <2>. QED BY <2>2, <2>4, MergedSettings DEF cli, file, bare
<1>2. StartInv /\ Untouched /\ [StartNext]_start_vars => [Wins]_start_vars
  BY <1>1
<1>3. StartInit => Untouched
  BY DEF StartInit, Untouched, Idle
<1>. QED BY <1>2, <1>3, StartInvariance, UntouchedStep, PTL DEF StartSpec, CommandLineWins
=============================================================================
