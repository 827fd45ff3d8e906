------------------------------ MODULE MCStartup ------------------------------
(* Startup for TLC. *)
EXTENDS Startup

NoSettings == [s \in DOMAIN Defaults |-> NotGiven]

Cli == [set |-> NoSettings, lists |-> [l \in DOMAIN DefaultLists |-> {}],
        ipv6_only |-> FALSE, no_ipv6_only |-> FALSE, tls_cert |-> NotGiven, tls_key |-> NotGiven,
        auto_self_signed_cert |-> FALSE, no_auto_self_signed_cert |-> FALSE]

File == [set |-> NoSettings, lists |-> [l \in DOMAIN DefaultLists |-> NotGiven],
         ipv6_only |-> NotGiven, tls_cert |-> NotGiven, tls_key |-> NotGiven,
         auto_self_signed_cert |-> NotGiven]

Both(clis, files) == [cli : clis, config : files]

\* Every combination of what concerns TLS, on the command line and in the file.
Modes == {NotGiven, "WsOnly", "WssOnly", "Both"}

TlsOptions ==
    Both({[Cli EXCEPT !.set.service_mode = m, !.tls_cert = c, !.tls_key = k,
                      !.auto_self_signed_cert = a, !.no_auto_self_signed_cert = n] :
             m \in {NotGiven, "WssOnly"}, c \in {NotGiven, "c1"}, k \in {NotGiven, "k1"},
             a \in BOOLEAN, n \in BOOLEAN},
         {[File EXCEPT !.set.service_mode = m, !.tls_cert = c, !.tls_key = k,
                       !.auto_self_signed_cert = a] :
             m \in Modes, c \in {NotGiven, "c2"}, k \in {NotGiven, "k2"},
             a \in {NotGiven, TRUE, FALSE}})

\* Two values of each other setting, one in each place, and both places at once.
Values == [bind |-> {"v4", "nowhere"}, port |-> {443, 8000}, tls_port |-> {80, 8443},
           buffer_size |-> {0, 1}, udp_idle_timeout |-> {0, 1}, access_token_ttl |-> {0, 1},
           refresh_token_ttl |-> {0, 1}, basic_auth_file |-> {"f", "g"},
           anonymous_target_file |-> {"f", "g"}, token_secret_file |-> {"f", "g"},
           log_file |-> {"f", "g"}, log_level |-> {"f", "g"}]

SettingOptions ==
    UNION {Both({[Cli EXCEPT !.set[s] = v, !.set.service_mode = "Both",
                             !.auto_self_signed_cert = TRUE] : v \in Values[s] \cup {NotGiven}},
                {[File EXCEPT !.set[s] = v] : v \in Values[s] \cup {NotGiven}}) :
              s \in DOMAIN Values}

ListOptions ==
    Both({[Cli EXCEPT !.lists[l] = v, !.set.bind = b, !.ipv6_only = six, !.no_ipv6_only = noSix] :
             l \in DOMAIN DefaultLists, v \in {{}, {"a"}}, b \in {NotGiven, "v4"},
             six \in BOOLEAN, noSix \in BOOLEAN},
         {NotGiven} \cup {[File EXCEPT !.lists[l] = v, !.ipv6_only = six] :
             l \in DOMAIN DefaultLists, v \in {NotGiven, {}, {"bad"}}, six \in {NotGiven, TRUE, FALSE}})

MCOptions == TlsOptions \cup SettingOptions \cup ListOptions
=============================================================================
