--------------------------------- MODULE MCClients ---------------------------------
(* Instances of Clients for TLC: every combination of two of the options that can be
   refused or that exclude each other, one more of every other kind, each with every
   class of value it has; and a pool of up to four clients with a counter that wraps. *)
EXTENDS Clients

CONSTANTS c1, c2

Durations == {"dns_timeout", "tcp_connect_timeout", "tls_handshake_timeout",
              "ttfb_timeout", "total_timeout", "quic_connect_timeout",
              "min_transfer_rate_window", "system_dns_cache_ttl", "idle_timeout"}

Values(o) ==
  CASE o \in Durations                               -> {"good", "bad", "vast"}
    [] o \in ToSet(Counts)                           -> {"good", "zero"}
    [] o = "ip_family"                               -> {"any", "ipv4", "ipv6", "bad"}
    [] o = "connect_to"                              -> {"one", "twice", "v6", "mapped", "zero"}
    [] o = "retry"                                   -> {"policy", "callable", "bad"}
    [] o \in ToSet(Converted)
             \cup {"ca_cert", "dns", "keylog", "proxy", "h3_retry_mode"}
                                                     -> {"good", "bad"}
    [] OTHER                                         -> {"good"}

AllValues == UNION {Values(o) : o \in ClientOptions \cup SessionOptions}

Pick(options) == {f \in [options -> AllValues] : \A o \in options : f[o] \in Values(o)}

\* Up to two options of a set.
Pairs(options) == UNION {Pick({o, p}) : o, p \in options}

NoArguments == [o \in {} |-> "good"]

MCArguments ==
  [client : Pairs(ClientOptions)
            \cup Pick({"dns", "system_dns_cache_ttl", "system_dns_cache_max_entries"})
            \cup Pick({"ip_family", "connect_to", "keylog"}),
   session : {NoArguments}]
  \cup [client : {NoArguments},
        session : Pairs(SessionOptions) \cup Pick({"http2_only", "protocol_policy", "http_intent"})]

\* All that choose a protocol set one field, so that the last one called wins.
MCField == [o \in ToSet(OfProtocol) \cup ToSet(OfSessionProtocol) |-> "protocol"]

Entry(to, toPort) == [host |-> "a", port |-> 443, spelt |-> "a", to |-> to, toPort |-> toPort]

MCDict ==
  [one    |-> {Entry("v4", 443)},
   twice  |-> {Entry("v4", 443), [Entry("v4", 444) EXCEPT !.spelt = "A"]},
   v6     |-> {Entry("v6", 443)},
   mapped |-> {Entry("mapped", 443)},
   zero   |-> {Entry("v4", 0)}]
====================================================================================
