------------------------------- MODULE ClientSetup -------------------------------
(***************************************************************************)
(* client.rs: making a Client out of some fifty options, and a session out *)
(* of the client.  dns.rs reads connect_to, retry.rs asks a Python         *)
(* callable whether to try again.                                          *)
(*                                                                         *)
(* One step is one group of options, in the order of build_client: what a  *)
(* refused call leaves behind depends on that order.  The value of an      *)
(* option is its class: "good"; "bad", which cannot be converted; "zero";  *)
(* or "vast", a finite number of seconds beyond what a Duration holds.     *)
(* Setters that cannot fail are called together at the end; only those     *)
(* that choose a protocol are taken to overlap, so only their order counts.*)
(***************************************************************************)
EXTENDS Naturals, SequencesExt

CONSTANTS Arguments,   \* the calls to consider: [client, session], both functions
                       \* from the options that are given to their values
          Dict,        \* for each value of connect_to, the set of its entries
          Field        \* for each option that chooses a protocol, what upstream sets

VARIABLES
  args,        \* the arguments of Client(...) and of session(...)
  at,          \* the step to be taken
  client,      \* what the client builder was given
  overrides,   \* its table of dial targets
  session,     \* what the session builder was given
  file,        \* whether the key log file was opened
  result,      \* what the two calls came to
  answer,      \* what the retry callable answered when it was asked
  decision     \* and what was made of it

vars == <<args, at, client, overrides, session, file, result, answer, decision>>

Converted == <<"masque", "tls_profile", "h2_profile", "tcp_fingerprint",
               "quic_fingerprint", "quic_profile">>
Timeouts  == <<"dns_timeout", "tcp_connect_timeout", "tls_handshake_timeout",
               "ttfb_timeout", "total_timeout", "quic_connect_timeout">>
Limits    == <<"max_response_body_size", "max_connections_per_session",
               "max_header_count", "max_header_size", "max_headers_total_size",
               "min_transfer_rate">>
Window    == "min_transfer_rate_window"
Counts    == <<"max_pending_h2_requests", "h2_dispatch_batch_size">>
Plain     == <<"default_headers", "header_order", "h3_header_order", "cookie_order",
               "h2_fallback_h1", "proxy_fallback_direct", "retry_on_connection_close",
               "middleware", "ca_cert_pem", "ca_cert_der", "verify", "use_native_certs",
               "ech_config", "session_resumption", "randomize", "h2_data_frame_policy",
               "require_close_notify", "tls_session_resumption_policy",
               "tls_session_cache_partition_policy">>
OfSession == <<"middleware", "accept_encoding", "ech_config", "max_connections",
               "broken_quic_policy", "header_order", "cookie_order", "h3_header_order",
               "https_only", "hsts", "network_partition_context",
               "on_request", "on_response", "base_url">>

\* The setters that choose a protocol, in the order in which they are called.
OfProtocol == <<"protocol_policy", "disable_http3">>

\* Mutant: the policy is set first, before the switches.
PolicyBeforeSwitches ==
  <<"protocol_policy", "http1_only", "http2_only", "http3_only", "http3_with_fallback",
    "http_intent">>

OfSessionProtocol ==
  <<"http1_only", "http2_only", "http3_only", "http3_with_fallback",
    "protocol_policy", "http_intent">>

ClientOptions ==
  ToSet(Converted) \cup ToSet(Timeouts) \cup ToSet(Limits) \cup ToSet(Counts) \cup ToSet(Plain)
    \cup ToSet(OfProtocol)
    \cup {Window, "ca_cert", "system_dns_cache_ttl", "system_dns_cache_max_entries", "dns",
          "ip_family", "connect_to", "keylog"}

SessionOptions ==
  ToSet(OfSession) \cup ToSet(OfSessionProtocol)
    \cup {"proxy", "retry", "idle_timeout", "h3_retry_mode", "allow_redirects", "max_redirects"}

\* Python refuses a keyword that the signature does not have.
ASSUME ArgumentsAssumption ==
  \A given \in Arguments :
    DOMAIN given.client \subseteq ClientOptions /\ DOMAIN given.session \subseteq SessionOptions

\* Mutant: the file is opened where the option is read, before connect_to.
OrderKeylogEarly ==
  <<"convert", "timeouts", "limits", "counts", "ca_cert", "resolver", "family",
    "keylog", "connect_to", "build",
    "proxy", "retry", "idle_timeout", "h3_retry_mode", "open">>

Order == <<"convert", "timeouts", "limits", "counts", "ca_cert", "resolver", "family",
           "connect_to", "keylog", "build",
           "proxy", "retry", "idle_timeout", "h3_retry_mode", "open">>

Init ==
  /\ args \in Arguments
  /\ at = 1
  /\ client = <<>> /\ overrides = {} /\ session = <<>>
  /\ file = FALSE
  /\ result = [client |-> "making", session |-> "making"]
  /\ answer = "none" /\ decision = "none"

--------------------------------------------------------------------------------
\* What becomes of a value

\* Mutant: a zero is passed on, and upstream asserts that it is none.
RefusedButZero == {"bad"}

Refused == {"bad", "zero"}

Fate(value) == CASE value \in Refused                    -> "raised"
                 [] value \in {"vast", "zero"} \ Refused -> "panicked"
                 [] OTHER                                -> "taken"

\* The options of a tuple that are given; the first that is not taken, or none.
In(given, options) == ToSet(options) \cap DOMAIN given
Fails(given, o) == o \in DOMAIN given /\ Fate(given[o]) # "taken"
Spoilt(given, options) ==
  {options[i] : i \in {j \in DOMAIN options :
                         /\ Fails(given, options[j])
                         /\ \A k \in 1 .. j - 1 : ~Fails(given, options[k])}}

\* Of the setters that set one field, what the last one called has set remains.
Standing(given, setters) ==
  {setters[i] : i \in {j \in DOMAIN setters :
                          /\ setters[j] \in DOMAIN given
                          /\ \A k \in DOMAIN setters :
                               k > j /\ setters[k] \in DOMAIN given
                                 => Field[setters[k]] # Field[setters[j]]}}

With(config, given, taken) ==
  [o \in DOMAIN config \cup taken |-> IF o \in taken THEN given[o] ELSE config[o]]

Doing(step) == at <= Len(Order) /\ Order[at] = step
ContinueOrElse(who, outcome) ==
  /\ result' = [result EXCEPT ![who] = outcome]
  /\ at' = IF outcome = "making" THEN at + 1 ELSE Len(Order) + 1
Continue == at' = at + 1 /\ UNCHANGED result

\* A step of the constructor, and one of session(), on these options.
ClientStep(step, options) ==
  /\ Doing(step)
  /\ LET spoilt == Spoilt(args.client, options)
     IN  \/ /\ spoilt = {}
            /\ client' = With(client, args.client, In(args.client, options))
            /\ Continue
         \/ \E o \in spoilt :
              ContinueOrElse("client", Fate(args.client[o])) /\ UNCHANGED client
  /\ UNCHANGED <<args, overrides, session, answer, decision>>

SessionStep(step, options) ==
  /\ Doing(step)
  /\ LET spoilt == Spoilt(args.session, options)
     IN  \/ /\ spoilt = {}
            /\ session' = With(session, args.session, In(args.session, options))
            /\ Continue
         \/ \E o \in spoilt :
              ContinueOrElse("session", Fate(args.session[o])) /\ UNCHANGED session
  /\ UNCHANGED <<args, client, overrides, file, answer, decision>>

--------------------------------------------------------------------------------
\* Client(...)

Given(options) == In(args.client, options) # {}

\* Mutant: the condition forgets the last of the timeouts.
TimeoutsButQuic == Given(Front(Timeouts))

\* The whole-struct setters are called only if a field of theirs is given.
TimeoutsGiven == Given(Timeouts)
LimitsGiven   == Given(Limits)

Convert   == ClientStep("convert", Converted) /\ UNCHANGED file
TimeoutConfig ==
  ClientStep("timeouts", IF TimeoutsGiven THEN Timeouts ELSE <<>>) /\ UNCHANGED file

\* A window without a rate is not even looked at.
ResourceLimits ==
  LET fields == IF Given(<<"min_transfer_rate">>) THEN Append(Limits, Window) ELSE Limits
  IN  ClientStep("limits", IF LimitsGiven THEN fields ELSE <<>>) /\ UNCHANGED file

NonZeroCounts == ClientStep("counts", Counts) /\ UNCHANGED file
CaCert        == ClientStep("ca_cert", <<"ca_cert">>) /\ UNCHANGED file

ResolverClash ==
  \/ Given(<<"system_dns_cache_ttl">>) /\ Given(<<"dns">>)
  \/ Given(<<"system_dns_cache_max_entries">>) /\ ~Given(<<"system_dns_cache_ttl">>)

Resolver ==
  /\ UNCHANGED file
  /\ \/ /\ ~ResolverClash
        /\ ClientStep("resolver",
                      <<"system_dns_cache_ttl", "system_dns_cache_max_entries", "dns">>)
     \/ /\ ResolverClash
        /\ Doing("resolver")
        /\ ContinueOrElse("client", "raised")
        /\ UNCHANGED <<args, client, overrides, session, answer, decision>>

ParseIpFamily == ClientStep("family", <<"ip_family">>) /\ UNCHANGED file

\* family_allows.  "mapped" is an IPv4 address that is written as an IPv6 one.
FamilyAllows(family, ip) ==
  CASE family = "any"  -> TRUE
    [] family = "ipv4" -> ip = "v4"
    [] family = "ipv6" -> ip = "v6"

FamilyOf(config) == IF "ip_family" \in DOMAIN config THEN config.ip_family ELSE "any"
Origin(entry) == <<entry.host, entry.port>>   \* its host as upstream normalises it
Distinct(entries) == \A e, f \in entries : Origin(e) = Origin(f) => e = f

\* parse_connect_to
ValidConnectTo(entries, family) ==
  /\ Distinct(entries)
  /\ \A e \in entries :
       e.host # "bad" /\ e.port # 0 /\ e.to # "bad" /\ e.toPort # 0
         /\ FamilyAllows(family, e.to)

\* Upstream keeps one target for an origin, and panics if asked for port 0.
Table(entries) == {CHOOSE e \in entries : Origin(e) = o : o \in {Origin(e) : e \in entries}}

ConnectTo ==
  /\ Doing("connect_to")
  /\ LET entries == IF Given(<<"connect_to">>) THEN Dict[args.client.connect_to] ELSE {}
     IN  \/ /\ ValidConnectTo(entries, FamilyOf(client))
            /\ overrides' = Table(entries)
            /\ client' = With(client, args.client, In(args.client, <<"connect_to">>))
            /\ IF \E e \in entries : e.port = 0 \/ e.toPort = 0
               THEN ContinueOrElse("client", "panicked") ELSE Continue
         \/ /\ ~ValidConnectTo(entries, FamilyOf(client))
            /\ ContinueOrElse("client", "raised")
            /\ UNCHANGED <<client, overrides>>
  /\ UNCHANGED <<args, session, file, answer, decision>>

\* keylog_to_file creates the file.
Keylog ==
  /\ ClientStep("keylog", <<"keylog">>)
  /\ file' = (file \/ "keylog" \in DOMAIN client')

Build ==
  /\ Doing("build")
  /\ client' = With(client, args.client,
                    In(args.client, Plain) \cup Standing(args.client, OfProtocol))
  /\ result' = [result EXCEPT !.client = "made"]
  /\ at' = at + 1
  /\ UNCHANGED <<args, overrides, session, file, answer, decision>>

--------------------------------------------------------------------------------
\* client.session(...)

Proxy       == SessionStep("proxy", <<"proxy">>)
Retry       == SessionStep("retry", <<"retry">>)
IdleTimeout == SessionStep("idle_timeout", <<"idle_timeout">>)
H3RetryMode == SessionStep("h3_retry_mode", <<"h3_retry_mode">>)

\* allow_redirects, where it is given, is False: it takes precedence.
Redirects == IF "allow_redirects" \in DOMAIN args.session
             THEN <<"allow_redirects">> ELSE <<"max_redirects">>

OpenSession ==
  /\ Doing("open")
  /\ session' = With(session, args.session,
                     In(args.session, Redirects \o OfSession)
                       \cup Standing(args.session, OfSessionProtocol))
  /\ result' = [result EXCEPT !.session = "made"]
  /\ at' = at + 1
  /\ UNCHANGED <<args, client, overrides, file, answer, decision>>

\* should_retry, of a callable: only a delay that can be slept is a yes.
ShouldRetry(said) == CASE said = "good" -> "retry"
                       [] said = "vast" -> "panicked"
                       [] OTHER         -> "stop"

AskCallable ==
  /\ result.session = "made"
  /\ "retry" \in DOMAIN session /\ session.retry = "callable"
  /\ answer = "none"
  /\ answer' \in {"raises", "None", "text", "bad", "good", "vast"}
  /\ decision' = ShouldRetry(answer')
  /\ UNCHANGED <<args, at, client, overrides, session, file, result>>

Next ==
  \/ Convert \/ TimeoutConfig \/ ResourceLimits \/ NonZeroCounts \/ CaCert \/ Resolver
  \/ ParseIpFamily \/ ConnectTo \/ Keylog \/ Build
  \/ Proxy \/ Retry \/ IdleTimeout \/ H3RetryMode \/ OpenSession \/ AskCallable

Spec == Init /\ [][Next]_vars

--------------------------------------------------------------------------------
\* Properties

\* Which option wins over which, where both set the same thing: the fine-grained one
\* over the switch, http_intent over the policy, disable_http3 over it too.
Strength == [http1_only |-> 1, http2_only |-> 2, http3_only |-> 3, http3_with_fallback |-> 4,
             protocol_policy |-> 5, http_intent |-> 6, disable_http3 |-> 6]

Outranked(given) ==
  {o \in DOMAIN Strength :
     \E p \in DOMAIN Strength \cap DOMAIN given :
       Field[p] = Field[o] /\ Strength[p] > Strength[o]}

\* The options that are passed over: those a stronger one outranks; max_redirects
\* beside allow_redirects=False, as a comment in the code says; and a transfer-rate
\* window without a rate, which the code drops without a word.
PassedOver(given) ==
  Outranked(given)
    \cup (IF "allow_redirects" \in DOMAIN given THEN {"max_redirects"} ELSE {})
    \cup (IF "min_transfer_rate" \in DOMAIN given THEN {} ELSE {Window})

Effective(given) == [o \in DOMAIN given \ PassedOver(given) |-> given[o]]

\* Apart from the options that are passed over, a constructor that returned put
\* every option it was given into force with its own value, and nothing else: one
\* that is lost by a condition that forgets it, or replaced by a setter called
\* later that should be the weaker, is noticed only on the wire.
GivenIsInForce ==
  /\ result.client = "made" =>
       /\ client = Effective(args.client)
       /\ "connect_to" \in DOMAIN args.client => overrides = Dict[args.client.connect_to]
       /\ \A e \in overrides : FamilyAllows(FamilyOf(args.client), e.to)
  /\ result.session = "made" => session = Effective(args.session)

\* A call of Client(...) that raises has not created a key log file, whichever of
\* its options it fell over: only one that can no longer fail opens it.
RefusedLeavesNoFile == file => result.client \notin {"raised", "panicked"}

\* No argument makes upstream's assertions fail, whatever it is combined with: the
\* only panic left is that of a duration that no Duration can hold.
OnlyVastDurationsPanic ==
  LET Vast(given) == \E o \in DOMAIN given : given[o] = "vast"
  IN  /\ result.client = "panicked" => Vast(args.client)
      /\ result.session = "panicked" => Vast(args.session)
      /\ decision = "panicked" => answer = "vast"
================================================================================
