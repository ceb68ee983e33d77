------------------------------ MODULE ClientsProofs ------------------------------
(***************************************************************************)
(* Proofs about Clients: about a pool of any clients with a counter of any *)
(* width, about the making of a client with any options, and about both.   *)
(***************************************************************************)
EXTENDS Clients, Integers, TLAPS

--------------------------------------------------------------------------------
(* ClientSetup: the options *)

\* The options that have an effect, and what an object has that was given some of them.
Kept(given) == DOMAIN Effective(given)
Part(given, options) == [o \in Kept(given) \cap options |-> given[o]]

\* The options that each step is about.
ClientGroups ==
  <<ToSet(Converted), ToSet(Timeouts), ToSet(Limits) \cup {Window}, ToSet(Counts), {"ca_cert"},
    {"system_dns_cache_ttl", "system_dns_cache_max_entries", "dns"},
    {"ip_family"}, {"connect_to"}, {"keylog"}, ToSet(Plain) \cup ToSet(OfProtocol)>>

SessionGroups ==
  <<{"proxy"}, {"retry"}, {"idle_timeout"}, {"h3_retry_mode"},
    {"allow_redirects", "max_redirects"} \cup ToSet(OfSession) \cup ToSet(OfSessionProtocol)>>

\* Those of the steps before the k-th.
ClientBefore(k)  == UNION {ClientGroups[j] : j \in {i \in 1 .. 10 : i < k}}
SessionBefore(k) == UNION {SessionGroups[j] : j \in {i \in 1 .. 5 : i + 10 < k}}

LEMMA GroupOf ==
  /\ ClientGroups[1] = ToSet(Converted) /\ ClientGroups[2] = ToSet(Timeouts)
  /\ ClientGroups[3] = ToSet(Limits) \cup {Window} /\ ClientGroups[4] = ToSet(Counts)
  /\ ClientGroups[5] = {"ca_cert"}
  /\ ClientGroups[6] = {"system_dns_cache_ttl", "system_dns_cache_max_entries", "dns"}
  /\ ClientGroups[7] = {"ip_family"} /\ ClientGroups[8] = {"connect_to"}
  /\ ClientGroups[9] = {"keylog"} /\ ClientGroups[10] = ToSet(Plain) \cup ToSet(OfProtocol)
BY DEF ClientGroups

LEMMA SessionGroupOf ==
  /\ SessionGroups[1] = {"proxy"} /\ SessionGroups[2] = {"retry"}
  /\ SessionGroups[3] = {"idle_timeout"} /\ SessionGroups[4] = {"h3_retry_mode"}
  /\ SessionGroups[5] = {"allow_redirects", "max_redirects"} \cup ToSet(OfSession)
                          \cup ToSet(OfSessionProtocol)
BY DEF SessionGroups

LEMMA BeforeNext ==
  /\ ClientBefore(1) = {}
  /\ \A k \in 1 .. 10 : ClientBefore(k + 1) = ClientBefore(k) \cup ClientGroups[k]
  /\ \A k \in 11 .. 16 : ClientBefore(k) = ClientBefore(11)
  /\ \A k \in 1 .. 11 : SessionBefore(k) = {}
  /\ \A k \in 1 .. 5 : SessionBefore(k + 11) = SessionBefore(k + 10) \cup SessionGroups[k]
<1>1. ClientBefore(1) = {} /\ \A k \in 1 .. 11 : SessionBefore(k) = {}
  BY DEF ClientBefore, SessionBefore
<1>2. ASSUME NEW k \in 1 .. 10 PROVE ClientBefore(k + 1) = ClientBefore(k) \cup ClientGroups[k]
  <2>1. {i \in 1 .. 10 : i < k + 1} = {i \in 1 .. 10 : i < k} \cup {k}
    OBVIOUS
  <2> QED  BY <2>1 DEF ClientBefore
<1>3. ASSUME NEW k \in 11 .. 16 PROVE ClientBefore(k) = ClientBefore(11)
  <2>1. {i \in 1 .. 10 : i < k} = {i \in 1 .. 10 : i < 11}
    OBVIOUS
  <2> QED  BY <2>1 DEF ClientBefore
<1>4. ASSUME NEW k \in 1 .. 5 PROVE SessionBefore(k + 11) = SessionBefore(k + 10) \cup SessionGroups[k]
  <2>1. {i \in 1 .. 5 : i + 10 < k + 11} = {i \in 1 .. 5 : i + 10 < k + 10} \cup {k}
    OBVIOUS
  <2> QED  BY <2>1 DEF SessionBefore
<1> QED  BY <1>1, <1>2, <1>3, <1>4

\* The groups are all the options there are.
LEMMA GroupsAreAll ==
  ClientBefore(11) = ClientOptions /\ SessionBefore(16) = SessionOptions
<1>1. ClientBefore(11) = ClientGroups[1] \cup ClientGroups[2] \cup ClientGroups[3] \cup ClientGroups[4]
         \cup ClientGroups[5] \cup ClientGroups[6] \cup ClientGroups[7] \cup ClientGroups[8]
         \cup ClientGroups[9] \cup ClientGroups[10]
  BY BeforeNext
<1>2. SessionBefore(16) = SessionGroups[1] \cup SessionGroups[2] \cup SessionGroups[3]
         \cup SessionGroups[4] \cup SessionGroups[5]
  BY BeforeNext
<1> QED  BY <1>1, <1>2, GroupOf, SessionGroupOf DEF ClientOptions, SessionOptions

\* Names that are told apart.
LEMMA NamesApart ==
  /\ \A o \in ToSet(Converted) \cup ToSet(Timeouts) \cup ToSet(Counts) \cup ToSet(Plain) :
       o # Window /\ o # "max_redirects" /\ o # "allow_redirects" /\ o # "min_transfer_rate"
  /\ \A o \in ToSet(Limits) : o # Window /\ o # "max_redirects" /\ o # "allow_redirects" /\ o # "keylog"
  /\ \A o \in ToSet(OfSession) : o # Window /\ o # "max_redirects" /\ o # "allow_redirects"
  /\ \A o \in ToSet(Converted) \cup ToSet(Timeouts) \cup ToSet(Counts) : o # "keylog"
<1>1. \A o \in ToSet(Converted) :
         o # Window /\ o # "max_redirects" /\ o # "allow_redirects" /\ o # "min_transfer_rate" /\ o # "keylog"
  BY DEF ToSet, Converted, Window
<1>2. \A o \in ToSet(Timeouts) :
         o # Window /\ o # "max_redirects" /\ o # "allow_redirects" /\ o # "min_transfer_rate" /\ o # "keylog"
  BY DEF ToSet, Timeouts, Window
<1>3. \A o \in ToSet(Counts) :
         o # Window /\ o # "max_redirects" /\ o # "allow_redirects" /\ o # "min_transfer_rate" /\ o # "keylog"
  BY DEF ToSet, Counts, Window
<1>4. \A o \in ToSet(Plain) :
         o # Window /\ o # "max_redirects" /\ o # "allow_redirects" /\ o # "min_transfer_rate"
  BY DEF ToSet, Plain, Window
<1>5. \A o \in ToSet(Limits) : o # Window /\ o # "max_redirects" /\ o # "allow_redirects" /\ o # "keylog"
  BY DEF ToSet, Limits, Window
<1>6. \A o \in ToSet(OfSession) : o # Window /\ o # "max_redirects" /\ o # "allow_redirects"
  BY DEF ToSet, OfSession, Window
<1> QED  BY <1>1, <1>2, <1>3, <1>4, <1>5, <1>6

\* The options that choose a protocol are those that are ranked; no other is.
Ranked == {"http1_only", "http2_only", "http3_only", "http3_with_fallback",
           "protocol_policy", "http_intent", "disable_http3"}

LEMMA ProtocolOptions ==
  /\ DOMAIN Strength = Ranked
  /\ ToSet(OfProtocol) = {"protocol_policy", "disable_http3"}
  /\ ToSet(OfSessionProtocol) = Ranked \ {"disable_http3"}
<1>1. DOMAIN Strength = Ranked
  BY DEF Strength, Ranked
<1>2. ToSet(OfProtocol) = {"protocol_policy", "disable_http3"}
  BY DEF ToSet, OfProtocol
<1>3. ToSet(OfSessionProtocol) = {"http1_only", "http2_only", "http3_only", "http3_with_fallback",
                                  "protocol_policy", "http_intent"}
  BY DEF ToSet, OfSessionProtocol
<1> QED  BY <1>1, <1>2, <1>3 DEF Ranked

LEMMA RankedApart ==
  /\ (ToSet(Converted) \cup ToSet(Timeouts) \cup ToSet(Limits) \cup ToSet(Counts)
        \cup ToSet(Plain) \cup ToSet(OfSession)) \cap Ranked = {}
  /\ Window \notin Ranked
<1>1. ToSet(Converted) \cap Ranked = {}
  BY DEF ToSet, Converted, Ranked
<1>2. ToSet(Timeouts) \cap Ranked = {}
  BY DEF ToSet, Timeouts, Ranked
<1>3. ToSet(Limits) \cap Ranked = {}
  BY DEF ToSet, Limits, Ranked
<1>4. ToSet(Counts) \cap Ranked = {}
  BY DEF ToSet, Counts, Ranked
<1>5. ToSet(Plain) \cap Ranked = {}
  BY DEF ToSet, Plain, Ranked
<1>6. ToSet(OfSession) \cap Ranked = {}
  BY DEF ToSet, OfSession, Ranked
<1>7. Window \notin Ranked
  BY DEF Window, Ranked
<1> QED  BY <1>1, <1>2, <1>3, <1>4, <1>5, <1>6, <1>7

LEMMA RankedOf ==
  /\ ClientOptions \cap Ranked = ToSet(OfProtocol)
  /\ SessionOptions \cap Ranked = ToSet(OfSessionProtocol)
BY RankedApart, ProtocolOptions DEF ClientOptions, SessionOptions, Ranked

\* Setters that are called in the order of their strength: the strongest remain.
LEMMA LastIsStrongest ==
  ASSUME NEW given, NEW setters, NEW n \in Nat, NEW d \in Int,
         DOMAIN setters = 1 .. n,
         \A i \in 1 .. n : setters[i] \in Ranked /\ Strength[setters[i]] = i + d,
         DOMAIN given \cap Ranked \subseteq ToSet(setters)
  PROVE  Standing(given, setters) = (ToSet(setters) \cap DOMAIN given) \ Outranked(given)
<1> DEFINE Later(j) == \E k \in 1 .. n : /\ k > j /\ setters[k] \in DOMAIN given
                                         /\ Field[setters[k]] = Field[setters[j]]
<1>1. ASSUME NEW j \in 1 .. n PROVE setters[j] \in Outranked(given) <=> Later(j)
  <2>1. ASSUME Later(j) PROVE setters[j] \in Outranked(given)
    <3>1. PICK k \in 1 .. n : /\ k > j /\ setters[k] \in DOMAIN given
                              /\ Field[setters[k]] = Field[setters[j]]
      BY <2>1
    <3>2. Strength[setters[k]] > Strength[setters[j]]
      BY <3>1
    <3> QED  BY <3>1, <3>2, ProtocolOptions DEF Outranked
  <2>2. ASSUME setters[j] \in Outranked(given) PROVE Later(j)
    <3>1. PICK p \in Ranked \cap DOMAIN given :
            Field[p] = Field[setters[j]] /\ Strength[p] > Strength[setters[j]]
      BY <2>2, ProtocolOptions DEF Outranked
    <3>2. PICK k \in 1 .. n : p = setters[k]
      BY <3>1 DEF ToSet
    <3>3. k > j
      BY <3>1, <3>2
    <3> QED  BY <3>1, <3>2, <3>3
  <2> QED  BY <2>1, <2>2
<1>2. Standing(given, setters) =
        {setters[i] : i \in {j \in 1 .. n : setters[j] \in DOMAIN given /\ ~Later(j)}}
  BY DEF Standing
<1> HIDE DEF Later
<1> QED  BY <1>1, <1>2 DEF ToSet

LEMMA StrongestRemain ==
  /\ \A given : DOMAIN given \subseteq ClientOptions =>
       Standing(given, OfProtocol) = (ToSet(OfProtocol) \cap DOMAIN given) \ Outranked(given)
  /\ \A given : DOMAIN given \subseteq SessionOptions =>
       Standing(given, OfSessionProtocol)
         = (ToSet(OfSessionProtocol) \cap DOMAIN given) \ Outranked(given)
<1>1. /\ DOMAIN OfProtocol = 1 .. 2
      /\ \A i \in 1 .. 2 : OfProtocol[i] \in Ranked /\ Strength[OfProtocol[i]] = i + 4
  BY DEF OfProtocol, Ranked, Strength
<1>2. /\ DOMAIN OfSessionProtocol = 1 .. 6
      /\ \A i \in 1 .. 6 :
           OfSessionProtocol[i] \in Ranked /\ Strength[OfSessionProtocol[i]] = i + 0
  <2>1. DOMAIN OfSessionProtocol = 1 .. 6
    BY DEF OfSessionProtocol
  <2>2. \A i \in 1 .. 6 : i = 1 \/ i = 2 \/ i = 3 \/ i = 4 \/ i = 5 \/ i = 6
    OBVIOUS
  <2> QED  BY <2>1, <2>2 DEF OfSessionProtocol, Ranked, Strength
<1>3. ASSUME NEW given, DOMAIN given \subseteq ClientOptions
      PROVE  Standing(given, OfProtocol) = (ToSet(OfProtocol) \cap DOMAIN given) \ Outranked(given)
  <2>1. DOMAIN given \cap Ranked \subseteq ToSet(OfProtocol)
    BY <1>3, RankedOf
  <2>2. 2 \in Nat /\ 4 \in Int
    OBVIOUS
  <2> QED  BY <1>1, <2>1, <2>2, LastIsStrongest
<1>4. ASSUME NEW given, DOMAIN given \subseteq SessionOptions
      PROVE  Standing(given, OfSessionProtocol)
               = (ToSet(OfSessionProtocol) \cap DOMAIN given) \ Outranked(given)
  <2>1. DOMAIN given \cap Ranked \subseteq ToSet(OfSessionProtocol)
    BY <1>4, RankedOf
  <2>2. 6 \in Nat /\ 0 \in Int
    OBVIOUS
  <2> QED  BY <1>2, <2>1, <2>2, LastIsStrongest
<1> QED  BY <1>3, <1>4

LEMMA KeptOptions ==
  /\ \A given : DOMAIN given \subseteq ClientOptions =>
       Kept(given) = {o \in DOMAIN given : /\ o = Window => "min_transfer_rate" \in DOMAIN given
                                           /\ o \notin Outranked(given)}
  /\ \A given : DOMAIN given \subseteq SessionOptions =>
       Kept(given) = {o \in DOMAIN given : /\ o = "max_redirects" => "allow_redirects" \notin DOMAIN given
                                           /\ o \notin Outranked(given)}
  /\ \A given : Outranked(given) \subseteq Ranked
<1>1. "max_redirects" \notin ClientOptions
  BY NamesApart, ProtocolOptions DEF ClientOptions, Window
<1>2. Window \notin SessionOptions
  BY NamesApart, ProtocolOptions, RankedApart DEF SessionOptions, Window
<1>3. \A given : Kept(given) = DOMAIN given \ PassedOver(given)
  BY DEF Kept, Effective
<1>4. \A given : Outranked(given) \subseteq Ranked
  BY ProtocolOptions DEF Outranked
<1> QED  BY <1>1, <1>2, <1>3, <1>4 DEF PassedOver

LEMMA AllIsEffective ==
  ASSUME NEW given, NEW options, DOMAIN given \subseteq options
  PROVE  Part(given, options) = Effective(given)
BY DEF Part, Kept, Effective

LEMMA NothingGiven == \A given : <<>> = Part(given, {})
BY DEF Part

LEMMA StepNumbers ==
  /\ Len(Order) = 15
  /\ \A step : Doing(step) /\ at \in Nat \ {0} => at \in 1 .. 15 /\ Order[at] = step
  /\ Order[1] = "convert" /\ Order[2] = "timeouts" /\ Order[3] = "limits" /\ Order[4] = "counts"
  /\ Order[5] = "ca_cert" /\ Order[6] = "resolver" /\ Order[7] = "family"
  /\ Order[8] = "connect_to" /\ Order[9] = "keylog" /\ Order[10] = "build"
  /\ Order[11] = "proxy" /\ Order[12] = "retry" /\ Order[13] = "idle_timeout"
  /\ Order[14] = "h3_retry_mode" /\ Order[15] = "open"
<1>1. Len(Order) = 15
  BY DEF Order
<1> QED  BY <1>1 DEF Order, Doing

LEMMA StepIsAt ==
  ASSUME at \in Nat \ {0}
  PROVE  /\ Doing("convert") => at = 1
         /\ Doing("timeouts") => at = 2
         /\ Doing("limits") => at = 3
         /\ Doing("counts") => at = 4
         /\ Doing("ca_cert") => at = 5
         /\ Doing("resolver") => at = 6
         /\ Doing("family") => at = 7
         /\ Doing("connect_to") => at = 8
         /\ Doing("keylog") => at = 9
         /\ Doing("build") => at = 10
         /\ Doing("proxy") => at = 11
         /\ Doing("retry") => at = 12
         /\ Doing("idle_timeout") => at = 13
         /\ Doing("h3_retry_mode") => at = 14
         /\ Doing("open") => at = 15
<1>1. at \in 1 .. 15 =>
        \/ at = 1 \/ at = 2 \/ at = 3 \/ at = 4 \/ at = 5 \/ at = 6 \/ at = 7 \/ at = 8
        \/ at = 9 \/ at = 10 \/ at = 11 \/ at = 12 \/ at = 13 \/ at = 14 \/ at = 15
  OBVIOUS
<1> QED  BY <1>1, StepNumbers

LEMMA FateFacts ==
  \A value : Fate(value) # "taken" =>
               Fate(value) = "raised" \/ (Fate(value) = "panicked" /\ value = "vast")
BY DEF Fate, Refused

LEMMA SpoiltFacts ==
  \A given, options : \A o \in Spoilt(given, options) : o \in DOMAIN given /\ Fate(given[o]) # "taken"
BY DEF Spoilt, Fails

--------------------------------------------------------------------------------
(* ClientSetup: the inductive invariant *)

\* How far the calls have got follows from the step they are at.
Stage ==
  /\ result.client = "making" => at \in 1 .. 10
  /\ result.client = "made" => at \in 11 .. 16
  /\ result.client \in {"raised", "panicked"} => at = 16
  /\ result.session # "making" => at = 16 /\ result.client = "made"

\* A builder has what was given of the options of the steps that are done.
ClientSoFar ==
  result.client \in {"making", "made"} => client = Part(args.client, ClientBefore(at))
SessionSoFar ==
  IF result.client = "made"
  THEN result.session \in {"making", "made"} => session = Part(args.session, SessionBefore(at))
  ELSE session = Part(args.session, {})

\* The dial targets are those of connect_to, of a family that was asked for.
Targets == IF "connect_to" \in DOMAIN args.client THEN Dict[args.client.connect_to] ELSE {}
TargetsSoFar ==
  result.client \in {"making", "made"} =>
    /\ overrides = IF at <= 8 THEN {} ELSE Targets
    /\ \A e \in overrides : FamilyAllows(FamilyOf(args.client), e.to)

\* The key log file is there only when nothing can be refused any more.
FileIsLast == file => at > 9 /\ result.client \in {"making", "made"}

\* Whose fault a panic is.
VastIn(given) == \E o \in DOMAIN given : given[o] = "vast"
PanicIsVast ==
  /\ result.client = "panicked" => VastIn(args.client)
  /\ result.session = "panicked" => VastIn(args.session)
  /\ decision = "panicked" => answer = "vast"

Outcomes == {"making", "made", "raised", "panicked"}

SMain ==
  /\ args \in Arguments /\ at \in 1 .. 16
  /\ result \in [client : Outcomes, session : Outcomes]
  /\ Stage /\ ClientSoFar /\ SessionSoFar /\ TargetsSoFar /\ PanicIsVast

SInv == SMain /\ FileIsLast

LEMMA SetupStarts == Init => SInv
<1> SUFFICES ASSUME Init PROVE SInv
  OBVIOUS
<1> USE DEF Init
<1>1. result \in [client : Outcomes, session : Outcomes]
      /\ result.client = "making" /\ result.session = "making"
  BY DEF Outcomes
<1>2. client = Part(args.client, ClientBefore(at)) /\ session = Part(args.session, {})
  BY NothingGiven, BeforeNext
<1> QED
  BY <1>1, <1>2 DEF SInv, SMain, Stage, ClientSoFar, SessionSoFar, TargetsSoFar, PanicIsVast, FileIsLast

\* A client that is being made: its options are known.
LEMMA KnownOptions ==
  ASSUME SMain
  PROVE  DOMAIN args.client \subseteq ClientOptions /\ DOMAIN args.session \subseteq SessionOptions
BY ArgumentsAssumption DEF SMain

LEMMA Making ==
  ASSUME SMain
  PROVE  /\ at \in 1 .. 10 => result.client = "making" /\ result.session = "making"
         /\ at \in 11 .. 15 => result.client = "made" /\ result.session = "making"
BY DEF SMain, Stage, Outcomes

\* A step of the constructor that goes wrong.
LEMMA ClientFails ==
  ASSUME SMain, at \in 1 .. 10, NEW outcome \in {"raised", "panicked"},
         outcome = "panicked" => VastIn(args.client),
         ContinueOrElse("client", outcome),
         UNCHANGED <<args, session, answer, decision>>
  PROVE  SMain'
<1>1. at' = 16
  BY StepNumbers DEF ContinueOrElse
<1>2. /\ result' \in [client : Outcomes, session : Outcomes]
      /\ result'.client = outcome /\ result'.session = "making"
  BY Making DEF ContinueOrElse, SMain, Outcomes
<1>3. session' = Part(args'.session, {})
  BY Making DEF SMain, SessionSoFar
<1> QED
  BY <1>1, <1>2, <1>3
     DEF SMain, Stage, ClientSoFar, SessionSoFar, TargetsSoFar, PanicIsVast, VastIn

\* One that does not.
LEMMA ClientGoesOn ==
  ASSUME SMain, NEW k \in 1 .. 9, at = k,
         NEW options, In(args.client, options) = Kept(args.client) \cap ClientGroups[k],
         client' = With(client, args.client, In(args.client, options)),
         overrides' = IF k < 8 THEN {} ELSE Targets,
         \A e \in overrides' : FamilyAllows(FamilyOf(args.client), e.to),
         Continue, UNCHANGED <<args, session, answer, decision>>
  PROVE  SMain'
<1>1. at' = k + 1 /\ result' = result
  BY DEF Continue
<1>2. result.client = "making" /\ result.session = "making"
  BY Making
<1>3. client = Part(args.client, ClientBefore(k))
  BY <1>2 DEF SMain, ClientSoFar
<1>4. client' = Part(args'.client, ClientBefore(at'))
  <2>1. client' = Part(args.client, ClientBefore(k) \cup ClientGroups[k])
    BY <1>3 DEF With, Part
  <2>2. args' = args /\ ClientBefore(at') = ClientBefore(k) \cup ClientGroups[k]
    BY <1>1, BeforeNext
  <2> QED  BY <2>1, <2>2
<1>5. TargetsSoFar'
  BY <1>1 DEF TargetsSoFar, Targets
<1>6. SessionSoFar'
  BY <1>1, <1>2 DEF SMain, SessionSoFar
<1>7. PanicIsVast'
  BY <1>1, <1>2 DEF SMain, PanicIsVast, VastIn
<1> QED
  BY <1>1, <1>2, <1>4, <1>5, <1>6, <1>7 DEF SMain, Stage, ClientSoFar

LEMMA ClientStepKeeps ==
  ASSUME SMain, NEW k \in 1 .. 9, k # 8, at = k, NEW step, NEW options,
         In(args.client, options) = Kept(args.client) \cap ClientGroups[k],
         ClientStep(step, options)
  PROVE  SMain'
<1>1. UNCHANGED <<args, overrides, session, answer, decision>>
  BY DEF ClientStep
<1>2. CASE client' = With(client, args.client, In(args.client, options)) /\ Continue
  <2>1. /\ overrides' = IF k < 8 THEN {} ELSE Targets
        /\ \A e \in overrides' : FamilyAllows(FamilyOf(args.client), e.to)
    BY <1>1, Making DEF SMain, TargetsSoFar
  <2> QED  BY <1>1, <1>2, <2>1, ClientGoesOn
<1>3. CASE \E o \in Spoilt(args.client, options) : ContinueOrElse("client", Fate(args.client[o]))
  <2>1. PICK o \in Spoilt(args.client, options) : ContinueOrElse("client", Fate(args.client[o]))
    BY <1>3
  <2>2. /\ Fate(args.client[o]) \in {"raised", "panicked"}
        /\ Fate(args.client[o]) = "panicked" => VastIn(args.client)
    BY FateFacts, SpoiltFacts DEF VastIn
  <2> QED  BY <1>1, <2>1, <2>2, ClientFails
<1> QED  BY <1>2, <1>3 DEF ClientStep

\* The session's steps.
LEMMA SessionStepKeeps ==
  ASSUME SMain, NEW k \in 1 .. 4, at = k + 10, NEW step, NEW options,
         In(args.session, options) = Kept(args.session) \cap SessionGroups[k],
         SessionStep(step, options)
  PROVE  SMain'
<1>1. UNCHANGED <<args, client, overrides, answer, decision>>
  BY DEF SessionStep
<1>2. result.client = "made" /\ result.session = "making"
  BY Making
<1>3. CASE session' = With(session, args.session, In(args.session, options)) /\ Continue
  <2>1. at' = k + 11 /\ result' = result
    BY <1>3 DEF Continue
  <2>2. session' = Part(args'.session, SessionBefore(at'))
    <3>1. session = Part(args.session, SessionBefore(k + 10))
      BY <1>2 DEF SMain, SessionSoFar
    <3>2. session' = Part(args.session, SessionBefore(k + 10) \cup SessionGroups[k])
      BY <1>3, <3>1 DEF With, Part
    <3>3. args' = args /\ SessionBefore(at') = SessionBefore(k + 10) \cup SessionGroups[k]
      BY <1>1, <2>1, BeforeNext
    <3> QED  BY <3>2, <3>3
  <2>3. ClientBefore(at') = ClientBefore(at)
    BY <2>1, BeforeNext
  <2>4. ClientSoFar' /\ TargetsSoFar'
    BY <1>1, <1>2, <2>1, <2>3 DEF SMain, ClientSoFar, TargetsSoFar, Targets
  <2>5. SessionSoFar' /\ PanicIsVast'
    BY <1>1, <1>2, <2>1, <2>2 DEF SMain, SessionSoFar, PanicIsVast, VastIn
  <2> QED  BY <1>1, <1>2, <2>1, <2>4, <2>5 DEF SMain, Stage
<1>4. CASE \E o \in Spoilt(args.session, options) : ContinueOrElse("session", Fate(args.session[o]))
  <2>1. PICK o \in Spoilt(args.session, options) : ContinueOrElse("session", Fate(args.session[o]))
    BY <1>4
  <2>2. /\ Fate(args.session[o]) \in {"raised", "panicked"}
        /\ Fate(args.session[o]) = "panicked" => VastIn(args.session)
    BY FateFacts, SpoiltFacts DEF VastIn
  <2>3. /\ at' = 16 /\ result' \in [client : Outcomes, session : Outcomes]
        /\ result'.client = "made" /\ result'.session = Fate(args.session[o])
    BY <1>2, <2>1, <2>2, StepNumbers DEF ContinueOrElse, SMain, Outcomes
  <2>4. ClientBefore(at') = ClientBefore(at)
    BY <2>3, BeforeNext
  <2>5. ClientSoFar' /\ TargetsSoFar'
    BY <1>1, <1>2, <2>3, <2>4 DEF SMain, ClientSoFar, TargetsSoFar, Targets
  <2>6. SessionSoFar' /\ PanicIsVast'
    BY <1>1, <1>2, <2>2, <2>3 DEF SMain, SessionSoFar, PanicIsVast, VastIn
  <2> QED  BY <1>1, <2>3, <2>5, <2>6 DEF SMain, Stage
<1> QED  BY <1>3, <1>4 DEF SessionStep

--------------------------------------------------------------------------------
(* ClientSetup: its steps *)

\* Where a step has no option that is ineffective, all that is given counts.
LEMMA AllCount ==
  ASSUME SMain
  PROVE  /\ \A options : Window \notin ToSet(options) /\ ToSet(options) \cap Ranked = {} =>
              In(args.client, options) = Kept(args.client) \cap ToSet(options)
         /\ \A options : "max_redirects" \notin ToSet(options) /\ ToSet(options) \cap Ranked = {} =>
              In(args.session, options) = Kept(args.session) \cap ToSet(options)
BY KnownOptions, KeptOptions DEF In

LEMMA ToSetOfSmall ==
  /\ \A a : ToSet(<<a>>) = {a}
  /\ \A a, b, c : ToSet(<<a, b, c>>) = {a, b, c}
  /\ ToSet(<<>>) = {}
BY DEF ToSet

LEMMA ConvertKeeps == SMain /\ Convert => SMain'
<1> SUFFICES ASSUME SMain, Convert PROVE SMain'
  OBVIOUS
<1>1. at = 1
  BY StepIsAt DEF SMain, Convert, ClientStep
<1>2. In(args.client, Converted) = Kept(args.client) \cap ClientGroups[1]
  BY AllCount, NamesApart, RankedApart, GroupOf
<1> QED  BY <1>1, <1>2, ClientStepKeeps DEF Convert

LEMMA TimeoutConfigKeeps == SMain /\ TimeoutConfig => SMain'
<1> SUFFICES ASSUME SMain, TimeoutConfig PROVE SMain'
  OBVIOUS
<1>1. at = 2
  BY StepIsAt DEF SMain, TimeoutConfig, ClientStep
<1> DEFINE options == IF TimeoutsGiven THEN Timeouts ELSE <<>>
<1>2. In(args.client, options) = Kept(args.client) \cap ClientGroups[2]
  <2>1. In(args.client, Timeouts) = Kept(args.client) \cap ClientGroups[2]
    BY AllCount, NamesApart, RankedApart, GroupOf
  <2>2. CASE TimeoutsGiven
    BY <2>1, <2>2
  <2>3. CASE ~TimeoutsGiven
    <3>1. In(args.client, Timeouts) = {}
      BY <2>3 DEF TimeoutsGiven, Given
    <3>2. In(args.client, <<>>) = {}
      BY ToSetOfSmall DEF In
    <3> QED  BY <2>1, <2>3, <3>1, <3>2
  <2> QED  BY <2>2, <2>3
<1>3. ClientStep("timeouts", options)
  BY DEF TimeoutConfig
<1> HIDE DEF options
<1> QED  BY <1>1, <1>2, <1>3, ClientStepKeeps

LEMMA TupleIsSeq ==
  ASSUME NEW S, NEW T, S \subseteq T, NEW n \in Nat, NEW s \in [1 .. n -> S]
  PROVE  s \in Seq(T)
OBVIOUS

LEMMA ToSetAppend ==
  ASSUME NEW S, NEW s \in Seq(S), NEW e \in S
  PROVE  ToSet(Append(s, e)) = ToSet(s) \cup {e}
<1>1. DOMAIN Append(s, e) = DOMAIN s \cup {Len(s) + 1} /\ Append(s, e)[Len(s) + 1] = e
  OBVIOUS
<1>2. \A i \in DOMAIN s : Append(s, e)[i] = s[i]
  OBVIOUS
<1> QED  BY <1>1, <1>2 DEF ToSet

LEMMA WindowAppended == ToSet(Append(Limits, Window)) = ToSet(Limits) \cup {Window}
<1>1. Len(Limits) = 6 /\ Limits \in [1 .. 6 -> ToSet(Limits)]
  BY DEF Limits, ToSet
<1>2. Limits \in Seq(ToSet(Limits) \cup {Window})
  <2>1. ToSet(Limits) \subseteq ToSet(Limits) \cup {Window} /\ 6 \in Nat
    OBVIOUS
  <2> QED  BY <1>1, <2>1, TupleIsSeq
<1> QED  BY <1>2, ToSetAppend

\* A window counts if there is a rate.
LEMMA ResourceLimitsKeeps == SMain /\ ResourceLimits => SMain'
<1> SUFFICES ASSUME SMain, ResourceLimits PROVE SMain'
  OBVIOUS
<1>1. at = 3
  BY StepIsAt DEF SMain, ResourceLimits, ClientStep
<1> DEFINE fields  == IF Given(<<"min_transfer_rate">>) THEN Append(Limits, Window) ELSE Limits
           options == IF LimitsGiven THEN fields ELSE <<>>
<1>2. In(args.client, options) = Kept(args.client) \cap ClientGroups[3]
  <2>1. Given(<<"min_transfer_rate">>) <=> "min_transfer_rate" \in DOMAIN args.client
    BY ToSetOfSmall DEF Given, In
  <2>2. "min_transfer_rate" \in ToSet(Limits)
    BY DEF ToSet, Limits
  <2>3. CASE "min_transfer_rate" \in DOMAIN args.client
    <3>1. ToSet(options) = ToSet(Limits) \cup {Window}
      BY <2>1, <2>2, <2>3, WindowAppended DEF LimitsGiven, Given, In
    <3> QED  BY <2>3, <3>1, KnownOptions, KeptOptions, RankedApart, GroupOf DEF In
  <2>4. CASE "min_transfer_rate" \notin DOMAIN args.client /\ LimitsGiven
    <3>1. ToSet(options) = ToSet(Limits)
      BY <2>1, <2>4
    <3>2. In(args.client, options) = ToSet(Limits) \cap DOMAIN args.client
      BY <3>1 DEF In
    <3> QED  BY <2>4, <3>2, KnownOptions, KeptOptions, RankedApart, GroupOf, NamesApart
  <2>5. CASE "min_transfer_rate" \notin DOMAIN args.client /\ ~LimitsGiven
    <3>1. In(args.client, options) = {}
      BY <2>5, ToSetOfSmall DEF In
    <3>2. ToSet(Limits) \cap DOMAIN args.client = {}
      BY <2>5 DEF LimitsGiven, Given, In
    <3> QED  BY <2>5, <3>1, <3>2, KnownOptions, KeptOptions, RankedApart, GroupOf
  <2> QED  BY <2>3, <2>4, <2>5
<1>3. ClientStep("limits", options)
  BY DEF ResourceLimits
<1> HIDE DEF options
<1> QED  BY <1>1, <1>2, <1>3, ClientStepKeeps

LEMMA NonZeroCountsKeeps == SMain /\ NonZeroCounts => SMain'
<1> SUFFICES ASSUME SMain, NonZeroCounts PROVE SMain'
  OBVIOUS
<1>1. at = 4
  BY StepIsAt DEF SMain, NonZeroCounts, ClientStep
<1>2. In(args.client, Counts) = Kept(args.client) \cap ClientGroups[4]
  BY AllCount, NamesApart, RankedApart, GroupOf
<1> QED  BY <1>1, <1>2, ClientStepKeeps DEF NonZeroCounts

LEMMA CaCertKeeps == SMain /\ CaCert => SMain'
<1> SUFFICES ASSUME SMain, CaCert PROVE SMain'
  OBVIOUS
<1>1. at = 5
  BY StepIsAt DEF SMain, CaCert, ClientStep
<1>2. In(args.client, <<"ca_cert">>) = Kept(args.client) \cap ClientGroups[5]
  BY AllCount, ToSetOfSmall, GroupOf DEF Window, Ranked
<1> QED  BY <1>1, <1>2, ClientStepKeeps DEF CaCert

LEMMA ResolverKeeps == SMain /\ Resolver => SMain'
<1> SUFFICES ASSUME SMain, Resolver PROVE SMain'
  OBVIOUS
<1> DEFINE options == <<"system_dns_cache_ttl", "system_dns_cache_max_entries", "dns">>
<1>1. at = 6
  BY StepIsAt DEF SMain, Resolver, ClientStep
<1>2. In(args.client, options) = Kept(args.client) \cap ClientGroups[6]
  BY AllCount, ToSetOfSmall, GroupOf DEF Window, Ranked
<1>3. CASE ClientStep("resolver", options)
  BY <1>1, <1>2, <1>3, ClientStepKeeps
<1>4. CASE /\ ContinueOrElse("client", "raised")
           /\ UNCHANGED <<args, client, overrides, session, answer, decision>>
  BY <1>1, <1>4, ClientFails
<1> QED  BY <1>3, <1>4 DEF Resolver

LEMMA ParseIpFamilyKeeps == SMain /\ ParseIpFamily => SMain'
<1> SUFFICES ASSUME SMain, ParseIpFamily PROVE SMain'
  OBVIOUS
<1>1. at = 7
  BY StepIsAt DEF SMain, ParseIpFamily, ClientStep
<1>2. In(args.client, <<"ip_family">>) = Kept(args.client) \cap ClientGroups[7]
  BY AllCount, ToSetOfSmall, GroupOf DEF Window, Ranked
<1> QED  BY <1>1, <1>2, ClientStepKeeps DEF ParseIpFamily

\* No two entries of an accepted dictionary are for one origin: none is lost.
LEMMA TableKeepsAll == \A entries : Distinct(entries) => Table(entries) = entries
<1> SUFFICES ASSUME NEW entries, Distinct(entries) PROVE Table(entries) = entries
  OBVIOUS
<1>1. \A f \in entries : (CHOOSE e \in entries : Origin(e) = Origin(f)) = f
  BY DEF Distinct
<1> HIDE DEF Origin
<1> QED  BY <1>1 DEF Table

LEMMA ConnectToKeeps == SMain /\ ConnectTo => SMain'
<1> SUFFICES ASSUME SMain, ConnectTo PROVE SMain'
  OBVIOUS
<1>1. at = 8
  BY StepIsAt DEF SMain, ConnectTo
<1>2. result.client = "making" /\ result.session = "making"
  BY <1>1, Making
<1>3. client = Part(args.client, ClientBefore(8))
  BY <1>1, <1>2 DEF SMain, ClientSoFar
<1>4. FamilyOf(client) = FamilyOf(args.client)
  <2>1. "ip_family" \in ClientBefore(8)
    BY BeforeNext, GroupOf
  <2>2. "ip_family" \in Kept(args.client) <=> "ip_family" \in DOMAIN args.client
    BY KnownOptions, KeptOptions DEF Window, Ranked
  <2> QED  BY <1>3, <2>1, <2>2 DEF FamilyOf, Part
<1>5. (IF Given(<<"connect_to">>) THEN Dict[args.client.connect_to] ELSE {}) = Targets
  BY ToSetOfSmall DEF Given, In, Targets
<1>6. UNCHANGED <<args, session, file, answer, decision>>
  BY DEF ConnectTo
<1>7. CASE /\ ValidConnectTo(Targets, FamilyOf(client))
           /\ overrides' = Table(Targets)
           /\ client' = With(client, args.client, In(args.client, <<"connect_to">>))
           /\ IF \E e \in Targets : e.port = 0 \/ e.toPort = 0
              THEN ContinueOrElse("client", "panicked") ELSE Continue
  <2>1. overrides' = Targets /\ Continue
    BY <1>7, TableKeepsAll DEF ValidConnectTo
  <2>2. \A e \in overrides' : FamilyAllows(FamilyOf(args.client), e.to)
    BY <1>4, <1>7, <2>1 DEF ValidConnectTo
  <2>3. In(args.client, <<"connect_to">>) = Kept(args.client) \cap ClientGroups[8]
    BY AllCount, ToSetOfSmall, GroupOf DEF Window, Ranked
  <2> QED  BY <1>1, <1>6, <1>7, <2>1, <2>2, <2>3, ClientGoesOn
<1>8. CASE ContinueOrElse("client", "raised")
  BY <1>1, <1>6, <1>8, ClientFails
<1> QED  BY <1>5, <1>7, <1>8 DEF ConnectTo

LEMMA KeylogKeeps == SMain /\ Keylog => SMain'
<1> SUFFICES ASSUME SMain, Keylog PROVE SMain'
  OBVIOUS
<1>1. at = 9
  BY StepIsAt DEF SMain, Keylog, ClientStep
<1>2. In(args.client, <<"keylog">>) = Kept(args.client) \cap ClientGroups[9]
  BY AllCount, ToSetOfSmall, GroupOf DEF Window, Ranked
<1> QED  BY <1>1, <1>2, ClientStepKeeps DEF Keylog

LEMMA BuildKeeps == SMain /\ Build => SMain'
<1> SUFFICES ASSUME SMain, Build PROVE SMain'
  OBVIOUS
<1>1. at = 10
  BY StepIsAt DEF SMain, Build
<1>2. result.client = "making" /\ result.session = "making"
  BY <1>1, Making
<1>3. /\ at' = 11 /\ UNCHANGED <<args, overrides, session, answer, decision>>
      /\ client' = With(client, args.client,
                       In(args.client, Plain) \cup Standing(args.client, OfProtocol))
  BY <1>1 DEF Build
<1>4. /\ result' \in [client : Outcomes, session : Outcomes]
      /\ result'.client = "made" /\ result'.session = "making"
  BY <1>2 DEF Build, SMain, Outcomes
<1>5. client' = Part(args'.client, ClientBefore(at'))
  <2>1. In(args.client, Plain) \cup Standing(args.client, OfProtocol)
          = Kept(args.client) \cap ClientGroups[10]
    <3>1. In(args.client, Plain) = Kept(args.client) \cap ToSet(Plain)
      BY AllCount, NamesApart, RankedApart
    <3>2. Standing(args.client, OfProtocol) = Kept(args.client) \cap ToSet(OfProtocol)
      BY KnownOptions, KeptOptions, StrongestRemain, ProtocolOptions DEF Window
    <3> QED  BY <3>1, <3>2, GroupOf
  <2>2. client = Part(args.client, ClientBefore(10))
    BY <1>1, <1>2 DEF SMain, ClientSoFar
  <2>3. client' = Part(args.client, ClientBefore(10) \cup ClientGroups[10])
    BY <1>3, <2>1, <2>2 DEF With, Part
  <2>4. args' = args /\ ClientBefore(at') = ClientBefore(10) \cup ClientGroups[10]
    BY <1>3, BeforeNext
  <2> QED  BY <2>3, <2>4
<1>6. session' = Part(args'.session, SessionBefore(at'))
  <2>1. session = Part(args.session, {})
    BY <1>2 DEF SMain, SessionSoFar
  <2>2. SessionBefore(at') = {}
    BY <1>3, BeforeNext
  <2> QED  BY <1>3, <2>1, <2>2
<1>7. TargetsSoFar'
  BY <1>1, <1>2, <1>3 DEF SMain, TargetsSoFar, Targets
<1>8. PanicIsVast'
  BY <1>3, <1>4 DEF SMain, PanicIsVast, VastIn
<1> QED
  BY <1>3, <1>4, <1>5, <1>6, <1>7, <1>8 DEF SMain, Stage, ClientSoFar, SessionSoFar

LEMMA ProxyKeeps == SMain /\ Proxy => SMain'
<1> SUFFICES ASSUME SMain, Proxy PROVE SMain'
  OBVIOUS
<1>1. at = 1 + 10
  BY StepIsAt DEF SMain, Proxy, SessionStep
<1>2. In(args.session, <<"proxy">>) = Kept(args.session) \cap SessionGroups[1]
  BY AllCount, ToSetOfSmall, SessionGroupOf DEF Ranked
<1> QED  BY <1>1, <1>2, SessionStepKeeps DEF Proxy

LEMMA RetryKeeps == SMain /\ Retry => SMain'
<1> SUFFICES ASSUME SMain, Retry PROVE SMain'
  OBVIOUS
<1>1. at = 2 + 10
  BY StepIsAt DEF SMain, Retry, SessionStep
<1>2. In(args.session, <<"retry">>) = Kept(args.session) \cap SessionGroups[2]
  BY AllCount, ToSetOfSmall, SessionGroupOf DEF Ranked
<1> QED  BY <1>1, <1>2, SessionStepKeeps DEF Retry

LEMMA IdleTimeoutKeeps == SMain /\ IdleTimeout => SMain'
<1> SUFFICES ASSUME SMain, IdleTimeout PROVE SMain'
  OBVIOUS
<1>1. at = 3 + 10
  BY StepIsAt DEF SMain, IdleTimeout, SessionStep
<1>2. In(args.session, <<"idle_timeout">>) = Kept(args.session) \cap SessionGroups[3]
  BY AllCount, ToSetOfSmall, SessionGroupOf DEF Ranked
<1> QED  BY <1>1, <1>2, SessionStepKeeps DEF IdleTimeout

LEMMA H3RetryModeKeeps == SMain /\ H3RetryMode => SMain'
<1> SUFFICES ASSUME SMain, H3RetryMode PROVE SMain'
  OBVIOUS
<1>1. at = 4 + 10
  BY StepIsAt DEF SMain, H3RetryMode, SessionStep
<1>2. In(args.session, <<"h3_retry_mode">>) = Kept(args.session) \cap SessionGroups[4]
  BY AllCount, ToSetOfSmall, SessionGroupOf DEF Ranked
<1> QED  BY <1>1, <1>2, SessionStepKeeps DEF H3RetryMode

LEMMA ToSetConcat ==
  ASSUME NEW S, NEW s \in Seq(S), NEW t \in Seq(S)
  PROVE  ToSet(s \o t) = ToSet(s) \cup ToSet(t)
<1> DEFINE both == s \o t
<1>1. /\ Len(both) = Len(s) + Len(t) /\ DOMAIN both = 1 .. Len(both)
      /\ \A i \in 1 .. Len(s) : both[i] = s[i]
      /\ \A i \in 1 .. Len(t) : both[Len(s) + i] = t[i]
  OBVIOUS
<1>2. ToSet(both) \subseteq ToSet(s) \cup ToSet(t)
  <2> SUFFICES ASSUME NEW i \in 1 .. Len(both) PROVE both[i] \in ToSet(s) \cup ToSet(t)
    BY <1>1 DEF ToSet
  <2>1. CASE i <= Len(s)
    BY <1>1, <2>1 DEF ToSet
  <2>2. CASE i > Len(s)
    <3>1. i - Len(s) \in 1 .. Len(t) /\ i = Len(s) + (i - Len(s))
      BY <1>1, <2>2
    <3>2. both[i] = t[i - Len(s)]
      BY <1>1, <3>1
    <3> QED  BY <3>1, <3>2 DEF ToSet
  <2> QED  BY <2>1, <2>2
<1>3. ToSet(s) \cup ToSet(t) \subseteq ToSet(both)
  <2>1. \A i \in 1 .. Len(s) : i \in 1 .. Len(both)
    BY <1>1
  <2>2. \A i \in 1 .. Len(t) : Len(s) + i \in 1 .. Len(both)
    BY <1>1
  <2>3. ASSUME NEW i \in 1 .. Len(s) PROVE s[i] \in ToSet(both)
    BY <1>1, <2>1 DEF ToSet
  <2>4. ASSUME NEW i \in 1 .. Len(t) PROVE t[i] \in ToSet(both)
    BY <1>1, <2>2 DEF ToSet
  <2>5. ToSet(s) = {s[i] : i \in 1 .. Len(s)} /\ ToSet(t) = {t[i] : i \in 1 .. Len(t)}
    BY DEF ToSet
  <2> QED  BY <2>3, <2>4, <2>5
<1> QED  BY <1>2, <1>3

\* allow_redirects silences max_redirects.
LEMMA RedirectsCount ==
  ASSUME SMain
  PROVE  In(args.session, Redirects \o OfSession) \cup Standing(args.session, OfSessionProtocol)
           = Kept(args.session) \cap SessionGroups[5]
<1> DEFINE all == ToSet(OfSession) \cup {"allow_redirects", "max_redirects"}
<1>1. Redirects \in Seq(all) /\ OfSession \in Seq(all)
  <2>1. Len(OfSession) = 14 /\ OfSession \in [1 .. 14 -> ToSet(OfSession)]
    BY DEF OfSession, ToSet
  <2>2. OfSession \in Seq(all)
    <3>1. ToSet(OfSession) \subseteq all /\ 14 \in Nat
      OBVIOUS
    <3> HIDE DEF all
    <3> QED  BY <2>1, <3>1, TupleIsSeq
  <2>3. \A o \in all : <<o>> \in Seq(all)
    OBVIOUS
  <2>4. Redirects = <<"allow_redirects">> \/ Redirects = <<"max_redirects">>
    BY DEF Redirects
  <2> QED  BY <2>2, <2>3, <2>4
<1>2. ToSet(Redirects \o OfSession) = ToSet(Redirects) \cup ToSet(OfSession)
  BY <1>1, ToSetConcat
<1>3. ToSet(Redirects) = IF "allow_redirects" \in DOMAIN args.session
                         THEN {"allow_redirects"} ELSE {"max_redirects"}
  BY ToSetOfSmall DEF Redirects
<1>4. /\ Kept(args.session) = {o \in DOMAIN args.session :
                                /\ o = "max_redirects" => "allow_redirects" \notin DOMAIN args.session
                                /\ o \notin Outranked(args.session)}
      /\ Outranked(args.session) \subseteq Ranked
  BY KnownOptions, KeptOptions
<1>5. /\ "max_redirects" \notin ToSet(OfSession) /\ ToSet(OfSession) \cap Ranked = {}
      /\ "max_redirects" \notin Ranked /\ "allow_redirects" \notin Ranked
  BY NamesApart, RankedApart DEF Ranked
<1>6. In(args.session, Redirects \o OfSession)
        = Kept(args.session) \cap (ToSet(OfSession) \cup {"allow_redirects", "max_redirects"})
  BY <1>2, <1>3, <1>4, <1>5 DEF In
<1>7. Standing(args.session, OfSessionProtocol) = Kept(args.session) \cap ToSet(OfSessionProtocol)
  <2>1. ToSet(OfSessionProtocol) \subseteq Ranked
    BY ProtocolOptions
  <2> QED  BY <1>4, <1>5, <2>1, KnownOptions, StrongestRemain
<1> QED  BY <1>6, <1>7, SessionGroupOf

LEMMA OpenSessionKeeps == SMain /\ OpenSession => SMain'
<1> SUFFICES ASSUME SMain, OpenSession PROVE SMain'
  OBVIOUS
<1>1. at = 15
  BY StepIsAt DEF SMain, OpenSession
<1>2. result.client = "made" /\ result.session = "making"
  BY <1>1, Making
<1>3. /\ at' = 16 /\ UNCHANGED <<args, client, overrides, answer, decision>>
      /\ session' = With(session, args.session,
                        In(args.session, Redirects \o OfSession)
                          \cup Standing(args.session, OfSessionProtocol))
  BY <1>1 DEF OpenSession
<1>4. /\ result' \in [client : Outcomes, session : Outcomes]
      /\ result'.client = "made" /\ result'.session = "made"
  BY <1>2 DEF OpenSession, SMain, Outcomes
<1>5. session' = Part(args'.session, SessionBefore(at'))
  <2>1. session = Part(args.session, SessionBefore(15))
    BY <1>1, <1>2 DEF SMain, SessionSoFar
  <2>2. session' = Part(args.session, SessionBefore(15) \cup SessionGroups[5])
    BY <1>3, <2>1, RedirectsCount DEF With, Part
  <2>3. args' = args /\ SessionBefore(at') = SessionBefore(15) \cup SessionGroups[5]
    BY <1>3, BeforeNext
  <2> QED  BY <2>2, <2>3
<1>6. ClientBefore(at') = ClientBefore(at)
  BY <1>1, <1>3, BeforeNext
<1>7. ClientSoFar' /\ TargetsSoFar'
  BY <1>1, <1>2, <1>3, <1>6 DEF SMain, ClientSoFar, TargetsSoFar, Targets
<1>8. SessionSoFar' /\ PanicIsVast'
  BY <1>3, <1>4, <1>5 DEF SMain, SessionSoFar, PanicIsVast, VastIn
<1> QED  BY <1>3, <1>4, <1>7, <1>8 DEF SMain, Stage

LEMMA AskCallableKeeps == SMain /\ AskCallable => SMain'
<1> SUFFICES ASSUME SMain, AskCallable PROVE SMain'
  OBVIOUS
<1>1. UNCHANGED <<args, at, client, overrides, session, result>>
  BY DEF AskCallable
<1>2. decision' = "panicked" => answer' = "vast"
  BY DEF AskCallable, ShouldRetry
<1> QED
  BY <1>1, <1>2 DEF SMain, Stage, ClientSoFar, SessionSoFar, TargetsSoFar, Targets, PanicIsVast, VastIn

LEMMA MainStep == SMain /\ [Next]_vars => SMain'
<1> SUFFICES ASSUME SMain, [Next]_vars PROVE SMain'
  OBVIOUS
<1>1. CASE UNCHANGED vars
  BY <1>1 DEF vars, SMain, Stage, ClientSoFar, SessionSoFar, TargetsSoFar, Targets, PanicIsVast, VastIn
<1> QED
  BY <1>1, ConvertKeeps, TimeoutConfigKeeps, ResourceLimitsKeeps, NonZeroCountsKeeps, CaCertKeeps,
     ResolverKeeps, ParseIpFamilyKeeps, ConnectToKeeps, KeylogKeeps, BuildKeeps, ProxyKeeps,
     RetryKeeps, IdleTimeoutKeeps, H3RetryModeKeeps, OpenSessionKeeps, AskCallableKeeps DEF Next

\* The file is opened by the last step that is about an option that can be refused.
LEMMA FileStep == SInv /\ [Next]_vars => FileIsLast'
<1> SUFFICES ASSUME SInv, [Next]_vars PROVE FileIsLast'
  OBVIOUS
<1> USE DEF SInv
<1>1. CASE Keylog
  <2>1. at = 9
    BY <1>1, StepIsAt DEF SMain, Keylog, ClientStep
  <2>2. "keylog" \notin DOMAIN client
    <3>1. client = Part(args.client, ClientBefore(9))
      BY <2>1, Making DEF SMain, ClientSoFar
    <3>2. "keylog" \notin ClientBefore(9)
      BY BeforeNext, GroupOf, NamesApart DEF Window
    <3> QED  BY <3>1, <3>2 DEF Part
  <2>3. ~file
    BY <2>1 DEF FileIsLast
  <2>4. file' => at' = 10 /\ result' = result
    <3>1. CASE client' = client
      BY <1>1, <2>2, <2>3, <3>1 DEF Keylog
    <3>2. CASE Continue
      BY <2>1, <3>2 DEF Continue
    <3> QED  BY <1>1, <3>1, <3>2 DEF Keylog, ClientStep
  <2> QED  BY <2>1, <2>4, Making DEF FileIsLast
<1>2. CASE Build
  <2>1. at = 10 /\ result'.client = "made" /\ at' = 11
    BY <1>2, StepIsAt DEF SMain, Build
  <2> QED  BY <2>1 DEF FileIsLast
<1>3. CASE Proxy \/ Retry \/ IdleTimeout \/ H3RetryMode
  <2>1. at \in 11 .. 14
    BY <1>3, StepIsAt DEF SMain, Proxy, Retry, IdleTimeout, H3RetryMode, SessionStep
  <2>2. file' = file /\ result'.client = "made" /\ at' > 9
    BY <1>3, <2>1, Making, StepNumbers
       DEF SMain, Proxy, Retry, IdleTimeout, H3RetryMode, SessionStep, Continue, ContinueOrElse
  <2> QED  BY <2>2 DEF FileIsLast
<1>4. CASE OpenSession
  <2>1. at = 15 /\ result.client = "made"
    BY <1>4, StepIsAt, Making DEF SMain, OpenSession
  <2>2. at' = 16 /\ result'.client = "made"
    BY <1>4, <2>1 DEF OpenSession, SMain
  <2> QED  BY <2>2 DEF FileIsLast
<1>5. CASE \/ Convert \/ TimeoutConfig \/ ResourceLimits \/ NonZeroCounts \/ CaCert \/ Resolver
           \/ ParseIpFamily \/ ConnectTo
  <2>1. at \in 1 .. 8
    BY <1>5, StepIsAt
       DEF SMain, Convert, TimeoutConfig, ResourceLimits, NonZeroCounts, CaCert, Resolver,
           ParseIpFamily, ConnectTo, ClientStep
  <2>2. file' = file
    BY <1>5 DEF Convert, TimeoutConfig, ResourceLimits, NonZeroCounts, CaCert, Resolver,
                ParseIpFamily, ConnectTo
  <2> QED  BY <2>1, <2>2 DEF FileIsLast
<1>6. CASE AskCallable \/ UNCHANGED vars
  BY <1>6 DEF AskCallable, vars, FileIsLast
<1> QED  BY <1>1, <1>2, <1>3, <1>4, <1>5, <1>6 DEF Next

LEMMA SetupAlways == Spec => []SInv
<1>1. SInv /\ [Next]_vars => SInv'
  BY MainStep, FileStep DEF SInv
<1> QED  BY <1>1, SetupStarts, PTL DEF Spec

--------------------------------------------------------------------------------
(* ClientSetup: the theorems. *)

\* A client and a session that are made have all that they were given, except what
\* PassedOver names, and nothing else; connect_to holds entry by entry, in the family
\* that was asked for.  Whichever of the protocol's options share a field.
THEOREM OptionsAreInForce == Spec => []GivenIsInForce
<1>1. SInv => GivenIsInForce
  <2> SUFFICES ASSUME SInv PROVE GivenIsInForce
    OBVIOUS
  <2> USE DEF SInv
  <2>1. ASSUME result.client = "made"
        PROVE  /\ client = Effective(args.client)
               /\ "connect_to" \in DOMAIN args.client => overrides = Dict[args.client.connect_to]
               /\ \A e \in overrides : FamilyAllows(FamilyOf(args.client), e.to)
    <3>1. at \in 11 .. 16
      BY <2>1 DEF SMain, Stage
    <3>2. ClientBefore(at) = ClientOptions
      BY <3>1, BeforeNext, GroupsAreAll
    <3>3. client = Effective(args.client)
      BY <2>1, <3>2, KnownOptions, AllIsEffective DEF SMain, ClientSoFar
    <3> QED  BY <2>1, <3>1, <3>3 DEF SMain, TargetsSoFar, Targets
  <2>2. ASSUME result.session = "made" PROVE session = Effective(args.session)
    <3>1. at = 16 /\ result.client = "made"
      BY <2>2 DEF SMain, Stage
    <3> QED
      BY <2>2, <3>1, GroupsAreAll, KnownOptions, AllIsEffective DEF SMain, SessionSoFar
  <2> QED  BY <2>1, <2>2 DEF GivenIsInForce
<1> QED  BY <1>1, SetupAlways, PTL

\* Whichever option a call of Client(...) falls over, it has opened no key log file.
THEOREM RefusalLeavesNothing == Spec => []RefusedLeavesNoFile
<1>1. SInv => RefusedLeavesNoFile
  BY DEF SInv, FileIsLast, RefusedLeavesNoFile
<1> QED  BY <1>1, SetupAlways, PTL

\* No combination of options, and no answer of a retry callable, fails an assertion
\* of upstream, except by a duration that is too long.
THEOREM PanicsAreOfDurations == Spec => []OnlyVastDurationsPanic
<1>1. SInv => OnlyVastDurationsPanic
  BY DEF SInv, SMain, PanicIsVast, VastIn, OnlyVastDurationsPanic
<1> QED  BY <1>1, SetupAlways, PTL

--------------------------------------------------------------------------------
(* ClientPool *)

\* The turns that are remembered are the last ones of the counter.
TurnsAreLast ==
  strategy = "round_robin" =>
    /\ Len(turns) <= Len(clients) /\ Len(turns) <= index
    /\ \A k \in 1 .. Len(turns) : turns[k] = ((index - Len(turns) + k - 1) % Len(clients)) + 1

PInv ==
  /\ clients \in Seq(Members) /\ clients # <<>>
  /\ index \in 0 .. Width - 1
  /\ turns \in Seq(Nat)
  /\ TurnsAreLast

\* Numbers that are less than n apart have different remainders.
LEMMA RemaindersDiffer ==
  ASSUME NEW n \in Nat \ {0}, NEW a \in Nat, NEW b \in Nat, a < b, b < a + n
  PROVE  a % n # b % n
<1> SUFFICES ASSUME a % n = b % n PROVE FALSE
  OBVIOUS
<1>1. PICK p \in Int : a = n * p + (a % n)
  <2>1. a = n * (a \div n) + (a % n) /\ a \div n \in Int
    OBVIOUS
  <2> QED  BY <2>1
<1>2. PICK q \in Int : b = n * q + (b % n)
  <2>1. b = n * (b \div n) + (b % n) /\ b \div n \in Int
    OBVIOUS
  <2> QED  BY <2>1
<1>3. a % n \in Int /\ n * (q - p) = b - a
  BY <1>1, <1>2
<1>4. q - p > 0
  BY <1>3
<1>5. n * (q - p) >= n
  BY <1>4
<1> QED  BY <1>3, <1>5

LEMMA PoolStarts == Pool!Init => PInv
<1> SUFFICES ASSUME Pool!Init PROVE PInv
  OBVIOUS
<1>1. PICK c \in Members : clients = <<c>>
  BY DEF Pool!Init
<1>2. clients \in Seq(Members) /\ clients # <<>> /\ Len(clients) = 1
  BY <1>1
<1>3. turns = <<>> /\ turns \in Seq(Nat) /\ Len(turns) = 0 /\ index = 0
  BY DEF Pool!Init
<1> QED  BY <1>2, <1>3, WidthAssumption DEF PInv, TurnsAreLast

LEMMA PoolStep == PInv /\ [Pool!Next]_poolVars => PInv'
<1> SUFFICES ASSUME PInv, [Pool!Next]_poolVars PROVE PInv'
  OBVIOUS
<1> USE WidthAssumption DEF PInv
<1> DEFINE n == Len(clients)
<1>0. n \in Nat \ {0} /\ index \in Nat
  OBVIOUS
<1>1. ASSUME Pool!AcquireInTurn PROVE PInv'
  <2> DEFINE next == (index % n) + 1
             longer == Append(turns, next)
  <2>1. /\ strategy = "round_robin" /\ UNCHANGED <<strategy, clients>>
        /\ index' = (index + 1) % Width
        /\ turns' = IF index' < index THEN <<>>
                    ELSE IF Len(longer) > n THEN Tail(longer) ELSE longer
    BY <1>1 DEF Pool!AcquireInTurn, Pool!Remember
  <2>2. next \in Nat
    BY <1>0
  <2>3. /\ longer \in Seq(Nat) /\ Len(longer) = Len(turns) + 1
        /\ longer[Len(turns) + 1] = next
        /\ \A k \in 1 .. Len(turns) : longer[k] = turns[k]
    BY <2>2
  <2> HIDE DEF longer, next
  <2>4. index' \in 0 .. Width - 1
    BY <2>1, <1>0
  <2>5. CASE index' < index
    <3>1. turns' = <<>> /\ turns' \in Seq(Nat) /\ Len(turns') = 0
      BY <2>1, <2>5
    <3> QED  BY <2>1, <2>4, <3>1 DEF TurnsAreLast
  <2>6. CASE ~(index' < index)
    <3>1. index' = index + 1
      <4>1. CASE index = Width - 1
        BY <4>1, <2>1, <2>4, <2>6
      <4>2. CASE index < Width - 1
        BY <4>2, <2>1, <1>0
      <4> QED  BY <4>1, <4>2
    <3>2. \A k \in 1 .. Len(turns) + 1 : longer[k] = ((index - Len(turns) + k - 1) % n) + 1
      <4> SUFFICES ASSUME NEW k \in 1 .. Len(turns) + 1
                   PROVE  longer[k] = ((index - Len(turns) + k - 1) % n) + 1
        OBVIOUS
      <4>1. CASE k = Len(turns) + 1
        <5>1. index - Len(turns) + k - 1 = index
          BY <4>1
        <5> QED  BY <4>1, <5>1, <2>3 DEF next
      <4>2. CASE k \in 1 .. Len(turns)
        BY <4>2, <2>1, <2>3 DEF TurnsAreLast
      <4> QED  BY <4>1, <4>2
    <3>3. CASE Len(longer) > n
      <4>1. turns' = Tail(longer)
        BY <2>1, <2>6, <3>3
      <4>2. /\ turns' \in Seq(Nat) /\ Len(turns') = Len(turns)
            /\ \A k \in 1 .. Len(turns) : turns'[k] = longer[k + 1]
        BY <4>1, <2>3
      <4>3. \A k \in 1 .. Len(turns) : turns'[k] = ((index' - Len(turns) + k - 1) % n) + 1
        <5> SUFFICES ASSUME NEW k \in 1 .. Len(turns)
                     PROVE  turns'[k] = ((index' - Len(turns) + k - 1) % n) + 1
          OBVIOUS
        <5>1. index - Len(turns) + (k + 1) - 1 = index' - Len(turns) + k - 1
          BY <3>1
        <5>2. k + 1 \in 1 .. Len(turns) + 1
          OBVIOUS
        <5>3. longer[k + 1] = ((index - Len(turns) + (k + 1) - 1) % n) + 1
          BY <3>2, <5>2
        <5> QED  BY <4>2, <5>1, <5>3
      <4>4. Len(turns) <= n /\ Len(turns) <= index'
        BY <2>1, <3>1 DEF TurnsAreLast
      <4>5. TurnsAreLast'
        BY <2>1, <4>2, <4>3, <4>4 DEF TurnsAreLast
      <4> QED  BY <2>1, <2>4, <4>2, <4>5
    <3>4. CASE ~(Len(longer) > n)
      <4>1. turns' = longer
        BY <2>1, <2>6, <3>4
      <4>2. \A k \in 1 .. Len(turns') : turns'[k] = ((index' - Len(turns') + k - 1) % n) + 1
        <5> SUFFICES ASSUME NEW k \in 1 .. Len(turns) + 1
                     PROVE  turns'[k] = ((index' - Len(turns') + k - 1) % n) + 1
          BY <4>1, <2>3
        <5>1. index - Len(turns) + k - 1 = index' - Len(turns') + k - 1
          BY <3>1, <4>1, <2>3
        <5> QED  BY <4>1, <3>2, <5>1
      <4>3. Len(turns') = Len(turns) + 1 /\ turns' \in Seq(Nat)
        BY <2>3, <4>1
      <4>4. Len(turns') <= n /\ Len(turns') <= index'
        <5>1. Len(turns) <= index /\ Len(turns) \in Nat
          BY <2>1 DEF TurnsAreLast
        <5>2. Len(turns') <= index'
          BY <1>0, <3>1, <4>3, <5>1
        <5>3. Len(turns') <= n
          BY <1>0, <2>3, <3>4, <4>1
        <5> QED  BY <2>1, <5>2, <5>3
      <4>5. TurnsAreLast'
        BY <2>1, <4>2, <4>4 DEF TurnsAreLast
      <4> QED  BY <2>1, <2>4, <4>3, <4>5
    <3> QED  BY <3>3, <3>4
  <2> QED  BY <2>5, <2>6
<1>2. ASSUME Pool!AcquireAtRandom PROVE PInv'
  <2>1. /\ strategy = "random" /\ UNCHANGED <<strategy, clients, index>>
        /\ turns' \in {<<i>> : i \in DOMAIN clients}
    BY <1>2 DEF Pool!AcquireAtRandom
  <2>2. turns' \in Seq(Nat)
    <3>1. PICK i \in Nat : turns' = <<i>>
      BY <2>1
    <3> QED  BY <3>1
  <2> QED  BY <2>1, <2>2 DEF TurnsAreLast
<1>3. ASSUME NEW c \in Members, Pool!Add(c) PROVE PInv'
  <2>1. clients' \in Seq(Members) /\ clients' # <<>>
    BY <1>3 DEF Pool!Add
  <2>2. turns' = <<>> /\ turns' \in Seq(Nat) /\ Len(turns') = 0 /\ UNCHANGED <<strategy, index>>
    BY <1>3 DEF Pool!Add
  <2> QED  BY <2>1, <2>2 DEF TurnsAreLast
<1>4. CASE UNCHANGED poolVars
  BY <1>4 DEF poolVars, TurnsAreLast
<1> QED  BY <1>1, <1>2, <1>3, <1>4 DEF Pool!Next

LEMMA PoolAlways == Pool!Spec => []PInv
<1>1. PInv /\ [Pool!Next]_(Pool!vars) => PInv'
  BY PoolStep DEF Pool!vars, poolVars
<1> QED  BY <1>1, PoolStarts, PTL DEF Pool!Spec

\* The last turns, as many as there are clients, are of consecutive numbers, whose
\* remainders differ: the rotation passes nobody over.
THEOREM NobodyIsPassedOver == Pool!Spec => []EveryClientInTurn
<1>1. PInv => EveryClientInTurn
  <2> SUFFICES ASSUME PInv, strategy = "round_robin",
                      NEW i \in DOMAIN turns, NEW j \in DOMAIN turns, i < j
               PROVE  turns[i] # turns[j]
    <3>1. PInv => DOMAIN turns = 1 .. Len(turns)
      BY DEF PInv
    <3>2. \A i, j \in 1 .. Len(turns) : i # j => i < j \/ j < i
      OBVIOUS
    <3> QED  BY <3>1, <3>2 DEF EveryClientInTurn, Pool!EveryClientInTurn
  <2> DEFINE n == Len(clients)
             first == index - Len(turns)
  <2>1. n \in Nat \ {0} /\ first \in Nat /\ Len(turns) <= n /\ i \in 1 .. Len(turns) /\ j \in 1 .. Len(turns)
    BY WidthAssumption DEF PInv, TurnsAreLast
  <2>2. turns[i] = ((first + i - 1) % n) + 1 /\ turns[j] = ((first + j - 1) % n) + 1
    BY <2>1 DEF PInv, TurnsAreLast
  <2> HIDE DEF n, first
  <2>3. (first + i - 1) % n # (first + j - 1) % n
    <3>1. first + i - 1 \in Nat /\ first + j - 1 \in Nat
      BY <2>1
    <3>2. first + i - 1 < first + j - 1 /\ first + j - 1 < first + i - 1 + n
      BY <2>1
    <3> QED  BY <2>1, <3>1, <3>2, RemaindersDiffer
  <2>4. (first + i - 1) % n \in Int /\ (first + j - 1) % n \in Int
    BY <2>1
  <2> QED  BY <2>2, <2>3, <2>4
<1> QED  BY <1>1, PoolAlways, PTL

--------------------------------------------------------------------------------
(* Both. *)

LEMMA PartsStep == [AllNext]_allVars => [Next]_vars /\ [Pool!Next]_(Pool!vars)
<1>1. Setups => Next /\ UNCHANGED poolVars
  BY DEF Setups
<1>2. Pools => Pool!Next /\ UNCHANGED vars
  BY DEF Pools
<1>3. UNCHANGED allVars => UNCHANGED vars /\ UNCHANGED poolVars
  BY DEF allVars
<1>4. UNCHANGED poolVars => UNCHANGED Pool!vars
  BY DEF poolVars, Pool!vars
<1> QED  BY <1>1, <1>2, <1>3, <1>4 DEF AllNext

\* What the run checks for pairs of options and four clients holds for all.
THEOREM ClientsKeepTheirPromises ==
  AllSpec => /\ []GivenIsInForce /\ []RefusedLeavesNoFile /\ []OnlyVastDurationsPanic
             /\ []EveryClientInTurn
<1>1. AllInit => Init /\ Pool!Init
  BY DEF AllInit
<1>2. AllSpec => Spec /\ Pool!Spec
  BY <1>1, PartsStep, PTL DEF AllSpec, Spec, Pool!Spec
<1> QED
  BY <1>2, OptionsAreInForce, RefusalLeavesNothing, PanicsAreOfDurations, NobodyIsPassedOver
================================================================================
