------------------------------- MODULE Config -------------------------------
(***************************************************************************)
(* From the configuration file to the routing state: Load and Decode       *)
(* (config/load.go), Validate (config/validate.go, url.go), backend.Build  *)
(* and NewState.  The loops of Validate are steps over their maps.         *)
(*                                                                         *)
(* Strings are records of what the code looks at.  A name has an identity, *)
(* a length, the kinds of its bytes (a dash or a dot is a dash, a colon or *)
(* a slash a colon) and the kind of the first one; an upstream model may   *)
(* be padded with blanks or newlines; a URL is what url.Parse finds in it, *)
(* with the spelling of host and port kept apart from what they denote.    *)
(***************************************************************************)
EXTENDS Integers, Sequences, FiniteSets

CONSTANTS
  MaxConfigBytes,   \* the limit of types.go
  MaxFileBytes,     \* bound: the size the file on disk grows to
  Documents         \* what the bytes read may say

(* What Decode may fill in: any strings and any integers.                  *)
Name == [id : STRING, len : Nat, first : STRING, bytes : SUBSET STRING]
Host == [id : STRING, upper : BOOLEAN, form : {"name", "ip", "long ip"}]
URL == [scheme : STRING, host : Host, port : [digits : STRING, value : Nat],
        extra : STRING]
BackendConfig ==
  [name : Name, kind : STRING, url : URL, maxInflight : Int, headerMS : Int,
   idleMS : Int, tokenEnv : Name]
RouteConfig ==
  [backend : Name, priority : Int,
   model : [id : STRING, len : Nat, control : BOOLEAN, padding : STRING]]
AliasConfig == [name : Name, routes : Seq(RouteConfig)]
Configuration ==
  [version : Int, tokenEnv : Name,
   listen : [blank : BOOLEAN, split : BOOLEAN, host : BOOLEAN, port : Int],
   backends : Seq(BackendConfig), aliases : Seq(AliasConfig)]

HostsOf(c) == {c.backends[k].url.host : k \in DOMAIN c.backends}

ASSUME LimitAssumption == MaxConfigBytes \in Nat /\ MaxFileBytes \in Nat

(* A host's identity is what it denotes, so it tells an address (whatever  *)
(* net.ParseIP accepts) from a name.                                       *)
ASSUME DocumentAssumption ==
  /\ Documents \subseteq [form : STRING, config : Configuration]
  /\ \A d \in Documents : \A g, h \in HostsOf(d.config) :
       g.id = h.id => (g.form = "name" <=> h.form = "name")

VARIABLES
  step,             \* how far loading is
  size,             \* of the file on disk, which may grow meanwhile
  got,              \* bytes read
  cfg,              \* the decoded configuration
  i, j,             \* the loops over backends or aliases, and over routes
  known, origins, seenAlias, seenRoute,   \* the maps of Validate
  built,            \* the backends of Build
  routing           \* aliases and backends of NewState

fileVars == <<size, got>>
validateVars == <<i, j, known, origins, seenAlias, seenRoute>>
configVars == <<step, fileVars, cfg, validateVars, built, routing>>

Steps == {"stat", "read", "decode", "validate", "backends", "aliases", "routes",
          "build", "state", "ready", "failed", "no_secret"}

-----------------------------------------------------------------------------
(* Reading.                                                                *)

File(s) == step' = s /\ UNCHANGED <<cfg, validateVars, built, routing>>

FileGrows ==
  /\ step \in {"stat", "read"}
  /\ size < MaxFileBytes
  /\ size' = size + 1
  /\ UNCHANGED <<step, got, cfg, validateVars, built, routing>>

(* os.Stat, the first size check and os.Open; either call may fail.        *)
Stat(ok) ==
  /\ step = "stat"
  /\ File(IF ok /\ size <= MaxConfigBytes THEN "read" ELSE "failed")
  /\ UNCHANGED fileVars

(* Mutants of ReadLimit: no byte over the limit is asked for; no limit.    *)
ReadLimitExact == MaxConfigBytes
ReadUnlimited == MaxFileBytes

(* What io.LimitReader lets through.                                       *)
ReadLimit == MaxConfigBytes + 1

(* io.ReadAll reads what there is, up to the limit.                        *)
ReadChunk ==
  /\ step = "read"
  /\ got' \in {n \in got + 1 .. size : n <= ReadLimit}
  /\ UNCHANGED size
  /\ File("read")

(* ReadAll returns: end of file, the limit, or an error.                   *)
ReadEnds(ok) ==
  /\ step = "read"
  /\ ok => got \in {size, ReadLimit}
  /\ File(IF ok /\ got <= MaxConfigBytes THEN "decode" ELSE "failed")
  /\ UNCHANGED fileVars

-----------------------------------------------------------------------------
(* Decoding.                                                               *)

DefaultListen == [blank |-> FALSE, split |-> TRUE, host |-> TRUE, port |-> 8080]
DefaultTimeoutMS == 120 * 1000

NoName == [id |-> "", len |-> 0, first |-> "none", bytes |-> {}]
ZeroConfig == [version |-> 0, listen |-> DefaultListen, tokenEnv |-> NoName,
               backends |-> <<>>, aliases |-> <<>>]

DefaultMS(ms) == IF ms = 0 THEN DefaultTimeoutMS ELSE ms
BackendDefaults(b) ==
  [b EXCEPT !.headerMS = DefaultMS(b.headerMS), !.idleMS = DefaultMS(b.idleMS)]

applyDefaults(c) ==
  [c EXCEPT !.listen = IF c.listen.blank THEN DefaultListen ELSE c.listen,
            !.backends = [k \in DOMAIN c.backends |-> BackendDefaults(c.backends[k])]]

(* Nothing, something that is no configuration, two documents, or one.     *)
Decode(d) ==
  /\ step = "decode"
  /\ got = 0 => d.form = "empty"
  /\ IF d.form = "one"
     THEN step' = "validate" /\ cfg' = applyDefaults(d.config)
     ELSE step' = "failed" /\ UNCHANGED cfg
  /\ UNCHANGED <<fileVars, validateVars, built, routing>>

-----------------------------------------------------------------------------
(* The checks on single values.                                            *)

isBackendNameByte == {"letter", "digit", "underscore", "dash"}
isAliasNameByte == isBackendNameByte \cup {"colon"}
maxBackendNameLen == 64
maxAliasNameLen == 128
maxUpstreamModelLen == 256
MaxMaxInflight == 100 * 1000
MaxPriority == 1000 * 1000
MaxTimeoutMS == 900 * 1000
TimeoutsMS == 1000 .. MaxTimeoutMS   \* for the header and for the idle timeout
MaxPort == 65535
PortNumbers == 1 .. MaxPort

validateName(name, maxLen, allowed) ==
  /\ name.len \in 1 .. maxLen
  /\ name.bytes \subseteq allowed

validateEnvName(name) ==
  name.len > 0 => /\ name.bytes \subseteq {"letter", "digit", "underscore"}
                  /\ name.first # "digit"

validateListen(l) == l.split /\ l.host /\ l.port \in PortNumbers

Written(port) == port.digits # ""

(* url.Parse has lower-cased the scheme.  extra is what stands around the  *)
(* origin: a path, a query, a fragment, credentials, no brackets around an *)
(* IPv6 address, a colon without a port, or nothing that parses at all.    *)
ParseBaseURL(u) ==
  /\ u.scheme \in {"http", "https"}
  /\ u.host.id # ""
  /\ u.extra \in {"none", "slash"}
  /\ Written(u.port) => u.port.value \in PortNumbers

(* strings.ToLower and net.ParseIP(host).String() take the spelling away.  *)
canonicalHost(h) == [id |-> h.id, form |-> IF h.form = "long ip" THEN "ip" ELSE h.form]

(* Mutant of canonicalOriginKey: an omitted port stays omitted.            *)
originAsWritten(u) ==
  [scheme |-> u.scheme, host |-> canonicalHost(u.host),
   port |-> IF Written(u.port) THEN u.port.value ELSE 0]

(* The port as a number; the default port is filled in.                    *)
canonicalOriginKey(u) ==
  [scheme |-> u.scheme, host |-> canonicalHost(u.host),
   port |-> IF Written(u.port) THEN u.port.value
            ELSE IF u.scheme = "http" THEN 80 ELSE 443]

TrimSpace(model) == [model EXCEPT !.padding = "none"]

(* Mutant of BackendFields: only the upper limit of max_inflight.          *)
BackendFieldsNoMinimum(b) ==
  /\ validateName(b.name, maxBackendNameLen, isBackendNameByte)
  /\ b.kind \in {"ollama", "llama_cpp", "vllm"}
  /\ ParseBaseURL(b.url)
  /\ b.maxInflight <= MaxMaxInflight
  /\ b.headerMS \in TimeoutsMS
  /\ b.idleMS \in TimeoutsMS
  /\ validateEnvName(b.tokenEnv)

(* What Validate asks of an entry apart from the other entries.            *)
BackendFields(b) ==
  /\ validateName(b.name, maxBackendNameLen, isBackendNameByte)
  /\ b.kind \in {"ollama", "llama_cpp", "vllm"}
  /\ ParseBaseURL(b.url)
  /\ b.maxInflight \in 1 .. MaxMaxInflight
  /\ b.headerMS \in TimeoutsMS
  /\ b.idleMS \in TimeoutsMS
  /\ validateEnvName(b.tokenEnv)

RouteFields(r) ==
  LET model == TrimSpace(r.model) IN
  /\ model.len \in 1 .. maxUpstreamModelLen
  /\ ~model.control
  /\ r.priority \in 0 .. MaxPriority

-----------------------------------------------------------------------------
(* Validate.  Its maps are locals: what a rejected entry has put into them *)
(* is not read again.                                                      *)

Check(ok, s) ==
  /\ step' = IF ok THEN s ELSE "failed"
  /\ UNCHANGED <<fileVars, cfg, built, routing>>

ValidateHeader ==
  /\ step = "validate"
  /\ Check(/\ cfg.version = 1
           /\ validateListen(cfg.listen)
           /\ validateEnvName(cfg.tokenEnv)
           /\ cfg.backends # <<>>, "backends")
  /\ i' = 1
  /\ UNCHANGED <<j, known, origins, seenAlias, seenRoute>>

ValidateBackend ==
  LET b == cfg.backends[i] IN
  /\ step = "backends"
  /\ i <= Len(cfg.backends)
  /\ Check(/\ BackendFields(b)
           /\ b.name \notin known
           /\ canonicalOriginKey(b.url) \notin origins, "backends")
  /\ known' = known \cup {b.name}
  /\ origins' = origins \cup {canonicalOriginKey(b.url)}
  /\ i' = i + 1
  /\ UNCHANGED <<j, seenAlias, seenRoute>>

ValidateAliases ==
  /\ step = "backends"
  /\ i > Len(cfg.backends)
  /\ Check(cfg.aliases # <<>>, "aliases")
  /\ i' = 1
  /\ UNCHANGED <<j, known, origins, seenAlias, seenRoute>>

ValidateAlias ==
  LET a == cfg.aliases[i] IN
  /\ step = "aliases"
  /\ i <= Len(cfg.aliases)
  /\ Check(/\ validateName(a.name, maxAliasNameLen, isAliasNameByte)
           /\ a.name \notin seenAlias
           /\ a.routes # <<>>, "routes")
  /\ seenAlias' = seenAlias \cup {a.name}
  /\ seenRoute' = {}
  /\ j' = 1
  /\ UNCHANGED <<i, known, origins>>

ValidateRoute ==
  LET r == cfg.aliases[i].routes[j]
      key == <<r.backend, TrimSpace(r.model)>>
  IN
  /\ step = "routes"
  /\ j <= Len(cfg.aliases[i].routes)
  /\ Check(r.backend \in known /\ RouteFields(r) /\ key \notin seenRoute, "routes")
  /\ seenRoute' = seenRoute \cup {key}
  /\ j' = j + 1
  /\ UNCHANGED <<i, known, origins, seenAlias>>

NextAlias ==
  /\ step = "routes"
  /\ j > Len(cfg.aliases[i].routes)
  /\ Check(TRUE, "aliases")
  /\ i' = i + 1
  /\ UNCHANGED <<j, known, origins, seenAlias, seenRoute>>

Validated ==
  /\ step = "aliases"
  /\ i > Len(cfg.aliases)
  /\ Check(TRUE, "build")
  /\ UNCHANGED validateVars

-----------------------------------------------------------------------------
(* serve: the secrets of the environment, Build, then NewState.  env holds *)
(* the variables that are set to something.                                *)

InboundTokenSet(env) == cfg.tokenEnv.len > 0 => cfg.tokenEnv \in env

Build(env) ==
  LET b == cfg.backends IN
  /\ step = "build"
  /\ IF /\ InboundTokenSet(env)
        /\ \A k \in DOMAIN b : /\ ParseBaseURL(b[k].url)
                               /\ b[k].tokenEnv.len > 0 => b[k].tokenEnv \in env
     THEN /\ step' = "state"
          /\ built' = [k \in DOMAIN b |->
                         [name |-> b[k].name, maxInflight |-> b[k].maxInflight,
                          headerMS |-> b[k].headerMS, idleMS |-> b[k].idleMS,
                          credential |-> b[k].tokenEnv]]
     ELSE step' = "no_secret" /\ UNCHANGED built
  /\ UNCHANGED <<fileVars, cfg, validateVars, routing>>

(* The last entry of a name wins in a map.                                 *)
LastOf(s, name) == CHOOSE k \in DOMAIN s :
                     s[k].name = name /\ \A l \in k + 1 .. Len(s) : s[l].name # name
Names(s) == {s[k].name : k \in DOMAIN s}

NewState ==
  /\ step = "state"
  /\ IF \A a \in DOMAIN cfg.aliases :
          \A k \in DOMAIN cfg.aliases[a].routes :
             cfg.aliases[a].routes[k].backend \in Names(built)
     THEN /\ step' = "ready"
          /\ routing' =
               [backends |-> [n \in Names(built) |-> built[LastOf(built, n)]],
                aliases |-> [n \in Names(cfg.aliases) |->
                               cfg.aliases[LastOf(cfg.aliases, n)].routes]]
     ELSE step' = "failed" /\ UNCHANGED routing
  /\ UNCHANGED <<fileVars, cfg, validateVars, built>>

-----------------------------------------------------------------------------
ConfigInit ==
  /\ step = "stat"
  /\ size \in 0 .. MaxFileBytes
  /\ got = 0
  /\ cfg = ZeroConfig
  /\ i = 0 /\ j = 0
  /\ known = {} /\ origins = {} /\ seenAlias = {} /\ seenRoute = {}
  /\ built = <<>>
  /\ routing = [backends |-> <<>>, aliases |-> <<>>]

SecretNames == {cfg.tokenEnv} \cup {cfg.backends[k].tokenEnv : k \in DOMAIN cfg.backends}

ConfigNext ==
  \/ FileGrows
  \/ ReadChunk
  \/ \E ok \in BOOLEAN : Stat(ok) \/ ReadEnds(ok)
  \/ \E d \in Documents : Decode(d)
  \/ ValidateHeader
  \/ ValidateBackend
  \/ ValidateAliases
  \/ ValidateAlias
  \/ ValidateRoute
  \/ NextAlias
  \/ Validated
  \/ \E env \in SUBSET SecretNames : Build(env)
  \/ NewState

ConfigSpec == ConfigInit /\ [][ConfigNext]_configVars

-----------------------------------------------------------------------------
(* load.go 49-55: the file may grow between Stat and the last Read.  What  *)
(* is decoded is the whole file as it was when its end was read, and is    *)
(* within the limit; never a file cut off at the limit.                    *)
WholeFileDecoded ==
  [][step = "read" /\ step' = "decode" => got = size /\ got <= MaxConfigBytes]_configVars

(* Two URLs name one origin: scheme, host and port, however spelled.       *)
EffectivePort(u) == IF Written(u.port) THEN u.port.value
                    ELSE [http |-> 80, https |-> 443][u.scheme]
SameOrigin(u, v) ==
  u.scheme = v.scheme /\ u.host.id = v.host.id /\ EffectivePort(u) = EffectivePort(v)

(* The documented form of single values (README.md 138-152, the limits of  *)
(* validate.go 10-26), stated apart from the checks above.                 *)
Between(n, least, most) == n \in Int /\ least <= n /\ n <= most
GoodPort(p) == Between(p, 1, 65535)
GoodInflight(n) == Between(n, 1, 100000)
GoodTimeout(ms) == Between(ms, 1000, 900000)
GoodPriority(p) == Between(p, 0, 1000000)
GoodName(n, longest, punctuation) ==
  Between(n.len, 1, longest) /\ n.bytes \subseteq {"letter", "digit"} \cup punctuation
GoodEnvName(n) ==
  \/ ~(n.len > 0)
  \/ n.first # "digit" /\ n.bytes \subseteq {"letter", "digit", "underscore"}
GoodListen(l) == l.split /\ l.host /\ GoodPort(l.port)
GoodURL(u) ==
  /\ u.scheme = "http" \/ u.scheme = "https"
  /\ u.host.id # ""
  /\ u.port.digits = "" \/ GoodPort(u.port.value)
  /\ u.extra = "none" \/ u.extra = "slash"
GoodBackend(b) ==
  /\ GoodName(b.name, 64, {"underscore", "dash"})
  /\ b.kind = "ollama" \/ b.kind = "llama_cpp" \/ b.kind = "vllm"
  /\ GoodURL(b.url)
  /\ GoodInflight(b.maxInflight)
  /\ GoodTimeout(b.headerMS) /\ GoodTimeout(b.idleMS)
  /\ GoodEnvName(b.tokenEnv)
GoodRoute(r) ==
  LET model == TrimSpace(r.model) IN
  Between(model.len, 1, 256) /\ ~model.control /\ GoodPriority(r.priority)

(* README.md 138-152, without loops and maps: each entry is well formed,   *)
(* names are unique, no two backends are one origin, routes lead to        *)
(* declared backends and no alias has a route twice.                       *)
Valid(c) ==
  /\ c.version = 1 /\ GoodListen(c.listen) /\ GoodEnvName(c.tokenEnv)
  /\ c.backends # <<>> /\ c.aliases # <<>>
  /\ \A k \in DOMAIN c.backends : GoodBackend(c.backends[k])
  /\ \A k, l \in DOMAIN c.backends :
       k # l => /\ c.backends[k].name # c.backends[l].name
                /\ ~SameOrigin(c.backends[k].url, c.backends[l].url)
  /\ \A k \in DOMAIN c.aliases :
       /\ GoodName(c.aliases[k].name, 128, {"underscore", "dash", "colon"})
       /\ c.aliases[k].routes # <<>>
       /\ \A l \in DOMAIN c.aliases : k # l => c.aliases[k].name # c.aliases[l].name
       /\ \A m, n \in DOMAIN c.aliases[k].routes :
            LET r == c.aliases[k].routes[m]
                q == c.aliases[k].routes[n]
            IN  /\ r.backend \in Names(c.backends)
                /\ GoodRoute(r)
                /\ m # n => r.backend # q.backend \/ TrimSpace(r.model) # TrimSpace(q.model)

(* validate.go, url.go 58, ARCHITECTURE.md 54: the loops accept exactly    *)
(* the valid configurations: each limit is where it is documented, two     *)
(* spellings of one origin never pass as two backends, and the maps reject *)
(* nothing else.                                                           *)
ValidatesExactly ==
  /\ step \in {"build", "state", "ready", "no_secret"} => Valid(cfg)
  /\ step = "failed" => ~Valid(cfg)

(* state.go 56-91: an accepted configuration becomes the routing state it  *)
(* describes, which is what RoutingState's ConfigAssumption asks for: each *)
(* entry is found under its name, none replaces another in the maps, every *)
(* route leads to a backend with room for a request, and no timeout is     *)
(* switched off.                                                           *)
StateAsConfigured ==
  step = "ready" =>
    /\ Cardinality(DOMAIN routing.backends) = Len(cfg.backends)
    /\ Cardinality(DOMAIN routing.aliases) = Len(cfg.aliases)
    /\ \A k \in DOMAIN cfg.backends :
         LET c == cfg.backends[k]
             b == routing.backends[c.name]
         IN  /\ b.maxInflight = c.maxInflight /\ b.credential = c.tokenEnv
             /\ b.headerMS = c.headerMS /\ b.idleMS = c.idleMS
    /\ \A k \in DOMAIN cfg.aliases :
         routing.aliases[cfg.aliases[k].name] = cfg.aliases[k].routes
    /\ \A n \in DOMAIN routing.backends :
         LET b == routing.backends[n] IN
         b.maxInflight > 0 /\ b.headerMS > 0 /\ b.idleMS > 0
    /\ \A n \in DOMAIN routing.aliases : \A k \in DOMAIN routing.aliases[n] :
         /\ routing.aliases[n][k].backend \in DOMAIN routing.backends
         /\ routing.aliases[n][k].priority >= 0

(* The type invariant: how far loading is, and the bounds of its counters. *)
ConfigTypeOK ==
  /\ step \in Steps
  /\ size \in 0 .. MaxFileBytes
  /\ got \in 0 .. MaxConfigBytes + 1
  /\ i \in 0 .. Len(cfg.backends) + Len(cfg.aliases) + 1
  /\ known \subseteq Names(cfg.backends)
  /\ seenAlias \subseteq Names(cfg.aliases)
=============================================================================
