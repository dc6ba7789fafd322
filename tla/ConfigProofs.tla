----------------------------- MODULE ConfigProofs ---------------------------
(***************************************************************************)
(* Theorems about Config: for files of any length, Validate accepts        *)
(* exactly the valid configurations, and NewState turns each of them into  *)
(* the routing state it describes.                                         *)
(***************************************************************************)
EXTENDS Config, FiniteSetTheorems, TLAPS

-----------------------------------------------------------------------------
(* What a decoded configuration is.                                        *)

HostsAgree(c) ==
  \A g, h \in HostsOf(c) : g.id = h.id => (g.form = "name" <=> h.form = "name")

Decoded(c) ==
  /\ c.backends \in Seq(BackendConfig)
  /\ c.aliases \in Seq(AliasConfig)
  /\ HostsAgree(c)

LEMMA ZeroDecoded == Decoded(ZeroConfig) /\ ~Valid(ZeroConfig)
  <1>1. /\ ZeroConfig.version = 0
        /\ ZeroConfig.backends = <<>> /\ ZeroConfig.aliases = <<>>
    BY DEF ZeroConfig
  <1> QED
    BY <1>1 DEF Decoded, HostsAgree, HostsOf, Valid

LEMMA DefaultsOfBackend ==
  ASSUME NEW b \in BackendConfig
  PROVE  BackendDefaults(b) \in BackendConfig /\ BackendDefaults(b).url = b.url
  <1> DEFINE h == DefaultMS(b.headerMS)
             l == DefaultMS(b.idleMS)
  <1>1. h \in Int /\ l \in Int
    BY DEF BackendConfig, DefaultMS, DefaultTimeoutMS
  <1>2. BackendDefaults(b) = [b EXCEPT !.headerMS = h, !.idleMS = l]
    BY DEF BackendDefaults
  <1> HIDE DEF h, l
  <1> QED
    BY <1>1, <1>2 DEF BackendConfig

LEMMA DefaultsDecoded ==
  ASSUME NEW c \in Configuration, HostsAgree(c)
  PROVE  Decoded(applyDefaults(c))
  <1> DEFINE B == c.backends
             D == [k \in DOMAIN B |-> BackendDefaults(B[k])]
  <1>1. B \in Seq(BackendConfig) /\ c.aliases \in Seq(AliasConfig)
    BY DEF Configuration
  <1>2. applyDefaults(c).backends = D /\ applyDefaults(c).aliases = c.aliases
    BY DEF applyDefaults, Configuration
  <1>3. \A k \in DOMAIN B : B[k] \in BackendConfig
    BY <1>1
  <1>4. D \in Seq(BackendConfig)
    BY <1>1, <1>3, DefaultsOfBackend
  <1>5. HostsOf(applyDefaults(c)) = HostsOf(c)
    <2>1. \A k \in DOMAIN B : D[k].url = B[k].url
      BY <1>3, DefaultsOfBackend
    <2>2. HostsOf(applyDefaults(c)) = {D[k].url.host : k \in DOMAIN B}
      BY <1>2, Zenon DEF HostsOf
    <2> HIDE DEF D
    <2> QED
      BY <2>1, <2>2, Zenon DEF HostsOf
  <1> QED
    BY <1>1, <1>2, <1>4, <1>5 DEF Decoded, HostsAgree

LEMMA DocumentDecoded ==
  ASSUME NEW d \in Documents
  PROVE  Decoded(applyDefaults(d.config))
  <1>1. d.config \in Configuration /\ HostsAgree(d.config)
    BY DocumentAssumption DEF DocumentAssumption, HostsAgree
  <1> QED
    BY <1>1, DefaultsDecoded

-----------------------------------------------------------------------------
(* url.go 58-84: keys are equal exactly for two spellings of one origin.   *)
LEMMA KeyIsOrigin ==
  ASSUME NEW u \in URL, NEW v \in URL, ParseBaseURL(u), ParseBaseURL(v),
         u.host.id = v.host.id => (u.host.form = "name" <=> v.host.form = "name")
  PROVE  canonicalOriginKey(u) = canonicalOriginKey(v) <=> SameOrigin(u, v)
  <1> DEFINE H(w) == canonicalHost(w.host)
             P(w) == IF Written(w.port) THEN w.port.value
                     ELSE IF w.scheme = "http" THEN 80 ELSE 443
  <1>1. u.host \in Host /\ v.host \in Host
    BY DEF URL
  <1>2. u.scheme \in {"http", "https"} /\ v.scheme \in {"http", "https"}
    BY DEF ParseBaseURL
  <1>3. P(u) = EffectivePort(u) /\ P(v) = EffectivePort(v)
    BY <1>2 DEF EffectivePort
  <1>4. H(u) = H(v) <=> u.host.id = v.host.id
    BY <1>1 DEF canonicalHost, Host
  <1>5. canonicalOriginKey(u) = [scheme |-> u.scheme, host |-> H(u), port |-> P(u)]
        /\ canonicalOriginKey(v) = [scheme |-> v.scheme, host |-> H(v), port |-> P(v)]
    BY DEF canonicalOriginKey
  <1> HIDE DEF H, P
  <1>6. canonicalOriginKey(u) = canonicalOriginKey(v) <=>
          u.scheme = v.scheme /\ H(u) = H(v) /\ P(u) = P(v)
    BY <1>5
  <1> QED
    BY <1>3, <1>4, <1>6 DEF SameOrigin

-----------------------------------------------------------------------------
(* The loops: what the entries before the current one are known to be, and *)
(* what the maps hold.                                                     *)

HeaderValid(c) ==
  /\ c.version = 1 /\ validateListen(c.listen) /\ validateEnvName(c.tokenEnv)
  /\ c.backends # <<>>

BackendsValid(c, n) ==
  /\ \A k \in 1 .. n : BackendFields(c.backends[k])
  /\ \A k, l \in 1 .. n :
       k # l => /\ c.backends[k].name # c.backends[l].name
                /\ ~SameOrigin(c.backends[k].url, c.backends[l].url)

NamesTo(s, n) == {s[k].name : k \in 1 .. n}
OriginsTo(c, n) == {canonicalOriginKey(c.backends[k].url) : k \in 1 .. n}

AliasFields(a) ==
  validateName(a.name, maxAliasNameLen, isAliasNameByte) /\ a.routes # <<>>

AliasesValid(c, n) ==
  \A k \in 1 .. n :
    /\ AliasFields(c.aliases[k])
    /\ \A l \in 1 .. n : k # l => c.aliases[k].name # c.aliases[l].name

RouteKey(r) == <<r.backend, TrimSpace(r.model)>>
KeysTo(a, n) == {RouteKey(a.routes[m]) : m \in 1 .. n}

RoutesValid(c, a, n) ==
  \A m \in 1 .. n :
    /\ a.routes[m].backend \in Names(c.backends) /\ RouteFields(a.routes[m])
    /\ \A q \in 1 .. n : m # q => RouteKey(a.routes[m]) # RouteKey(a.routes[q])

AllRoutesValid(c, n) ==
  \A k \in 1 .. n : RoutesValid(c, c.aliases[k], Len(c.aliases[k].routes))

(* The checks of the code ask exactly for the documented form.             *)
LEMMA FieldsAreGood ==
  /\ \A n : GoodEnvName(n) <=> validateEnvName(n)
  /\ \A l : GoodListen(l) <=> validateListen(l)
  /\ \A b : GoodBackend(b) <=> BackendFields(b)
  /\ \A n : GoodName(n, 128, {"underscore", "dash", "colon"}) <=>
             validateName(n, maxAliasNameLen, isAliasNameByte)
  /\ \A r : GoodRoute(r) <=> RouteFields(r)
  <1>1. ASSUME NEW n PROVE GoodEnvName(n) <=> validateEnvName(n)
    BY SMT DEF GoodEnvName, validateEnvName
  <1>2. ASSUME NEW n
        PROVE  /\ GoodPort(n) <=> n \in PortNumbers
               /\ GoodInflight(n) <=> n \in 1 .. MaxMaxInflight
               /\ GoodTimeout(n) <=> n \in TimeoutsMS
               /\ GoodPriority(n) <=> n \in 0 .. MaxPriority
               /\ Between(n, 1, 256) <=> n \in 1 .. maxUpstreamModelLen
    <2>1. /\ MaxPort \in Nat /\ MaxMaxInflight \in Nat /\ MaxTimeoutMS \in Nat
          /\ MaxPriority \in Nat /\ maxUpstreamModelLen \in Nat
      BY SMT DEF MaxPort, MaxMaxInflight, MaxTimeoutMS, MaxPriority, maxUpstreamModelLen
    <2>2. /\ GoodPort(n) <=> Between(n, 1, MaxPort)
          /\ GoodInflight(n) <=> Between(n, 1, MaxMaxInflight)
          /\ GoodTimeout(n) <=> Between(n, 1000, MaxTimeoutMS)
          /\ GoodPriority(n) <=> Between(n, 0, MaxPriority)
          /\ Between(n, 1, 256) <=> Between(n, 1, maxUpstreamModelLen)
      BY SMT DEF GoodPort, GoodInflight, GoodTimeout, GoodPriority, Between,
                 MaxPort, MaxMaxInflight, MaxTimeoutMS, MaxPriority, maxUpstreamModelLen
    <2>3. \A m \in Nat : /\ Between(n, 0, m) <=> n \in 0 .. m
                         /\ Between(n, 1, m) <=> n \in 1 .. m
                         /\ Between(n, 1000, m) <=> n \in 1000 .. m
      BY SMT DEF Between
    <2> QED
      BY <2>1, <2>2, <2>3, SMT DEF PortNumbers, TimeoutsMS
  <1>3. ASSUME NEW l PROVE GoodListen(l) <=> validateListen(l)
    BY <1>2, SMT DEF GoodListen, validateListen
  <1>4. /\ isBackendNameByte = {"letter", "digit"} \cup {"underscore", "dash"}
        /\ isAliasNameByte = {"letter", "digit"} \cup {"underscore", "dash", "colon"}
    BY SMT DEF isBackendNameByte, isAliasNameByte
  <1>5. ASSUME NEW n
        PROVE  GoodName(n, 64, {"underscore", "dash"}) <=>
                 validateName(n, maxBackendNameLen, isBackendNameByte)
    BY <1>4, SMT DEF GoodName, Between, validateName, maxBackendNameLen
  <1>6. ASSUME NEW n
        PROVE  GoodName(n, 128, {"underscore", "dash", "colon"}) <=>
                 validateName(n, maxAliasNameLen, isAliasNameByte)
    BY <1>4, SMT DEF GoodName, Between, validateName, maxAliasNameLen
  <1>7. ASSUME NEW u PROVE GoodURL(u) <=> ParseBaseURL(u)
    BY <1>2, Zenon DEF GoodURL, ParseBaseURL, Written
  <1>8. ASSUME NEW b PROVE GoodBackend(b) <=> BackendFields(b)
    BY <1>1, <1>2, <1>5, <1>7, Zenon DEF GoodBackend, BackendFields
  <1>9. ASSUME NEW r PROVE GoodRoute(r) <=> RouteFields(r)
    BY <1>2, Zenon DEF GoodRoute, RouteFields
  <1> QED
    BY <1>1, <1>3, <1>6, <1>8, <1>9, SMT

(* So Valid can be read with the checks of the code in it.                 *)
ValidByChecks(c) ==
  /\ c.version = 1 /\ validateListen(c.listen) /\ validateEnvName(c.tokenEnv)
  /\ c.backends # <<>> /\ c.aliases # <<>>
  /\ \A k \in DOMAIN c.backends : BackendFields(c.backends[k])
  /\ \A k, l \in DOMAIN c.backends :
       k # l => /\ c.backends[k].name # c.backends[l].name
                /\ ~SameOrigin(c.backends[k].url, c.backends[l].url)
  /\ \A k \in DOMAIN c.aliases :
       /\ AliasFields(c.aliases[k])
       /\ \A l \in DOMAIN c.aliases : k # l => c.aliases[k].name # c.aliases[l].name
       /\ \A m, n \in DOMAIN c.aliases[k].routes :
            LET r == c.aliases[k].routes[m]
                q == c.aliases[k].routes[n]
            IN  /\ r.backend \in Names(c.backends)
                /\ RouteFields(r)
                /\ m # n => r.backend # q.backend \/ TrimSpace(r.model) # TrimSpace(q.model)

LEMMA ValidIsByChecks == \A c : Valid(c) <=> ValidByChecks(c)
  BY FieldsAreGood DEF Valid, ValidByChecks, AliasFields

(* The loops have accepted everything: that is what Valid says.            *)
LEMMA ValidByPrefixes ==
  ASSUME NEW c, Decoded(c)
  PROVE  Valid(c) <=>
           /\ HeaderValid(c) /\ c.aliases # <<>>
           /\ BackendsValid(c, Len(c.backends))
           /\ AliasesValid(c, Len(c.aliases))
           /\ AllRoutesValid(c, Len(c.aliases))
  <1> DEFINE B == c.backends
             A == c.aliases
  <1>1. DOMAIN B = 1 .. Len(B) /\ DOMAIN A = 1 .. Len(A)
    BY DEF Decoded
  <1>2. \A k \in 1 .. Len(A) : DOMAIN A[k].routes = 1 .. Len(A[k].routes)
    BY <1>1 DEF Decoded, AliasConfig
  <1>3. ASSUME NEW r, NEW q
        PROVE  RouteKey(r) # RouteKey(q) <=>
                 r.backend # q.backend \/ TrimSpace(r.model) # TrimSpace(q.model)
    BY DEF RouteKey
  <1>4. ASSUME Valid(c)
        PROVE  /\ HeaderValid(c) /\ A # <<>> /\ BackendsValid(c, Len(B))
               /\ AliasesValid(c, Len(A))
    BY <1>1, <1>4, ValidIsByChecks DEF ValidByChecks, HeaderValid, BackendsValid, AliasesValid, AliasFields
  <1>5. ASSUME Valid(c), NEW k \in 1 .. Len(A)
        PROVE  RoutesValid(c, A[k], Len(A[k].routes))
    <2> DEFINE R == A[k].routes
    <2>1. \A m, n \in DOMAIN R :
            /\ R[m].backend \in Names(B) /\ RouteFields(R[m])
            /\ m # n => \/ R[m].backend # R[n].backend
                        \/ TrimSpace(R[m].model) # TrimSpace(R[n].model)
      BY <1>1, <1>5, ValidIsByChecks DEF ValidByChecks
    <2>2. DOMAIN R = 1 .. Len(R)
      BY <1>2, <1>5
    <2> HIDE DEF A
    <2> QED
      BY <1>3, <2>1, <2>2 DEF RoutesValid
  <1>6. ASSUME HeaderValid(c), A # <<>>, BackendsValid(c, Len(B)),
               AliasesValid(c, Len(A)), AllRoutesValid(c, Len(A))
        PROVE  Valid(c)
    <2>1. /\ c.version = 1 /\ validateListen(c.listen) /\ validateEnvName(c.tokenEnv)
          /\ B # <<>> /\ A # <<>>
      BY <1>6 DEF HeaderValid
    <2>2. /\ \A k \in DOMAIN B : BackendFields(B[k])
          /\ \A k, l \in DOMAIN B :
               k # l => B[k].name # B[l].name /\ ~SameOrigin(B[k].url, B[l].url)
      BY <1>1, <1>6 DEF BackendsValid
    <2>3. \A k \in DOMAIN A :
            /\ AliasFields(A[k])
            /\ \A l \in DOMAIN A : k # l => A[k].name # A[l].name
      BY <1>1, <1>6 DEF AliasesValid
    <2>4. \A k \in DOMAIN A : \A m, n \in DOMAIN A[k].routes :
            LET r == A[k].routes[m]
                q == A[k].routes[n]
            IN  /\ r.backend \in Names(B)
                /\ RouteFields(r)
                /\ m # n => r.backend # q.backend \/ TrimSpace(r.model) # TrimSpace(q.model)
      BY <1>1, <1>2, <1>3, <1>6 DEF AllRoutesValid, RoutesValid
    <2> QED
      BY <2>1, <2>2, <2>3, <2>4, ValidIsByChecks DEF ValidByChecks
  <1> QED
    BY <1>4, <1>5, <1>6 DEF AllRoutesValid

(* One pass of the loop over the backends, with its two maps.              *)
LEMMA BackendStep ==
  ASSUME NEW c, Decoded(c), NEW n \in 1 .. Len(c.backends), BackendsValid(c, n - 1)
  PROVE  LET b == c.backends[n] IN
         (/\ BackendFields(b)
          /\ b.name \notin NamesTo(c.backends, n - 1)
          /\ canonicalOriginKey(b.url) \notin OriginsTo(c, n - 1))
         <=> BackendsValid(c, n)
  <1> DEFINE B == c.backends
             b == B[n]
             U(k) == B[k].url
             Fields == \A k \in 1 .. n : BackendFields(B[k])
  <1>1. n \in Nat \ {0} /\ n <= Len(B) /\ Len(B) \in Nat
    BY DEF Decoded
  <1>2. ASSUME NEW k \in 1 .. n
        PROVE  k \in DOMAIN B /\ U(k) \in URL /\ U(k).host \in HostsOf(c)
    <2>1. k \in DOMAIN B
      BY <1>1 DEF Decoded
    <2>2. B[k] \in BackendConfig
      BY <2>1 DEF Decoded
    <2> QED
      BY <2>1, <2>2 DEF HostsOf, BackendConfig
  <1>3. ASSUME Fields, NEW k \in 1 .. n, NEW l \in 1 .. n
        PROVE  canonicalOriginKey(U(k)) = canonicalOriginKey(U(l)) <=> SameOrigin(U(k), U(l))
    <2>1. ParseBaseURL(U(k)) /\ ParseBaseURL(U(l))
      BY <1>3 DEF BackendFields
    <2>2. U(k).host.id = U(l).host.id =>
            (U(k).host.form = "name" <=> U(l).host.form = "name")
      BY <1>2 DEF Decoded, HostsAgree
    <2> HIDE DEF U
    <2> QED
      BY <1>2, <2>1, <2>2, KeyIsOrigin
  <1>4. Fields <=> BackendFields(b)
    BY <1>1 DEF BackendsValid
  <1>5. BackendsValid(c, n) =>
          /\ BackendFields(b) /\ b.name \notin NamesTo(B, n - 1)
          /\ canonicalOriginKey(b.url) \notin OriginsTo(c, n - 1)
    <2> SUFFICES ASSUME BackendsValid(c, n)
                 PROVE  /\ BackendFields(b) /\ b.name \notin NamesTo(B, n - 1)
                        /\ canonicalOriginKey(b.url) \notin OriginsTo(c, n - 1)
      OBVIOUS
    <2>1. Fields /\ \A k \in 1 .. n - 1 : B[k].name # b.name /\ ~SameOrigin(U(k), U(n))
      BY <1>1 DEF BackendsValid
    <2>2. \A k \in 1 .. n - 1 : canonicalOriginKey(U(k)) # canonicalOriginKey(U(n))
      BY <1>1, <1>3, <2>1
    <2> QED
      BY <1>1, <2>1, <2>2 DEF NamesTo, OriginsTo
  <1>6. ASSUME BackendFields(b), b.name \notin NamesTo(B, n - 1),
               canonicalOriginKey(b.url) \notin OriginsTo(c, n - 1)
        PROVE  BackendsValid(c, n)
    <2>1. \A k \in 1 .. n - 1 :
            B[k].name # b.name /\ canonicalOriginKey(U(k)) # canonicalOriginKey(U(n))
      BY <1>6 DEF NamesTo, OriginsTo
    <2>2. \A k \in 1 .. n - 1 : ~SameOrigin(U(k), U(n)) /\ ~SameOrigin(U(n), U(k))
      BY <1>1, <1>3, <1>4, <1>6, <2>1
    <2>3. \A k \in 1 .. n : k \in 1 .. n - 1 \/ k = n
      BY <1>1
    <2>4. Fields
      BY <1>4, <1>6
    <2>5. ASSUME NEW k \in 1 .. n, NEW l \in 1 .. n, k # l
          PROVE  B[k].name # B[l].name /\ ~SameOrigin(U(k), U(l))
      <3>1. CASE k \in 1 .. n - 1 /\ l \in 1 .. n - 1
        BY <2>5, <3>1 DEF BackendsValid
      <3>2. CASE k = n \/ l = n
        BY <2>1, <2>2, <2>3, <2>5, <3>2
      <3> QED
        BY <2>3, <3>1, <3>2
    <2> QED
      BY <2>4, <2>5 DEF BackendsValid
  <1> QED
    BY <1>5, <1>6

LEMMA AliasStep ==
  ASSUME NEW c, Decoded(c), NEW n \in 1 .. Len(c.aliases), AliasesValid(c, n - 1)
  PROVE  (/\ AliasFields(c.aliases[n])
          /\ c.aliases[n].name \notin NamesTo(c.aliases, n - 1))
         <=> AliasesValid(c, n)
  <1>1. n \in Nat \ {0} /\ \A k \in 1 .. n : k \in 1 .. n - 1 \/ k = n
    BY DEF Decoded
  <1>2. AliasesValid(c, n) => AliasFields(c.aliases[n])
                              /\ c.aliases[n].name \notin NamesTo(c.aliases, n - 1)
    BY <1>1 DEF AliasesValid, NamesTo
  <1>3. ASSUME AliasFields(c.aliases[n]),
               c.aliases[n].name \notin NamesTo(c.aliases, n - 1)
        PROVE  AliasesValid(c, n)
    <2>1. \A k \in 1 .. n - 1 : c.aliases[k].name # c.aliases[n].name
      BY <1>3 DEF NamesTo
    <2> QED
      BY <1>1, <1>3, <2>1 DEF AliasesValid
  <1> QED
    BY <1>2, <1>3

LEMMA RouteStep ==
  ASSUME NEW c, NEW a \in AliasConfig, NEW n \in 1 .. Len(a.routes),
         RoutesValid(c, a, n - 1)
  PROVE  (/\ a.routes[n].backend \in Names(c.backends) /\ RouteFields(a.routes[n])
          /\ RouteKey(a.routes[n]) \notin KeysTo(a, n - 1))
         <=> RoutesValid(c, a, n)
  <1> DEFINE R == a.routes
  <1>1. n \in Nat \ {0} /\ \A k \in 1 .. n : k \in 1 .. n - 1 \/ k = n
    BY DEF AliasConfig
  <1>2. RoutesValid(c, a, n) =>
          /\ R[n].backend \in Names(c.backends) /\ RouteFields(R[n])
          /\ RouteKey(R[n]) \notin KeysTo(a, n - 1)
    BY <1>1 DEF RoutesValid, KeysTo
  <1>3. ASSUME R[n].backend \in Names(c.backends), RouteFields(R[n]),
               RouteKey(R[n]) \notin KeysTo(a, n - 1)
        PROVE  RoutesValid(c, a, n)
    <2>1. \A m \in 1 .. n - 1 : RouteKey(R[m]) # RouteKey(R[n])
      BY <1>3 DEF KeysTo
    <2> QED
      BY <1>1, <1>3, <2>1 DEF RoutesValid
  <1> QED
    BY <1>2, <1>3

(* A loop that rejects an entry rejects nothing that is valid.             *)
LEMMA ValidPrefixes ==
  ASSUME NEW c, Decoded(c), Valid(c)
  PROVE  /\ HeaderValid(c) /\ c.aliases # <<>>
         /\ \A n \in 1 .. Len(c.backends) : BackendsValid(c, n)
         /\ \A n \in 1 .. Len(c.aliases) : AliasesValid(c, n)
         /\ \A n \in 1 .. Len(c.aliases) :
              \A m \in 1 .. Len(c.aliases[n].routes) : RoutesValid(c, c.aliases[n], m)
  <1>1. Len(c.backends) \in Nat /\ Len(c.aliases) \in Nat
        /\ \A k \in 1 .. Len(c.aliases) : Len(c.aliases[k].routes) \in Nat
    BY DEF Decoded, AliasConfig
  <1>2. /\ HeaderValid(c) /\ c.aliases # <<>>
        /\ BackendsValid(c, Len(c.backends))
        /\ AliasesValid(c, Len(c.aliases))
        /\ AllRoutesValid(c, Len(c.aliases))
    BY ValidByPrefixes
  <1>3. \A n \in 1 .. Len(c.backends) : 1 .. n \subseteq 1 .. Len(c.backends)
    BY <1>1
  <1>4. \A n \in 1 .. Len(c.aliases) : 1 .. n \subseteq 1 .. Len(c.aliases)
    BY <1>1
  <1>5. ASSUME NEW n \in 1 .. Len(c.aliases), NEW m \in 1 .. Len(c.aliases[n].routes)
        PROVE  RoutesValid(c, c.aliases[n], m)
    <2>1. 1 .. m \subseteq 1 .. Len(c.aliases[n].routes)
      BY <1>1
    <2>2. RoutesValid(c, c.aliases[n], Len(c.aliases[n].routes))
      BY <1>2 DEF AllRoutesValid
    <2> QED
      BY <2>1, <2>2 DEF RoutesValid
  <1>6. \A n \in 1 .. Len(c.backends) : BackendsValid(c, n)
    BY <1>2, <1>3 DEF BackendsValid
  <1>7. \A n \in 1 .. Len(c.aliases) : AliasesValid(c, n)
    BY <1>2, <1>4 DEF AliasesValid
  <1> QED
    BY <1>2, <1>5, <1>6, <1>7

-----------------------------------------------------------------------------
(* The inductive invariant, by how far loading is.                         *)

(* Before Validate: nothing is decoded yet, and no map has an entry.       *)
Reading ==
  /\ step \in {"stat", "read", "decode"} => cfg = ZeroConfig
  /\ step \in {"stat", "read", "decode", "validate"} =>
       i = 0 /\ known = {} /\ origins = {} /\ seenAlias = {}

InBackends ==
  step = "backends" =>
    /\ HeaderValid(cfg)
    /\ i \in 1 .. Len(cfg.backends) + 1
    /\ BackendsValid(cfg, i - 1)
    /\ known = NamesTo(cfg.backends, i - 1)
    /\ origins = OriginsTo(cfg, i - 1)
    /\ seenAlias = {}

BackendsDone ==
  step \in {"aliases", "routes"} =>
    /\ HeaderValid(cfg)
    /\ cfg.aliases # <<>>
    /\ BackendsValid(cfg, Len(cfg.backends))
    /\ known = Names(cfg.backends)

InAliases ==
  step = "aliases" =>
    /\ i \in 1 .. Len(cfg.aliases) + 1
    /\ AliasesValid(cfg, i - 1)
    /\ AllRoutesValid(cfg, i - 1)
    /\ seenAlias = NamesTo(cfg.aliases, i - 1)

InRoutes ==
  step = "routes" =>
    /\ i \in 1 .. Len(cfg.aliases)
    /\ AliasesValid(cfg, i)
    /\ AllRoutesValid(cfg, i - 1)
    /\ seenAlias = NamesTo(cfg.aliases, i)
    /\ j \in 1 .. Len(cfg.aliases[i].routes) + 1
    /\ RoutesValid(cfg, cfg.aliases[i], j - 1)
    /\ seenRoute = KeysTo(cfg.aliases[i], j - 1)

(* What Build and NewState make of an accepted configuration.              *)
BuiltOf(c) ==
  [k \in DOMAIN c.backends |->
     [name |-> c.backends[k].name, maxInflight |-> c.backends[k].maxInflight,
      headerMS |-> c.backends[k].headerMS, idleMS |-> c.backends[k].idleMS,
      credential |-> c.backends[k].tokenEnv]]
RoutingOf(c, b) ==
  [backends |-> [n \in Names(b) |-> b[LastOf(b, n)]],
   aliases |-> [n \in Names(c.aliases) |-> c.aliases[LastOf(c.aliases, n)].routes]]

Starting ==
  /\ step \in {"state", "ready"} => built = BuiltOf(cfg)
  /\ step = "ready" => routing = RoutingOf(cfg, built)

LoadInv ==
  /\ Decoded(cfg)
  /\ Reading /\ InBackends /\ BackendsDone /\ InAliases /\ InRoutes
  /\ ValidatesExactly
  /\ Starting

LEMMA PrefixGrows ==
  ASSUME NEW n \in Nat \ {0}
  PROVE  /\ \A s : NamesTo(s, n) = NamesTo(s, n - 1) \cup {s[n].name}
         /\ \A c : OriginsTo(c, n) = OriginsTo(c, n - 1)
                                     \cup {canonicalOriginKey(c.backends[n].url)}
         /\ \A a : KeysTo(a, n) = KeysTo(a, n - 1) \cup {RouteKey(a.routes[n])}
  <1>1. 1 .. n = (1 .. n - 1) \cup {n}
    OBVIOUS
  <1> QED
    BY <1>1 DEF NamesTo, OriginsTo, KeysTo

LEMMA PrefixEmpty ==
  /\ \A s : NamesTo(s, 0) = {}
  /\ \A c : OriginsTo(c, 0) = {} /\ BackendsValid(c, 0) /\ AliasesValid(c, 0)
            /\ AllRoutesValid(c, 0)
  /\ \A a : KeysTo(a, 0) = {} /\ \A c : RoutesValid(c, a, 0)
  <1>1. 1 .. 0 = {}
    OBVIOUS
  <1> QED
    BY <1>1 DEF NamesTo, OriginsTo, KeysTo, BackendsValid, AliasesValid, AllRoutesValid,
                RoutesValid

LEMMA LoadInvInit == ConfigInit => LoadInv
  BY ZeroDecoded DEF ConfigInit, LoadInv, Reading, InBackends, BackendsDone, InAliases,
     InRoutes, ValidatesExactly, Starting

(* The steps before Validate.                                              *)
LEMMA ReadingSteps ==
  ASSUME LoadInv,
         \/ FileGrows \/ ReadChunk \/ \E ok \in BOOLEAN : Stat(ok) \/ ReadEnds(ok)
         \/ \E d \in Documents : Decode(d)
  PROVE  LoadInv'
  <1> USE DEF LoadInv, Reading, InBackends, BackendsDone, InAliases, InRoutes,
              ValidatesExactly, Starting
  <1>1. CASE FileGrows \/ ReadChunk \/ \E ok \in BOOLEAN : Stat(ok) \/ ReadEnds(ok)
    <2>1. /\ step \in {"stat", "read"} /\ step' \in {"stat", "read", "decode", "failed"}
          /\ UNCHANGED <<cfg, validateVars, built, routing>>
      BY <1>1 DEF FileGrows, ReadChunk, Stat, ReadEnds, File
    <2> QED
      BY <2>1, ZeroDecoded DEF validateVars
  <1>2. ASSUME NEW d \in Documents, Decode(d) PROVE LoadInv'
    <2>1. CASE step' = "validate" /\ cfg' = applyDefaults(d.config)
      BY <1>2, <2>1, DocumentDecoded DEF Decode, validateVars
    <2>2. CASE step' = "failed" /\ cfg' = cfg
      BY <1>2, <2>2, ZeroDecoded DEF Decode, validateVars
    <2> QED
      BY <1>2, <2>1, <2>2 DEF Decode
  <1> QED
    BY <1>1, <1>2

(* The two ways a check of Validate can go.                                *)
LEMMA CheckFails ==
  ASSUME LoadInv, step' = "failed", UNCHANGED cfg, ~Valid(cfg)
  PROVE  LoadInv'
  BY DEF LoadInv, Reading, InBackends, BackendsDone, InAliases, InRoutes,
         ValidatesExactly, Starting

LEMMA HeaderStep ==
  ASSUME LoadInv, ValidateHeader
  PROVE  LoadInv'
  <1> USE DEF LoadInv, Reading, InBackends, BackendsDone, InAliases, InRoutes,
              ValidatesExactly, Starting
  <1>1. step = "validate" /\ UNCHANGED cfg
    BY DEF ValidateHeader, Check
  <1>2. CASE HeaderValid(cfg)
    <2>1. step' = "backends" /\ i' = 1
      BY <1>2 DEF ValidateHeader, Check, HeaderValid
    <2>2. Len(cfg.backends) \in Nat /\ 1 - 1 = 0
      BY DEF Decoded
    <2> QED
      BY <1>1, <1>2, <2>1, <2>2, PrefixEmpty DEF ValidateHeader
  <1>3. CASE ~HeaderValid(cfg)
    <2>1. step' = "failed"
      BY <1>3 DEF ValidateHeader, Check, HeaderValid
    <2> QED
      BY <1>1, <1>3, <2>1, ValidPrefixes, CheckFails
  <1> QED
    BY <1>2, <1>3

LEMMA BackendsStep ==
  ASSUME LoadInv, ValidateBackend
  PROVE  LoadInv'
  <1> DEFINE B == cfg.backends
             b == B[i]
             OK == /\ BackendFields(b) /\ b.name \notin NamesTo(B, i - 1)
                   /\ canonicalOriginKey(b.url) \notin OriginsTo(cfg, i - 1)
  <1>1. /\ step = "backends" /\ UNCHANGED cfg /\ i' = i + 1
        /\ i \in 1 .. Len(B) /\ Len(B) \in Nat /\ Decoded(cfg) /\ HeaderValid(cfg)
        /\ BackendsValid(cfg, i - 1)
        /\ known = NamesTo(B, i - 1) /\ origins = OriginsTo(cfg, i - 1)
        /\ seenAlias = {} /\ seenAlias' = seenAlias
    BY DEF LoadInv, InBackends, ValidateBackend, Check, Decoded
  <1>2. OK <=> BackendsValid(cfg, i)
    BY <1>1, BackendStep
  <1>3. /\ known' = NamesTo(B, i)
        /\ origins' = OriginsTo(cfg, i)
    BY <1>1, PrefixGrows DEF ValidateBackend
  <1>4. CASE OK
    <2>1. step' = "backends"
      BY <1>1, <1>4 DEF ValidateBackend, Check
    <2>2. i' \in 1 .. Len(B) + 1 /\ i' - 1 = i
      BY <1>1
    <2> QED
      BY <1>1, <1>2, <1>3, <1>4, <2>1, <2>2
      DEF LoadInv, Reading, InBackends, BackendsDone, InAliases, InRoutes,
          ValidatesExactly, Starting
  <1>5. CASE ~OK
    <2>1. step' = "failed"
      BY <1>1, <1>5 DEF ValidateBackend, Check
    <2> QED
      BY <1>1, <1>2, <1>5, <2>1, ValidPrefixes, CheckFails
  <1> QED
    BY <1>4, <1>5

LEMMA AliasesBegin ==
  ASSUME LoadInv, ValidateAliases
  PROVE  LoadInv'
  <1> DEFINE B == cfg.backends
  <1>1. /\ step = "backends" /\ UNCHANGED cfg /\ i' = 1
        /\ i = Len(B) + 1 /\ Len(B) \in Nat /\ Len(cfg.aliases) \in Nat /\ Decoded(cfg)
        /\ HeaderValid(cfg) /\ known' = known /\ seenAlias' = {}
    BY DEF LoadInv, InBackends, ValidateAliases, Check, Decoded
  <1>2. BackendsValid(cfg, Len(B)) /\ known = NamesTo(B, Len(B))
    <2>1. i - 1 = Len(B)
      BY <1>1
    <2> QED
      BY <1>1, <2>1 DEF LoadInv, InBackends
  <1>3. NamesTo(B, Len(B)) = Names(B)
    BY DEF NamesTo, Names, LoadInv, Decoded
  <1>4. CASE cfg.aliases # <<>>
    <2>1. step' = "aliases"
      BY <1>4 DEF ValidateAliases, Check
    <2>2. i' \in 1 .. Len(cfg.aliases) + 1 /\ i' - 1 = 0
      BY <1>1
    <2> QED
      BY <1>1, <1>2, <1>3, <1>4, <2>1, <2>2, PrefixEmpty
      DEF LoadInv, Reading, InBackends, BackendsDone, InAliases, InRoutes,
          ValidatesExactly, Starting
  <1>5. CASE cfg.aliases = <<>>
    <2>1. step' = "failed"
      BY <1>5 DEF ValidateAliases, Check
    <2> QED
      BY <1>1, <1>5, <2>1, ValidPrefixes, CheckFails
  <1> QED
    BY <1>4, <1>5

LEMMA AliasesStep ==
  ASSUME LoadInv, ValidateAlias
  PROVE  LoadInv'
  <1> DEFINE A == cfg.aliases
             a == A[i]
             OK == AliasFields(a) /\ a.name \notin NamesTo(A, i - 1)
  <1>1. /\ step = "aliases" /\ UNCHANGED <<cfg, i, known>> /\ j' = 1 /\ seenRoute' = {}
        /\ i \in 1 .. Len(A) /\ Len(A) \in Nat /\ Decoded(cfg)
        /\ AliasesValid(cfg, i - 1) /\ AllRoutesValid(cfg, i - 1)
        /\ seenAlias = NamesTo(A, i - 1)
    BY DEF LoadInv, InAliases, ValidateAlias, Check, Decoded
  <1>2. OK <=> AliasesValid(cfg, i)
    BY <1>1, AliasStep
  <1>3. seenAlias' = NamesTo(A, i)
    BY <1>1, PrefixGrows DEF ValidateAlias
  <1>4. CASE OK
    <2>1. step' = "routes"
      BY <1>1, <1>4 DEF ValidateAlias, Check, AliasFields
    <2>2. Len(a.routes) \in Nat
      BY <1>1 DEF Decoded, AliasConfig
    <2>3. j' \in 1 .. Len(a.routes) + 1 /\ j' - 1 = 0
      BY <1>1, <2>2
    <2> QED
      BY <1>1, <1>2, <1>3, <1>4, <2>1, <2>3, PrefixEmpty
      DEF LoadInv, Reading, InBackends, BackendsDone, InAliases, InRoutes,
          ValidatesExactly, Starting
  <1>5. CASE ~OK
    <2>1. step' = "failed"
      BY <1>1, <1>5 DEF ValidateAlias, Check, AliasFields
    <2> QED
      BY <1>1, <1>2, <1>5, <2>1, ValidPrefixes, CheckFails
  <1> QED
    BY <1>4, <1>5

LEMMA RoutesStep ==
  ASSUME LoadInv, ValidateRoute
  PROVE  LoadInv'
  <1> DEFINE a == cfg.aliases[i]
             r == a.routes[j]
             OK == /\ r.backend \in Names(cfg.backends) /\ RouteFields(r)
                   /\ RouteKey(r) \notin KeysTo(a, j - 1)
  <1>1. /\ step = "routes" /\ UNCHANGED <<cfg, i, known, seenAlias>> /\ j' = j + 1
        /\ i \in 1 .. Len(cfg.aliases) /\ Decoded(cfg)
        /\ known = Names(cfg.backends)
        /\ RoutesValid(cfg, a, j - 1) /\ seenRoute = KeysTo(a, j - 1)
    BY DEF LoadInv, BackendsDone, InRoutes, ValidateRoute, Check
  <1>2. a \in AliasConfig /\ Len(a.routes) \in Nat
    <2>1. a \in AliasConfig
      BY <1>1 DEF Decoded
    <2> QED
      BY <2>1 DEF AliasConfig
  <1>3. j \in 1 .. Len(a.routes)
    BY <1>1, <1>2 DEF LoadInv, InRoutes, ValidateRoute
  <1>4. OK <=> RoutesValid(cfg, a, j)
    BY <1>1, <1>2, <1>3, RouteStep
  <1>5. seenRoute' = KeysTo(a, j)
    BY <1>1, <1>2, <1>3, PrefixGrows DEF ValidateRoute, RouteKey
  <1>6. CASE OK
    <2>1. step' = "routes"
      BY <1>1, <1>6 DEF ValidateRoute, Check, RouteKey
    <2>2. j' \in 1 .. Len(a.routes) + 1 /\ j' - 1 = j
      BY <1>1, <1>2, <1>3
    <2> QED
      BY <1>1, <1>4, <1>5, <1>6, <2>1, <2>2
      DEF LoadInv, Reading, InBackends, BackendsDone, InAliases, InRoutes,
          ValidatesExactly, Starting
  <1>7. CASE ~OK
    <2>1. step' = "failed"
      BY <1>1, <1>7 DEF ValidateRoute, Check, RouteKey
    <2> QED
      BY <1>1, <1>3, <1>4, <1>7, <2>1, ValidPrefixes, CheckFails
  <1> QED
    BY <1>6, <1>7

LEMMA RoutesEnd ==
  ASSUME LoadInv, NextAlias
  PROVE  LoadInv'
  <1> DEFINE a == cfg.aliases[i]
  <1>1. /\ step = "routes" /\ step' = "aliases" /\ UNCHANGED <<cfg, known, seenAlias>>
        /\ i' = i + 1 /\ i \in 1 .. Len(cfg.aliases) /\ Decoded(cfg)
        /\ j > Len(a.routes) /\ j \in 1 .. Len(a.routes) + 1
        /\ RoutesValid(cfg, a, j - 1)
    BY DEF LoadInv, InRoutes, NextAlias, Check
  <1>2. Len(a.routes) \in Nat /\ Len(cfg.aliases) \in Nat
    BY <1>1 DEF Decoded, AliasConfig
  <1>3. j - 1 = Len(a.routes) /\ i' - 1 = i /\ i' \in 1 .. Len(cfg.aliases) + 1
    BY <1>1, <1>2
  <1>4. AllRoutesValid(cfg, i)
    <2>1. \A k \in 1 .. i : k \in 1 .. i - 1 \/ k = i
      BY <1>1
    <2>2. RoutesValid(cfg, a, Len(a.routes))
      BY <1>1, <1>3
    <2> QED
      BY <1>1, <2>1, <2>2 DEF AllRoutesValid, LoadInv, InRoutes
  <1> QED
    BY <1>1, <1>3, <1>4
    DEF LoadInv, Reading, InBackends, BackendsDone, InAliases, InRoutes,
        ValidatesExactly, Starting

LEMMA AliasesEnd ==
  ASSUME LoadInv, Validated
  PROVE  LoadInv'
  <1>1. /\ step = "aliases" /\ step' = "build" /\ UNCHANGED cfg /\ Decoded(cfg)
        /\ i > Len(cfg.aliases) /\ i \in 1 .. Len(cfg.aliases) + 1
    BY DEF LoadInv, InAliases, Validated, Check
  <1>2. i - 1 = Len(cfg.aliases)
    BY <1>1 DEF Decoded
  <1>3. /\ HeaderValid(cfg) /\ cfg.aliases # <<>>
        /\ BackendsValid(cfg, Len(cfg.backends))
        /\ AliasesValid(cfg, Len(cfg.aliases)) /\ AllRoutesValid(cfg, Len(cfg.aliases))
    BY <1>1, <1>2 DEF LoadInv, BackendsDone, InAliases
  <1>4. Valid(cfg)
    BY <1>1, <1>3, ValidByPrefixes
  <1> QED
    BY <1>1, <1>4
    DEF LoadInv, Reading, InBackends, BackendsDone, InAliases, InRoutes,
        ValidatesExactly, Starting

(* Build and NewState.                                                     *)
LEMMA BuildStep ==
  ASSUME LoadInv, NEW env, Build(env)
  PROVE  LoadInv'
  <1>1. /\ step = "build" /\ UNCHANGED cfg
        /\ \/ step' = "no_secret"
           \/ step' = "state" /\ built' = BuiltOf(cfg)
    BY DEF Build, BuiltOf
  <1> QED
    BY <1>1
    DEF LoadInv, Reading, InBackends, BackendsDone, InAliases, InRoutes,
        ValidatesExactly, Starting

LEMMA BuiltNames ==
  ASSUME NEW c
  PROVE  /\ Names(BuiltOf(c)) = Names(c.backends)
         /\ DOMAIN BuiltOf(c) = DOMAIN c.backends
         /\ \A k \in DOMAIN c.backends :
              /\ BuiltOf(c)[k].name = c.backends[k].name
              /\ BuiltOf(c)[k].maxInflight = c.backends[k].maxInflight
              /\ BuiltOf(c)[k].headerMS = c.backends[k].headerMS
              /\ BuiltOf(c)[k].idleMS = c.backends[k].idleMS
              /\ BuiltOf(c)[k].credential = c.backends[k].tokenEnv
  <1>1. /\ DOMAIN BuiltOf(c) = DOMAIN c.backends
        /\ \A k \in DOMAIN c.backends :
             /\ BuiltOf(c)[k].name = c.backends[k].name
             /\ BuiltOf(c)[k].maxInflight = c.backends[k].maxInflight
             /\ BuiltOf(c)[k].headerMS = c.backends[k].headerMS
             /\ BuiltOf(c)[k].idleMS = c.backends[k].idleMS
             /\ BuiltOf(c)[k].credential = c.backends[k].tokenEnv
    BY DEF BuiltOf
  <1> QED
    BY <1>1 DEF Names

LEMMA RoutesLead ==
  ASSUME NEW c, Valid(c)
  PROVE  \A a \in DOMAIN c.aliases : \A k \in DOMAIN c.aliases[a].routes :
           /\ c.aliases[a].routes[k].backend \in Names(c.backends)
           /\ RouteFields(c.aliases[a].routes[k])
  BY ValidIsByChecks DEF ValidByChecks

LEMMA StateStep ==
  ASSUME LoadInv, NewState
  PROVE  LoadInv'
  <1>1. step = "state" /\ UNCHANGED <<cfg, built>> /\ Valid(cfg) /\ built = BuiltOf(cfg)
    BY DEF NewState, LoadInv, ValidatesExactly, Starting
  <1>2. \A a \in DOMAIN cfg.aliases : \A k \in DOMAIN cfg.aliases[a].routes :
          cfg.aliases[a].routes[k].backend \in Names(built)
    BY <1>1, BuiltNames, RoutesLead
  <1>3. step' = "ready" /\ routing' = RoutingOf(cfg, built)
    BY <1>2 DEF NewState, RoutingOf
  <1> QED
    BY <1>1, <1>3
    DEF LoadInv, Reading, InBackends, BackendsDone, InAliases, InRoutes,
        ValidatesExactly, Starting

LEMMA LoadInvNext == LoadInv /\ [ConfigNext]_configVars => LoadInv'
  <1> SUFFICES ASSUME LoadInv, [ConfigNext]_configVars PROVE LoadInv'
    OBVIOUS
  <1>1. CASE UNCHANGED configVars
    BY <1>1 DEF configVars, validateVars, LoadInv, Reading, InBackends, BackendsDone,
       InAliases, InRoutes, ValidatesExactly, Starting
  <1>2. CASE ConfigNext
    BY <1>2, ReadingSteps, HeaderStep, BackendsStep, AliasesBegin, AliasesStep,
       RoutesStep, RoutesEnd, AliasesEnd, BuildStep, StateStep DEF ConfigNext
  <1> QED
    BY <1>1, <1>2

LEMMA LoadInvAlways == ConfigSpec => []LoadInv
  BY LoadInvInit, LoadInvNext, PTL DEF ConfigSpec

-----------------------------------------------------------------------------
(* load.go 49-55: whatever the limit and however the file grows, what is   *)
(* decoded is a whole file within the limit.                               *)
THEOREM WholeFileHolds == ConfigSpec => WholeFileDecoded
  <1>1. ConfigNext => (step = "read" /\ step' = "decode" =>
                         got = size /\ got <= MaxConfigBytes)
    <2> SUFFICES ASSUME ConfigNext, step = "read", step' = "decode"
                 PROVE  got = size /\ got <= MaxConfigBytes
      OBVIOUS
    <2>1. PICK ok \in BOOLEAN : ReadEnds(ok)
      BY DEF ConfigNext, FileGrows, ReadChunk, Stat, File, Decode, ValidateHeader,
         ValidateBackend, ValidateAliases, ValidateAlias, ValidateRoute, NextAlias,
         Validated, Build, NewState
    <2>2. ok /\ got <= MaxConfigBytes /\ got \in {size, ReadLimit}
      BY <2>1 DEF ReadEnds, File
    <2> QED
      BY <2>2, LimitAssumption DEF LimitAssumption, ReadLimit
  <1>2. [ConfigNext]_configVars =>
          [step = "read" /\ step' = "decode" =>
             got = size /\ got <= MaxConfigBytes]_configVars
    BY <1>1
  <1> QED
    BY <1>2, PTL DEF ConfigSpec, WholeFileDecoded

(* validate.go 30-180, url.go 58: for configurations of any length, a      *)
(* configuration that gets past Validate is valid and one that is refused  *)
(* is not; NewState refuses none that Validate accepted.                   *)
THEOREM ValidatesRight == ConfigSpec => []ValidatesExactly
  <1>1. LoadInv => ValidatesExactly
    BY DEF LoadInv
  <1> QED
    BY <1>1, LoadInvAlways, PTL

-----------------------------------------------------------------------------
(* The counters and maps stay within the configuration, also where         *)
(* Validate stopped at an entry.                                           *)

LEMMA LoopBound ==
  ASSUME NEW x \in Nat, NEW y \in Nat
  PROVE  /\ 0 \in 0 .. x + y + 1 /\ 1 \in 0 .. x + y + 1
         /\ \A n \in 1 .. x : n + 1 \in 0 .. x + y + 1
         /\ \A n \in 1 .. y : n + 1 \in 0 .. x + y + 1
  OBVIOUS

(* types.go 14, validate.go 68-137: no more than one byte over the limit   *)
(* is read, no loop leaves its slice, and the maps hold names of the file. *)
THEOREM ConfigTypes == ConfigSpec => []ConfigTypeOK
  <1> DEFINE N == Len(cfg.backends) + Len(cfg.aliases) + 1
             Maps == /\ i \in 0 .. N
                     /\ known \subseteq Names(cfg.backends)
                     /\ seenAlias \subseteq Names(cfg.aliases)
             Sizes == /\ step \in Steps
                      /\ size \in 0 .. MaxFileBytes
                      /\ got \in 0 .. MaxConfigBytes + 1
  <1>1. ConfigInit => Sizes /\ Maps
    <2> SUFFICES ASSUME ConfigInit PROVE Sizes /\ Maps
      OBVIOUS
    <2>1. Len(cfg.backends) = 0 /\ Len(cfg.aliases) = 0
      BY DEF ConfigInit, ZeroConfig
    <2> QED
      BY <2>1, LimitAssumption DEF ConfigInit, Steps, LimitAssumption
  <1>2. Sizes /\ [ConfigNext]_configVars => Sizes'
    <2> SUFFICES ASSUME Sizes, [ConfigNext]_configVars PROVE Sizes'
      OBVIOUS
    <2>1. CASE UNCHANGED configVars
      BY <2>1 DEF configVars, fileVars
    <2>2. CASE FileGrows \/ ReadChunk
      BY <2>2, LimitAssumption DEF FileGrows, ReadChunk, File, ReadLimit, Steps, LimitAssumption
    <2>3. ASSUME NEW ok \in BOOLEAN, Stat(ok) \/ ReadEnds(ok) PROVE Sizes'
      BY <2>3 DEF Stat, ReadEnds, File, fileVars, Steps
    <2>4. ASSUME UNCHANGED fileVars, step' \in Steps PROVE Sizes'
      BY <2>4 DEF fileVars
    <2>5. CASE \/ ValidateHeader \/ ValidateBackend \/ ValidateAliases \/ ValidateAlias
               \/ ValidateRoute \/ NextAlias \/ Validated
      BY <2>4, <2>5 DEF ValidateHeader, ValidateBackend, ValidateAliases, ValidateAlias,
         ValidateRoute, NextAlias, Validated, Check, Steps
    <2>6. CASE \/ \E d \in Documents : Decode(d)
               \/ \E env \in SUBSET SecretNames : Build(env)
               \/ NewState
      BY <2>4, <2>6 DEF Decode, Build, NewState, Steps
    <2> QED
      BY <2>1, <2>2, <2>3, <2>5, <2>6 DEF ConfigNext
  <1>3. LoadInv /\ LoadInv' /\ Maps /\ [ConfigNext]_configVars => Maps'
    <2> SUFFICES ASSUME LoadInv, LoadInv', Maps, [ConfigNext]_configVars PROVE Maps'
      OBVIOUS
    <2>1. /\ cfg.backends \in Seq(BackendConfig) /\ cfg'.backends \in Seq(BackendConfig)
          /\ cfg.aliases \in Seq(AliasConfig) /\ cfg'.aliases \in Seq(AliasConfig)
      BY DEF LoadInv, Decoded
    <2>2. /\ Len(cfg.backends) \in Nat /\ Len(cfg'.backends) \in Nat
          /\ Len(cfg.aliases) \in Nat /\ Len(cfg'.aliases) \in Nat
      BY <2>1
    <2>3. ASSUME UNCHANGED <<cfg, i, known, seenAlias>> PROVE Maps'
      BY <2>3
    <2>4. ASSUME i' \in 0 .. Len(cfg'.backends) + Len(cfg'.aliases) + 1,
                 known' \subseteq Names(cfg'.backends),
                 seenAlias' \subseteq Names(cfg'.aliases)
          PROVE  Maps'
      BY <2>4
    <2>5. ASSUME NEW d \in Documents, Decode(d) PROVE Maps'
      <3>1. i' = 0 /\ known' = {} /\ seenAlias' = {}
        BY <2>5 DEF Decode, validateVars, LoadInv, Reading
      <3>2. 0 \in 0 .. Len(cfg'.backends) + Len(cfg'.aliases) + 1
        BY <2>2, LoopBound
      <3> QED
        BY <2>4, <3>1, <3>2
    <2>6. CASE ValidateHeader \/ ValidateAliases
      <3>1. i' = 1 /\ UNCHANGED <<cfg, known, seenAlias>>
        BY <2>6 DEF ValidateHeader, ValidateAliases, Check
      <3>2. 1 \in 0 .. Len(cfg'.backends) + Len(cfg'.aliases) + 1
        BY <2>2, LoopBound
      <3> QED
        BY <2>4, <3>1, <3>2
    <2>7. CASE ValidateBackend
      <3>1. /\ i \in 1 .. Len(cfg.backends) /\ i' = i + 1 /\ UNCHANGED <<cfg, seenAlias>>
            /\ known' = known \cup {cfg.backends[i].name}
        BY <2>7 DEF ValidateBackend, Check, LoadInv, InBackends
      <3>2. cfg.backends[i].name \in Names(cfg.backends)
        BY <2>1, <3>1 DEF Names
      <3>3. i + 1 \in 0 .. Len(cfg.backends) + Len(cfg.aliases) + 1
        BY <2>2, <3>1, LoopBound
      <3> QED
        BY <2>4, <3>1, <3>2, <3>3
    <2>8. CASE ValidateAlias
      <3>1. /\ i \in 1 .. Len(cfg.aliases) /\ UNCHANGED <<cfg, i, known>>
            /\ seenAlias' = seenAlias \cup {cfg.aliases[i].name}
        BY <2>8 DEF ValidateAlias, Check, LoadInv, InAliases
      <3>2. cfg.aliases[i].name \in Names(cfg.aliases)
        BY <2>1, <3>1 DEF Names
      <3> QED
        BY <3>1, <3>2
    <2>9. CASE NextAlias
      <3>1. i \in 1 .. Len(cfg.aliases) /\ i' = i + 1 /\ UNCHANGED <<cfg, known, seenAlias>>
        BY <2>9 DEF NextAlias, Check, LoadInv, InRoutes
      <3>2. i + 1 \in 0 .. Len(cfg.backends) + Len(cfg.aliases) + 1
        BY <2>2, <3>1, LoopBound
      <3> QED
        BY <2>4, <3>1, <3>2
    <2>10. CASE \/ FileGrows \/ ReadChunk \/ \E ok \in BOOLEAN : Stat(ok) \/ ReadEnds(ok)
               \/ ValidateRoute \/ Validated \/ \E env \in SUBSET SecretNames : Build(env)
               \/ NewState \/ UNCHANGED configVars
      BY <2>3, <2>10 DEF FileGrows, ReadChunk, Stat, ReadEnds, File, ValidateRoute,
         Validated, Check, Build, NewState, configVars, validateVars
    <2> QED
      BY <2>5, <2>6, <2>7, <2>8, <2>9, <2>10 DEF ConfigNext
  <1>4. Sizes /\ Maps => ConfigTypeOK
    BY DEF ConfigTypeOK
  <1> HIDE DEF Sizes, Maps
  <1> QED
    BY <1>1, <1>2, <1>3, <1>4, LoadInvAlways, PTL DEF ConfigSpec

-----------------------------------------------------------------------------
(* With unique names every entry is the last of its name, and there are as *)
(* many names as entries.                                                  *)
LEMMA UniqueNames ==
  ASSUME NEW s, NEW len \in Nat, DOMAIN s = 1 .. len, Len(s) = len,
         \A k, l \in DOMAIN s : k # l => s[k].name # s[l].name
  PROVE  /\ Cardinality(Names(s)) = len
         /\ \A n \in Names(s) : LastOf(s, n) \in DOMAIN s /\ s[LastOf(s, n)].name = n
         /\ \A k \in DOMAIN s : s[k].name \in Names(s) /\ LastOf(s, s[k].name) = k
  <1>1. ASSUME NEW n \in Names(s)
        PROVE  LastOf(s, n) \in DOMAIN s /\ s[LastOf(s, n)].name = n
    <2>1. PICK k \in DOMAIN s : s[k].name = n
      BY DEF Names
    <2>2. \A l \in k + 1 .. Len(s) : s[l].name # n
      BY <2>1
    <2> QED
      BY <2>1, <2>2 DEF LastOf
  <1>2. Cardinality(Names(s)) = len
    <2> DEFINE f == [k \in 1 .. len |-> s[k].name]
    <2>1. f \in Bijection(1 .. len, Names(s))
      <3>1. f \in [1 .. len -> Names(s)]
        BY DEF Names
      <3>2. \A k, l \in 1 .. len : f[k] = f[l] => k = l
        OBVIOUS
      <3>3. \A n \in Names(s) : \E k \in 1 .. len : f[k] = n
        BY DEF Names
      <3> QED
        BY <3>1, <3>2, <3>3 DEF Bijection, Injection, Surjection, IsInjective
    <2>2. ExistsBijection(1 .. len, Names(s))
      BY <2>1 DEF ExistsBijection
    <2> QED
      BY <2>2, FS_CountingElements
  <1>3. ASSUME NEW k \in DOMAIN s
        PROVE  s[k].name \in Names(s) /\ LastOf(s, s[k].name) = k
    <2>1. s[k].name \in Names(s)
      BY DEF Names
    <2> QED
      BY <1>1, <2>1
  <1> QED
    BY <1>1, <1>2, <1>3

LEMMA FieldRanges ==
  /\ \A b : BackendFields(b) => b.maxInflight > 0 /\ b.headerMS > 0 /\ b.idleMS > 0
  /\ \A r : RouteFields(r) => r.priority >= 0
  <1>1. MaxMaxInflight \in Nat /\ MaxTimeoutMS \in Nat /\ MaxPriority \in Nat
    BY DEF MaxMaxInflight, MaxTimeoutMS, MaxPriority
  <1>2. \A n \in 1 .. MaxMaxInflight : n > 0
    BY <1>1
  <1>3. \A n \in TimeoutsMS : n > 0
    BY <1>1 DEF TimeoutsMS
  <1>4. \A n \in 0 .. MaxPriority : n >= 0
    BY <1>1
  <1> QED
    BY <1>2, <1>3, <1>4, Zenon DEF BackendFields, RouteFields

(* state.go 56-91: for configurations of any length, every entry is found  *)
(* under its name in NewState's maps with the values of the document and   *)
(* none replaces another, every backend has room and timeouts, and every   *)
(* route leads to one of the backends.                                     *)
THEOREM StateRight == ConfigSpec => []StateAsConfigured
  <1>1. ASSUME LoadInv, step = "ready"
        PROVE  /\ Cardinality(DOMAIN routing.backends) = Len(cfg.backends)
               /\ Cardinality(DOMAIN routing.aliases) = Len(cfg.aliases)
               /\ \A k \in DOMAIN cfg.backends :
                    LET c == cfg.backends[k]
                        b == routing.backends[c.name]
                    IN  /\ b.maxInflight = c.maxInflight /\ b.credential = c.tokenEnv
                        /\ b.headerMS = c.headerMS /\ b.idleMS = c.idleMS
               /\ \A k \in DOMAIN cfg.aliases :
                    routing.aliases[cfg.aliases[k].name] = cfg.aliases[k].routes
               /\ \A n \in DOMAIN routing.backends :
                    LET b == routing.backends[n] IN
                    b.maxInflight > 0 /\ b.headerMS > 0 /\ b.idleMS > 0
               /\ \A n \in DOMAIN routing.aliases : \A k \in DOMAIN routing.aliases[n] :
                    /\ routing.aliases[n][k].backend \in DOMAIN routing.backends
                    /\ routing.aliases[n][k].priority >= 0
    <2> DEFINE B == cfg.backends
               A == cfg.aliases
    <2>1. /\ Valid(cfg) /\ Decoded(cfg)
          /\ built = BuiltOf(cfg) /\ routing = RoutingOf(cfg, built)
      BY <1>1 DEF LoadInv, ValidatesExactly, Starting
    <2>2. /\ DOMAIN B = 1 .. Len(B) /\ Len(B) \in Nat
          /\ DOMAIN A = 1 .. Len(A) /\ Len(A) \in Nat
      BY <2>1 DEF Decoded
    <2>3. /\ \A k, l \in DOMAIN B : k # l => B[k].name # B[l].name
          /\ \A k, l \in DOMAIN A : k # l => A[k].name # A[l].name
          /\ \A k \in DOMAIN B : BackendFields(B[k])
      BY <2>1, ValidIsByChecks DEF ValidByChecks
    <2>4. /\ Cardinality(Names(A)) = Len(A)
          /\ \A n \in Names(A) : LastOf(A, n) \in DOMAIN A
          /\ \A k \in DOMAIN A : A[k].name \in Names(A) /\ LastOf(A, A[k].name) = k
      BY <2>2, <2>3, UniqueNames
    <2>5. /\ DOMAIN built = DOMAIN B /\ Len(built) = Len(B) /\ Names(built) = Names(B)
          /\ \A k, l \in DOMAIN built : k # l => built[k].name # built[l].name
      <3>1. DOMAIN built = 1 .. Len(B)
        BY <2>1, <2>2, BuiltNames
      <3>2. Len(built) = Len(B)
        BY <2>1, <2>2 DEF BuiltOf
      <3>3. Names(built) = Names(B) /\ \A k \in DOMAIN B : built[k].name = B[k].name
        BY <2>1, BuiltNames
      <3>4. ASSUME NEW k \in DOMAIN built, NEW l \in DOMAIN built, k # l
            PROVE  built[k].name # built[l].name
        BY <2>2, <2>3, <3>1, <3>3, <3>4
      <3> QED
        BY <2>2, <3>1, <3>2, <3>3, <3>4
    <2>6. /\ Cardinality(Names(built)) = Len(B)
          /\ \A n \in Names(built) : LastOf(built, n) \in DOMAIN B
          /\ \A k \in DOMAIN built : /\ built[k].name \in Names(built)
                                     /\ LastOf(built, built[k].name) = k
      BY <2>2, <2>5, UniqueNames
    <2>7. /\ DOMAIN routing.backends = Names(built)
          /\ DOMAIN routing.aliases = Names(A)
          /\ \A n \in Names(built) : routing.backends[n] = built[LastOf(built, n)]
          /\ \A n \in Names(A) : routing.aliases[n] = A[LastOf(A, n)].routes
      BY <2>1 DEF RoutingOf
    <2>8. ASSUME NEW n \in Names(built)
          PROVE  LET b == routing.backends[n] IN
                 b.maxInflight > 0 /\ b.headerMS > 0 /\ b.idleMS > 0
      <3> DEFINE k == LastOf(built, n)
      <3>1. k \in DOMAIN B /\ BackendFields(B[k])
        BY <2>3, <2>6
      <3>2. B[k].maxInflight > 0 /\ B[k].headerMS > 0 /\ B[k].idleMS > 0
        BY <3>1, FieldRanges
      <3>3. /\ built[k].maxInflight = B[k].maxInflight
            /\ built[k].headerMS = B[k].headerMS /\ built[k].idleMS = B[k].idleMS
        BY <2>1, <3>1, BuiltNames
      <3> QED
        BY <2>7, <3>2, <3>3
    <2>9. ASSUME NEW n \in Names(A), NEW k \in DOMAIN routing.aliases[n]
          PROVE  /\ routing.aliases[n][k].backend \in Names(built)
                 /\ routing.aliases[n][k].priority >= 0
      <3> DEFINE r == A[LastOf(A, n)].routes[k]
      <3>1. routing.aliases[n][k] = r /\ r.backend \in Names(B) /\ RouteFields(r)
        BY <2>1, <2>4, <2>7, RoutesLead
      <3>2. r.priority >= 0
        BY <3>1, FieldRanges
      <3> QED
        BY <2>5, <3>1, <3>2
    <2>10. ASSUME NEW k \in DOMAIN B
           PROVE  LET b == routing.backends[B[k].name] IN
                  /\ b.maxInflight = B[k].maxInflight /\ b.credential = B[k].tokenEnv
                  /\ b.headerMS = B[k].headerMS /\ b.idleMS = B[k].idleMS
      <3>1. /\ built[k].name = B[k].name /\ built[k].maxInflight = B[k].maxInflight
            /\ built[k].credential = B[k].tokenEnv
            /\ built[k].headerMS = B[k].headerMS /\ built[k].idleMS = B[k].idleMS
        BY <2>1, BuiltNames
      <3>2. routing.backends[B[k].name] = built[k]
        BY <2>5, <2>6, <2>7, <3>1
      <3> QED
        BY <3>1, <3>2
    <2>11. \A k \in DOMAIN A : routing.aliases[A[k].name] = A[k].routes
      BY <2>4, <2>7
    <2> QED
      BY <2>4, <2>6, <2>7, <2>8, <2>9, <2>10, <2>11
  <1>2. LoadInv => StateAsConfigured
    BY <1>1 DEF StateAsConfigured
  <1> QED
    BY <1>2, LoadInvAlways, PTL
=============================================================================
