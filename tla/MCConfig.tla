------------------------------ MODULE MCConfig ------------------------------
(* The documents Config is checked with: one deviation at a time from a     *)
(* good configuration, and every pair of origin spellings, of route keys    *)
(* and of alias names.                                                      *)
EXTENDS Config

MCName(id) == [id |-> id, len |-> 4, first |-> "letter", bytes |-> {"letter", "underscore"}]

(* Names at the limits of validateName and validateEnvName.                *)
MCOddNames ==
  {NoName, [MCName("64") EXCEPT !.len = 64], [MCName("65") EXCEPT !.len = 65],
   [MCName("128") EXCEPT !.len = 128], [MCName("129") EXCEPT !.len = 129],
   [MCName("1a") EXCEPT !.first = "digit", !.bytes = {"letter", "digit"}],
   [MCName("a.b") EXCEPT !.bytes = {"letter", "dash"}],
   [MCName("a/b") EXCEPT !.bytes = {"letter", "colon"}],
   [MCName("a b") EXCEPT !.bytes = {"letter", "other"}]}

MCPort(digits, value) == [digits |-> digits, value |-> value]
MCHost(id, upper, form) == [id |-> id, upper |-> upper, form |-> form]
MCURL(scheme, host, port, extra) ==
  [scheme |-> scheme, host |-> host, port |-> port, extra |-> extra]

MCHosts == {MCHost("gpu", FALSE, "name"), MCHost("gpu", TRUE, "name"),
            MCHost("::1", FALSE, "ip"), MCHost("::1", FALSE, "long ip")}
MCPorts == {MCPort("", 0), MCPort("80", 80), MCPort("080", 80), MCPort("443", 443)}
MCURLs == {MCURL(s, h, p, e) : s \in {"http", "https"}, h \in MCHosts,
                               p \in MCPorts, e \in {"none", "slash"}}
MCGoodURL(id) == MCURL("http", MCHost(id, FALSE, "name"), MCPort("", 0), "none")
MCOddURLs ==
  {MCURL("ftp", MCHost("gpu", FALSE, "name"), MCPort("", 0), "none"),
   MCURL("http", MCHost("", FALSE, "name"), MCPort("80", 80), "none"),
   MCURL("http", MCHost("gpu", FALSE, "name"), MCPort("", 0), "path"),
   MCURL("http", MCHost("gpu", FALSE, "name"), MCPort("0", 0), "none"),
   MCURL("http", MCHost("gpu", FALSE, "name"), MCPort("65535", 65535), "none"),
   MCURL("http", MCHost("gpu", FALSE, "name"), MCPort("65536", 65536), "none")}

MCBackend(id) ==
  [name |-> MCName(id), kind |-> "vllm", url |-> MCGoodURL(id), maxInflight |-> 1,
   headerMS |-> 0, idleMS |-> 0, tokenEnv |-> NoName]
MCModel(id) == [id |-> id, len |-> 5, control |-> FALSE, padding |-> "none"]
MCRoute(b, m) == [backend |-> MCName(b), model |-> MCModel(m), priority |-> 10]
MCAlias(id, routes) == [name |-> MCName(id), routes |-> routes]
MCDocument(backends, aliases) ==
  [version |-> 1, listen |-> DefaultListen, tokenEnv |-> NoName,
   backends |-> backends, aliases |-> aliases]
MCTwo == <<MCBackend("a"), MCBackend("b")>>
MCGood == MCDocument(MCTwo, <<MCAlias("chat", <<MCRoute("a", "m")>>)>>)

MCOddBackends ==
  LET b == MCBackend("b") IN
  {MCBackend("a"), [b EXCEPT !.name = MCName("a")], [b EXCEPT !.kind = "other"]}
  \cup {[b EXCEPT !.name = n] : n \in MCOddNames}
  \cup {[b EXCEPT !.tokenEnv = n] : n \in MCOddNames}
  \cup {[b EXCEPT !.url = u] : u \in MCOddURLs}
  \cup {[b EXCEPT !.maxInflight = n] : n \in {-1, 0, 100000, 100001}}
  \cup {[b EXCEPT !.headerMS = n] : n \in {-1, 999, 1000, 900000, 900001}}
  \cup {[b EXCEPT !.idleMS = n] : n \in {-1, 999, 1000, 900000, 900001}}

MCRoutes ==
  LET r == MCRoute("a", "m") IN
  {r, MCRoute("b", "m"), MCRoute("a", "n"), MCRoute("c", "m"),
   [r EXCEPT !.model.padding = "newline"], [r EXCEPT !.model.control = TRUE]}
  \cup {[r EXCEPT !.model.len = n] : n \in {0, 256, 257}}
  \cup {[r EXCEPT !.priority = n] : n \in {-1, 0, 1000000, 1000001}}

MCListens ==
  {[DefaultListen EXCEPT !.blank = TRUE, !.split = FALSE, !.host = FALSE],
   [DefaultListen EXCEPT !.split = FALSE], [DefaultListen EXCEPT !.host = FALSE]}
  \cup {[DefaultListen EXCEPT !.port = n] : n \in {0, 65535, 65536}}

MCAliasLists ==
  {<<>>, <<MCAlias("chat", <<>>)>>}
  \cup {<<MCAlias("chat", <<r, q>>)>> : r \in MCRoutes, q \in MCRoutes}
  \cup {<<MCAlias("chat", <<MCRoute("a", "m")>>), MCAlias(n, <<r>>)>> :
          n \in {"chat", "code"}, r \in MCRoutes}
  \cup {<<[MCAlias("chat", <<MCRoute("a", "m")>>) EXCEPT !.name = n]>> : n \in MCOddNames}

MCConfigs ==
  {ZeroConfig, [MCGood EXCEPT !.version = 2], [MCGood EXCEPT !.backends = <<>>],
   [MCGood EXCEPT !.backends = <<MCBackend("b"), MCBackend("a")>>]}
  \cup {[MCGood EXCEPT !.listen = l] : l \in MCListens}
  \cup {[MCGood EXCEPT !.tokenEnv = n] : n \in MCOddNames}
  \cup {[MCGood EXCEPT !.backends = <<MCBackend("a"), b>>] : b \in MCOddBackends}
  \cup {[MCGood EXCEPT !.backends = <<[MCBackend("a") EXCEPT !.url = u],
                                      [MCBackend("b") EXCEPT !.url = v]>>] :
          u \in MCURLs, v \in MCURLs}
  \cup {[MCGood EXCEPT !.aliases = l] : l \in MCAliasLists}

MCDocuments ==
  {[form |-> f, config |-> ZeroConfig] : f \in {"empty", "malformed", "multi"}}
  \cup {[form |-> "one", config |-> c] : c \in MCConfigs}
=============================================================================
