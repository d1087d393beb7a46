------------------------- MODULE MCConformanceProbe -------------------------
(* Instances of ConformanceProbe for TLC: the settings to explore. *)
EXTENDS ConformanceProbe

CONSTANT Faults

Everything == UNION {Named(p.capabilities) :
                       p \in {N!Implemented, T!Implemented, C!Implemented, ConfigImplemented}}
Absent3 == <<"absent", "absent", "absent">>
Advertised == <<"absent", "usable", "absent">>

Adapter(auth, prefix, limited) ==
  [auth |-> auth, prefix |-> prefix, names_secret |-> FALSE,
   exercised |-> Everything \ limited, limited |-> limited]
Plain == Adapter("oauth2", "negotiated", {})

Setting(p, adapter, lifetime) ==
  [probe |-> p, adapter |-> adapter, drifted |-> FALSE, lifetime |-> lifetime,
   paging |-> "pages", foreign |-> {}, trouble |-> "none", faults |-> 0]
Default(p) == Setting(p, Plain, Advertised)

Probes == {"config", "namespace", "table", "commit"}
Fixtures(p) == IF p = "namespace" THEN {"primary", "sibling", "child"} ELSE {"namespace"}

\* Catalogs without faults: authentication and prefix modes, limitations of
\* one required or of the optional capabilities, paging styles, an unrelated
\* neighbour, no advertisement, a drifted scenario, a credential in the profile.
HonestSettings ==
  {Setting(p, Adapter(a, x, {}), l) : p \in Probes, a \in {"anonymous", "oauth2"},
     x \in {"unprefixed", "static", "negotiated"}, l \in {Absent3, Advertised, <<"unusable", "usable", "absent">>}}
  \cup {[Setting(p, Adapter("anonymous", "static", {c}), Advertised) EXCEPT !.paging = g] :
          p \in Probes, g \in {"pages"}, c \in {"config.read", "namespace.create", "table.drop", "table.rename",
            "table.register", "commit.exact-retry", "idempotency-key.content-binding"}}
  \cup {[Default(p) EXCEPT !.paging = g, !.foreign = f] : p \in {"namespace", "table"},
          g \in {"pages", "whole", "trailing"}, f \in {{}, {"namespace"}, {"primary"}}}
  \cup {[Default(p) EXCEPT !.drifted = TRUE] : p \in Probes}
  \cup {[Default(p) EXCEPT !.adapter.names_secret = TRUE] : p \in Probes}
  \cup {[Default(p) EXCEPT !.adapter.exercised = @ \ {"config.read", "namespace.load"}] : p \in Probes}

FaultySettings ==
  {[Default(p) EXCEPT !.trouble = "negotiation"] : p \in Probes} \cup
  {[Default(p) EXCEPT !.trouble = "faults", !.faults = Faults] : p \in Probes}

CrowdedSettings ==
  {[Default(p) EXCEPT !.trouble = "faults", !.faults = 1, !.foreign = {o}] :
     p \in Probes \ {"config"}, o \in {"primary", "sibling", "namespace"}}
  \cup {[Default(p) EXCEPT !.trouble = "neighbour", !.faults = Faults] : p \in Probes \ {"config"}}

PagerSettings ==
  {[Default(p) EXCEPT !.trouble = "pages"] : p \in {"namespace", "table"}}

MCSettings == HonestSettings \cup FaultySettings \cup CrowdedSettings \cup PagerSettings

\* A catalog that is declared not to support property updates of namespaces.
LimitedUpdate ==
  {Setting("namespace", Adapter("anonymous", "unprefixed", {"namespace.update-properties"}), Absent3)}
=============================================================================
