---------------------------- MODULE ProbeRouting ----------------------------
(* What every conformance probe does before its first operation: getting a
   token, asking for the configuration, resolving the route prefix and the
   namespace separator, reading the advertisement of idempotency
   (transport.rs, routing.rs, iceberg.rs, commit/mod.rs), and the probe of the
   configuration itself (config.rs). *)
EXTENDS ProbeTranscript

-----------------------------------------------------------------------------
(* Authentication.  adapter.auth is "anonymous" or "oauth2". *)

\* How the exchange of credentials for a token can end.
TokenOutcomes == {"no credentials", "no answer", "too large", "refused", "no JSON", "no token", "empty token", "token"}

AuthenticationReady(adapter, outcome) == adapter.auth = "anonymous" \/ outcome = "token"

\* Only a run with a token has values to keep out of the transcript; they are
\* masked wherever the transcript has a value from the catalog, but not in
\* what the profile says of the adapter.
TranscriptSanitized(adapter, ready) ==
  adapter.auth = "oauth2" /\ ready => ~adapter.names_secret

-----------------------------------------------------------------------------
(* The configuration.  A value that may be anywhere in a JSON body is absent,
   a usable text, a text that cannot be used, or no text. *)

NoConfig == [status |-> "none", media |-> FALSE, json |-> FALSE, maps |-> FALSE, prefix |-> "absent",
             separator |-> <<"absent", "absent">>, endpoints |-> "omitted",
             lifetime |-> <<"absent", "absent", "absent">>]
GoodConfig == [NoConfig EXCEPT !.status = "200", !.media = TRUE, !.json = TRUE, !.maps = TRUE,
                               !.prefix = "usable"]

\* The first place that has a value decides.
FirstPresent(places) ==
  IF \A i \in DOMAIN places : places[i] = "absent" THEN "absent"
  ELSE places[CHOOSE i \in DOMAIN places :
                places[i] # "absent" /\ \A j \in 1..(i - 1) : places[j] = "absent"]

ResolvePrefix(adapter, config) ==
  CASE adapter.prefix \in {"unprefixed", "static"} -> "resolved"
    [] adapter.prefix = "negotiated" ->
         IF config.json /\ config.prefix = "usable" THEN "resolved" ELSE "failed"

\* Whether a namespace codec is found: overrides before defaults, and the
\* default separator when neither has one.
NamespaceCodec(config) ==
  config.json /\ FirstPresent(config.separator) \in {"absent", "usable"}

ConfigRouting(adapter, ready, config) ==
  FromResult(/\ ready
             /\ config.status = "200" /\ config.media /\ config.json
             /\ ResolvePrefix(adapter, config) = "resolved"
             /\ NamespaceCodec(config))

\* The workflow runs when there are routes and the routing fact is a pass.
RoutesAvailable(adapter, ready, config) ==
  /\ NamespaceCodec(config)
  /\ ResolvePrefix(adapter, config) = "resolved"
  /\ ConfigRouting(adapter, ready, config) = "pass"

Advertisement(routing, config) ==
  CASE routing # "pass" \/ ~config.json -> "not-evaluated"
    [] FirstPresent(config.lifetime) = "absent" -> "not-advertised"
    [] FirstPresent(config.lifetime) = "usable" -> "advertised"
    [] OTHER -> "malformed"

-----------------------------------------------------------------------------
(* The probe of the configuration. *)

InspectEndpoints(config) ==
  CASE ~config.json -> "not-evaluated"
    [] config.endpoints \in {"omitted", "standard"} -> "pass"
    [] OTHER -> "fail"

ConfigFacts(adapter, ready, config) ==
  LET answered == config.status # "none"
  IN [authentication |-> FromResult(ready),
      http_status |-> EvaluatedIf(answered, config.status = "200"),
      media_type |-> EvaluatedIf(answered, config.media),
      map_shape |-> EvaluatedIf(config.json, config.maps),
      prefix |-> FromResult(ResolvePrefix(adapter, config) = "resolved"),
      endpoints |-> InspectEndpoints(config),
      transcript_sanitized |-> FromResult(TranscriptSanitized(adapter, ready))]

ConfigCapabilities == <<
  Required("config.read"), Required("config.endpoint-advertisement"), Required("config.warehouse-routing") >>

ConfigSteps == <<
  Step("negotiate-authentication", {}),
  Step("request-config", {"negotiate-authentication"}),
  Step("resolve-prefix", {"request-config"}),
  Step("validate-endpoints", {"request-config"}),
  Step("sanitize-transcript", {"resolve-prefix", "validate-endpoints"}) >>

ConfigAssertions == <<
  Assertion("authentication-ready", "negotiate-authentication", TRUE, "authentication"),
  Assertion("config-http-success", "request-config", TRUE, "http_status"),
  Assertion("config-media-type", "request-config", TRUE, "media_type"),
  Assertion("config-map-shape", "request-config", TRUE, "map_shape"),
  Assertion("route-prefix-resolved", "resolve-prefix", TRUE, "prefix"),
  Assertion("endpoint-advertisement-valid", "validate-endpoints", TRUE, "endpoints"),
  Assertion("transcript-sanitized", "sanitize-transcript", TRUE, "transcript_sanitized") >>

ConfigParameters == [
  maximum_response_bytes |-> MaximumResponseBytes, response_media_type |-> "application/json",
  transcript_format |-> "config", iceberg_openapi |-> "pinned"]
ConfigImplemented == Policy(ConfigParameters, ConfigCapabilities, ConfigSteps, ConfigAssertions)
ConfigUnsupported(adapter) == RequiredLimitations(ConfigCapabilities, adapter) # {}
=============================================================================
