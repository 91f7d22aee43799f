--------------------------- MODULE MCThreatIntel ---------------------------
(* An instance of the enricher with the three providers the code has. *)
EXTENDS ThreatIntel

MCProviders == <<"virustotal", "abuseipdb", "shodan">>
MCIndicators == {"203.0.113.7", "10.0.0.5", "evil.example"}
MCType == [i \in Indicators |-> IF i = "evil.example" THEN "domain" ELSE "ip"]
MCGlobal == {"203.0.113.7"}
MCSupports == [p \in Clients |->
    IF p = "virustotal" THEN {"ip", "domain"} ELSE {"ip"}]

\* The gap of VirusTotal is the long one, as 15 s is to 1 s.
MCGap == [p \in Clients |-> IF p = "virustotal" THEN 4 ELSE 1]
MCAttempts == [p \in Clients |-> 2]

MCData == [p \in Clients |->
    CASE p = "virustotal" ->
             {NoData, [malicious |-> 1, suspicious |-> 0, harmless |-> 5]}
      [] p = "abuseipdb" ->
             {[whitelisted |-> TRUE, score |-> 100, reports |-> 3]}
      [] p = "shodan" -> {[vulns |-> 1]}]

Http(code, marked) == [kind |-> "http", code |-> code, marked |-> marked]
Other(kind) == [kind |-> kind, code |-> 0, marked |-> FALSE]

MCHttpErrors == {Http(404, FALSE), Http(429, TRUE), Http(503, FALSE)}
MCOtherErrors == {Other("timeout"), Other("uncaught")}

\* Addresses of a candidate come before those found in its text.
MCCandidates == {<<"203.0.113.7", "10.0.0.5", "203.0.113.7">>,
                 <<"203.0.113.7", "evil.example">>}
MCLatencies == {1}
=============================================================================
