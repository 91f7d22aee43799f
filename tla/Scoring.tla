------------------------------ MODULE Scoring ------------------------------
(***************************************************************************)
(* What a candidate is worth without a model: soc/enrichment.py, which     *)
(* says what its indicators look like, soc/assets.py, which says whose     *)
(* host it is, and the deterministic scores of soc/triage.py, with what    *)
(* follows from a score there and in soc/router.py.                        *)
(***************************************************************************)
EXTENDS Grouping

CONSTANTS
    PrivateAddresses,   \* addresses that ipaddress calls private
    PublicAddresses,    \* and those it calls global; any other text is none
    Inventory,          \* the rows of the asset inventory, in order
    PageAt, QueueAt,    \* thresholds of RoutingConfig
    PromoteAt           \* min_score of PromotionConfig

ASSUME ScoringConstants ==
    /\ Disjoint(PrivateAddresses, PublicAddresses)
    /\ QueueAt \in 1 .. 10 /\ PageAt \in QueueAt .. 10 /\ PromoteAt \in 1 .. 10

Clamp(n) == Max({1, Min({10, n})})
Points(condition, n) == IF condition THEN n ELSE 0

(* ---- local enrichment ---- *)

\* An indicator is its type, the value, and the words of a value that has some.
Indicator(type, value, words) == [type |-> type, value |-> value, words |-> words]

\* A field that is absent is no indicator.
AppendIndicator(type, value) ==
    IF value = NoText THEN {} ELSE {Indicator(type, value, {})}

TextIndicator(type, words) ==
    IF words = {} THEN {} ELSE {Indicator(type, NoText, words)}

\* found: the addresses, domains, urls and hashes in the texts of the alert.
AlertIndicators(a) ==
    UNION {AppendIndicator("ip", a.src), AppendIndicator("ip", a.dst),
           TextIndicator("host", ToSet(a.host)), AppendIndicator("user", a.user),
           TextIndicator("command", a.command), TextIndicator("process", a.process),
           a.found}

\* Sets: the same indicator is kept once.
CandidateIndicators(c) ==
    UNION {{Indicator("ip", ip, {}) : ip \in c.srcs \cup c.dsts},
           TextIndicator("host", ToSet(c.host)), AppendIndicator("user", c.user),
           UNION {AlertIndicators(a) : a \in ToSet(c.alerts)}}

IpRiskFactors(ip) ==
    IF ip \in PublicAddresses THEN {"public_ip"} ELSE {"private_ip"}

CommandRiskFactors(words) ==
    UNION {IF "powershell" \in words /\ ~Disjoint(words, {"-enc", "encodedcommand"})
             THEN {"encoded_powershell"} ELSE {},
           IF Disjoint(words, {"downloadstring", "invoke-webrequest", "curl", "wget"})
             THEN {} ELSE {"download_cradle"},
           IF Disjoint(words, {"mimikatz", "sekurlsa", "lsass", "procdump"})
             THEN {} ELSE {"credential_dumping_hint"}}

ProcessRiskFactors(words) ==
    IF Disjoint(words, {"powershell", "rundll32", "regsvr32", "mshta", "wscript"})
      THEN {} ELSE {"living_off_the_land_process"}

DomainRiskFactors(words) ==
    words \cap {"suspicious_tld", "long_domain"}

UrlRiskFactors(words) ==
    words \cap {"url_with_ip", "cleartext_http", "credential_page_path"}

RiskFactors(i) ==
    CASE i.type = "ip" -> IpRiskFactors(i.value)
      [] i.type = "hash" -> {"hash_observable"}
      [] i.type = "command" -> CommandRiskFactors(i.words)
      [] i.type = "process" -> ProcessRiskFactors(i.words)
      [] i.type = "domain" -> DomainRiskFactors(i.words)
      [] i.type = "url" -> UrlRiskFactors(i.words)
      [] OTHER -> {}

SeverityHint(factors) ==
    CASE ~Disjoint(factors, {"encoded_powershell", "download_cradle",
                             "credential_dumping_hint"}) -> "high"
      [] factors \cap {"suspicious_tld", "url_with_ip"} # {}
           /\ Disjoint(factors, {"encoded_powershell", "download_cradle",
                                 "credential_dumping_hint"}) -> "medium"
      [] factors = {} -> "info"
      [] OTHER -> "low"

EnrichIndicator(i) ==
    [provider |-> "local", indicator |-> i, hint |-> SeverityHint(RiskFactors(i)),
     factors |-> RiskFactors(i), words |-> i.words]

\* ip_address raises on what is no address.
Unreadable(i) == i.type = "ip" /\ i.value \notin PrivateAddresses \cup PublicAddresses

\* One address that cannot be read, and the candidate has no local enrichment.
EnrichmentRaises(indicators) == \E i \in indicators : Unreadable(i)
Enrich(indicators) ==
    IF EnrichmentRaises(indicators) THEN {} ELSE {EnrichIndicator(i) : i \in indicators}

(* ---- assets ---- *)

NoAsset == [criticality |-> "unknown", facing |-> FALSE]

\* By full name, then by first label, then by address; the first row wins.
Lookup(host, ip) ==
    LET named == {i \in DOMAIN Inventory : Inventory[i].name = host}
        short == {i \in DOMAIN Inventory : host # NoHost /\ Inventory[i].name[1] = host[1]}
        addressed == {i \in DOMAIN Inventory : ip # NoText /\ Inventory[i].ip = ip}
        rows == CASE named # {} -> named
                  [] named = {} /\ short # {} -> short
                  [] OTHER -> addressed
        Found(i) == [criticality |-> Inventory[i].criticality, facing |-> Inventory[i].facing]
    IN IF rows = {} THEN NoAsset ELSE Found(Min(rows))

AssetOf(c) == Lookup(c.host, c.src)

(* ---- scores ---- *)

HighRiskTerms == {"mimikatz", "sekurlsa", "lsass", "credential", "c2", "trojan", "ransom"}
MediumRiskTerms == {"encodedcommand", "-enc", "rundll32", "regsvr32", "mshta"}

NonEscalating ==
    {"private_ip", "loopback_ip", "link_local_ip", "public_ip", "reserved_ip",
     "hash_observable"}

BaseScore ==
    [critical |-> 8, high |-> 6, medium |-> 4, low |-> 2, info |-> 1, unknown |-> 3]

LogonTypeBoost(a) == Points(a.logon = "10", 2) + Points(a.logon = "2", 1)

\* bytes are counted in units of 500 million.
VolumeBoost(a) == Points(a.bytes >= 1, 1) + Points(a.bytes >= 10, 1)

DampsAnySeverity(a) == -Points(a.fired >= 1000, 1)

\* Common is not harmless: what is severe is never damped.
FrequencyDamping(a) ==
    -Points(a.severity \notin {"high", "critical"} /\ a.fired >= 1000, 1)

AnyFactorCounts(e) ==
    IF \/ e.hint = "high" \/ "encodedcommand" \in e.words
       \/ ~Disjoint(e.factors, {"encoded_powershell", "credential_dumping_hint"})
    THEN 2
    ELSE Points(e.factors # {} \/ e.hint = "medium", 1)

\* What only describes an indicator counts for nothing, also through its hint.
EnrichmentPoints(e) ==
    IF \/ e.hint = "high" \/ "encodedcommand" \in e.words
       \/ ~Disjoint(e.factors, {"encoded_powershell", "credential_dumping_hint"})
    THEN 2
    ELSE Points(\/ e.factors \ NonEscalating # {}
                \/ e.hint = "medium" /\ e.factors = {}, 1)

EnrichmentBoost(enrichments) ==
    LET Worth(n) == Cardinality({e \in enrichments : EnrichmentPoints(e) >= n})
    IN Min({3, Worth(1) + Worth(2)})

\* What is searched for words; a user name or an address is one word, which may be
\* one of them: c2 is also a group of an IPv6 address.
Searchable(a) == UNION {a.rule, a.command, a.process, {a.user, a.src, a.dst}}

\* A destination that is no address at all is not private either.
ScoreAlert(a, enrichments) ==
    LET words == Searchable(a)
    IN Clamp(BaseScore[a.severity]
             + Points(~Disjoint(words, HighRiskTerms), 2)
             + Points(~Disjoint(words, MediumRiskTerms), 1)
             + Points(a.dst \notin PrivateAddresses \cup {NoText}, 1)
             + LogonTypeBoost(a) + VolumeBoost(a) + EnrichmentBoost(enrichments)
             + FrequencyDamping(a))

AssetBoost(asset) ==
    LET boost == Points(asset.criticality = "critical", 2)
                 + Points(asset.criticality = "high", 1)
    IN Min({3, boost + Points(boost > 0 /\ asset.facing, 1)})

\* An alert without a rule is a detection of its own.
Detections(c) ==
    {[rule |-> a.rule, id |-> IF a.rule = {} THEN a.id ELSE <<>>] : a \in ToSet(c.alerts)}

ScoreCandidate(c, enrichments, asset) ==
    Clamp(Max({ScoreAlert(a, {}) : a \in ToSet(c.alerts)})
          + Points(Cardinality(Detections(c)) >= 3, 1)
          + Points(Cardinality(c.srcs) >= 2 \/ Cardinality(c.dsts) >= 2, 1)
          + Points(c.user # NoText, 1)
          + EnrichmentBoost(enrichments) + AssetBoost(asset))

(* ---- what follows from a score ---- *)

ActionAt(score, pageAt, queueAt) ==
    CASE score >= pageAt -> "page_now"
      [] score \in queueAt .. pageAt - 1 -> "queue_review"
      [] OTHER -> "mark_likely_benign"

\* Triage has thresholds of its own, the router is configured.
SuggestedAction(score) == ActionAt(score, 8, 4)
RoutedAction(score) == ActionAt(score, PageAt, QueueAt)
=============================================================================
