---------------------------- MODULE IntelClients ----------------------------
(***************************************************************************)
(* What the clients of VirusTotal, AbuseIPDB and Shodan make of one HTTP   *)
(* exchange: whether it is tried again, and the verdict it amounts to.     *)
(* An exchange is a record with a kind: "http" has a status code, and      *)
(* "marked" says that the text of its body happens to contain one of the   *)
(* phrases that the retry tests look for; "data" carries a parsed answer;  *)
(* "network", "timeout" and "malformed" have no code; "uncaught" is an     *)
(* exception of a kind that no client handles, such as a reset while the   *)
(* body is read.                                                           *)
(***************************************************************************)
EXTENDS Integers

CONSTANT NoData     \* the answer has no usable analysis in it

Verdicts == {"malicious", "suspicious", "benign", "unknown"}

(* ---- failures ---- *)

VirusTotalFailure(e) ==
    CASE e.code \in {401, 403} -> "auth"
      [] e.code = 404 -> "not found"
      [] e.code = 429 -> "rate limit"
      [] OTHER -> "request"

\* Shodan's quota error is an ordinary request error.
ShodanFailure(e) ==
    CASE e.code \in {401, 403} -> "auth"
      [] e.code = 404 -> "not found"
      [] OTHER -> "request"

\* Two clients decide from the text of the error, which quotes the body.
LooksTransient(e) ==
    \/ e.kind \in {"network", "timeout"}
    \/ e.kind = "http" /\ (e.code \in {500, 502, 503, 504} \/ e.marked)

VirusTotalRetries(e) ==
    LooksTransient(e) /\ (e.kind = "http" => VirusTotalFailure(e) = "request")

ShodanRetries(e) ==
    LooksTransient(e) /\ (e.kind = "http" => ShodanFailure(e) = "request")

\* The third one decides from the kind of the error.
AbuseIPDBRetries(e) ==
    \/ e.kind \in {"network", "timeout"}
    \/ e.kind = "http" /\ e.code \in {408, 425, 500, 502, 503, 504}

Retries(client, e) ==
    \/ client = "virustotal" /\ VirusTotalRetries(e)
    \/ client = "shodan" /\ ShodanRetries(e)
    \/ client = "abuseipdb" /\ AbuseIPDBRetries(e)

(* ---- verdicts ---- *)

\* Counts of the engines that called the indicator malicious, suspicious and
\* harmless.
VirusTotalVerdict(stats, malicious, suspicious) ==
    IF stats = NoData THEN "unknown"
    ELSE CASE stats.malicious >= malicious -> "malicious"
           [] stats.malicious < malicious /\ (\/ stats.malicious >= suspicious
                                              \/ stats.suspicious >= suspicious)
                -> "suspicious"
           [] stats.malicious = 0 /\ stats.suspicious < suspicious
                /\ stats.harmless > 0 -> "benign"
           [] OTHER -> "unknown"

\* A confidence score in percent and the number of reports.
AbuseIPDBVerdict(check, malicious, suspicious) ==
    IF check.whitelisted THEN "benign"
    ELSE IF check.score = NoData THEN "unknown"
    ELSE CASE check.score >= malicious -> "malicious"
           [] check.score \in suspicious .. malicious - 1 -> "suspicious"
           [] check.score = 0 /\ check.reports = 0 -> "benign"
           [] OTHER -> "unknown"

\* Exposure is not reputation: open ports alone mean nothing.
ShodanVerdict(host) == IF host.vulns > 0 THEN "suspicious" ELSE "unknown"

\* Thresholds are the defaults of the three configurations.
VerdictOf(client, data) ==
    CASE client = "virustotal" -> VirusTotalVerdict(data, 2, 1)
      [] client = "abuseipdb" -> AbuseIPDBVerdict(data, 75, 25)
      [] client = "shodan" -> ShodanVerdict(data)

\* Two clients take "no record of it" for an answer; to the third it is a failure.
Answers(client, e) ==
    \/ e.kind = "data"
    \/ client \in {"virustotal", "shodan"} /\ e.kind = "http" /\ e.code = 404

Answer(client, e) ==
    IF e.kind = "data" THEN VerdictOf(client, e.data) ELSE "unknown"
=============================================================================
