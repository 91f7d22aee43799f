--------------------------- MODULE Normalization ---------------------------
(***************************************************************************)
(* soc/normalizer.py: what an Alert takes from a raw event.  The payload   *)
(* is the event's own fields; a normalizer that tries several paths for    *)
(* one of them takes the first that is there, which the model has as one   *)
(* field per meaning.  Texts that are searched for words (rule, command,   *)
(* process) are the sets of their words, empty when the text is absent; a  *)
(* host name is the sequence of its labels.                                *)
(***************************************************************************)
EXTENDS Integers, Sequences, FiniteSets, SequencesExt, FiniteSetsExt

NoText == ""
NoHost == <<>>
NoNumber == -1

\* What stands where a severity is expected: nothing, a number, or a word.
NoLevel == [kind |-> "none", number |-> 0, word |-> ""]
Number(n) == [kind |-> "number", number |-> n, word |-> ""]
Word(w) == [kind |-> "word", number |-> 0, word |-> w]

\* In the order in which their names sort, which decides between equal times.
SourceRank == [openbsd_pf |-> 1, replay |-> 2, security_onion |-> 3,
               splunk |-> 4, unknown |-> 5, wazuh |-> 6]

\* What order and finiteness rest on.
EventTyped(e) ==
    /\ e.source \in DOMAIN SourceRank /\ {e.given, e.id, e.digest} \subseteq Int
    /\ {e.at, e.collected} \subseteq Nat \cup {NoNumber}
    /\ e.level.kind \in {"none", "number", "word"} /\ IsFiniteSet(e.found)

(* ---- severity ---- *)

SeverityFromText(word) ==
    CASE word \in {"critical", "crit", "fatal", "emergency"} -> "critical"
      [] word \in {"high", "error", "err", "major"} -> "high"
      [] word \in {"medium", "med", "moderate", "warning", "warn"} -> "medium"
      [] word \in {"low", "minor", "notice"} -> "low"
      [] word \in {"info", "informational", "debug", "trace"} -> "info"
      [] OTHER -> "unknown"

\* The sharpest severity whose threshold the number reaches.
SeverityFromNumber(n, thresholds) ==
    CASE n >= thresholds[1] -> "critical"
      [] n \in thresholds[2] .. thresholds[1] - 1 -> "high"
      [] n \in thresholds[3] .. thresholds[2] - 1 -> "medium"
      [] n \in thresholds[4] .. thresholds[3] - 1 -> "low"
      [] OTHER -> "info"

SeverityFromTextOrNumber(level) ==
    CASE level.kind = "none" -> "unknown"
      [] level.kind = "number" -> SeverityFromNumber(level.number, <<90, 70, 40, 10>>)
      [] level.kind = "word" -> SeverityFromText(level.word)

SeverityFromWazuhLevel(level) ==
    IF level.kind = "number" THEN SeverityFromNumber(level.number, <<12, 9, 6, 3>>)
    ELSE SeverityFromTextOrNumber(level)

\* Suricata counts the other way, and its sharpest is high.
SeverityFromSecurityOnion(level) ==
    IF level.kind = "number"
      THEN CASE level.number <= 1 -> "high"
             [] level.number = 2 -> "medium"
             [] level.number = 3 -> "low"
             [] OTHER -> "info"
      ELSE SeverityFromTextOrNumber(level)

\* A firewall's decision is context: low is its ceiling.
SeverityFromPfAction(level) == IF level = Word("block") THEN "low" ELSE "info"

(* ---- fields ---- *)

\* What the normalizer of a source reads beside the fields they all read.
OptionalFields(source) ==
    CASE source = "wazuh" -> {"user", "process", "command", "logon", "fired", "bytes"}
      [] source = "security_onion" -> {"user", "process", "command", "bytes"}
      [] source = "openbsd_pf" -> {}
      [] OTHER -> {"user", "process", "command"}

\* A name in the payload, or else the event's own id and the payload's digest.
AlertId(e) ==
    IF e.given # NoNumber THEN <<SourceRank[e.source], e.given, 0>>
    ELSE <<SourceRank[e.source], e.id, e.digest>>

Timestamp(e) == IF e.at # NoNumber THEN e.at ELSE e.collected

NormalizeFields(e, severity, rule, groups) ==
    LET Has(f) == f \in OptionalFields(e.source)
    IN [id |-> AlertId(e), source |-> e.source, time |-> Timestamp(e),
        severity |-> severity, rule |-> rule, groups |-> groups,
        src |-> e.src, dst |-> e.dst, host |-> e.host, agent |-> e.agent,
        user |-> IF Has("user") THEN e.user ELSE NoText,
        process |-> IF Has("process") THEN e.process ELSE {},
        command |-> IF Has("command") THEN e.command ELSE {},
        logon |-> IF Has("logon") THEN e.logon ELSE NoText,
        fired |-> IF Has("fired") THEN e.fired ELSE NoNumber,
        bytes |-> IF Has("bytes") THEN e.bytes ELSE NoNumber,
        found |-> e.found]

NormalizeWazuh(e) ==
    NormalizeFields(e, SeverityFromWazuhLevel(e.level), e.rule, e.groups)

NormalizeSecurityOnion(e) ==
    NormalizeFields(e, SeverityFromSecurityOnion(e.level), e.rule, e.groups)

\* The rule's name is made of action, direction and interface.
NormalizePf(e) ==
    NormalizeFields(e, SeverityFromPfAction(e.level),
                    {"pf", e.level.word} \cup e.rule, {"firewall", "pf", e.level.word})

NormalizeGeneric(e) ==
    NormalizeFields(e, SeverityFromTextOrNumber(e.level), e.rule, e.groups)

Normalize(e) ==
    CASE e.source = "wazuh" -> NormalizeWazuh(e)
      [] e.source = "security_onion" -> NormalizeSecurityOnion(e)
      [] e.source = "openbsd_pf" -> NormalizePf(e)
      [] OTHER -> NormalizeGeneric(e)
=============================================================================
