---------------------------- MODULE MCNarration ----------------------------
(* Two hosts, a firewall and three ways to learn of them; times in minutes. *)
EXTENDS Narration

MCPrivate == {"in1", "in2"}
MCPublic == {"out1", "out2"}
MCInventory ==
    <<[name |-> <<"web">>, ip |-> "in2", criticality |-> "critical", facing |-> TRUE],
      [name |-> <<"web", "corp">>, ip |-> NoText, criticality |-> "high", facing |-> FALSE]>>

Event(source, id, level, at, rule) ==
    [source |-> source, id |-> id, given |-> NoNumber, digest |-> id, level |-> level,
     at |-> at, collected |-> NoNumber, rule |-> rule, groups |-> {},
     src |-> NoText, dst |-> NoText, host |-> NoHost, agent |-> NoText, user |-> NoText,
     process |-> {}, command |-> {}, logon |-> NoText, fired |-> NoNumber,
     bytes |-> NoNumber, found |-> {}]

Pf(id, action, at, rule, src, dst) ==
    [Event("openbsd_pf", id, Word(action), at, rule) EXCEPT !.src = src, !.dst = dst]

Critical == [Event("wazuh", 1, Number(12), 35, {"rootkit"})
               EXCEPT !.given = 7, !.agent = "a1", !.fired = 2000]
SameMinute == [Event("wazuh", 2, Number(5), 35, {})
                 EXCEPT !.agent = "a1", !.host = <<"web", "corp">>, !.user = "u", !.logon = "10"]
Encoded == [Event("wazuh", 3, Number(5), 60, {"shell"})
              EXCEPT !.agent = "a1", !.host = <<"web", "corp">>, !.user = "u",
                     !.command = {"powershell", "-enc"}, !.process = {"powershell"}]
Untimed == [Event("splunk", 4, Word("high"), NoNumber, {"c2"})
              EXCEPT !.src = "in1", !.dst = "name", !.user = "u",
                     !.found = {Indicator("url", "u", {"cleartext_http"}),
                                Indicator("hash", "h", {})}]
Volume == [Event("security_onion", 5, Number(2), NoNumber, {"flow"})
              EXCEPT !.collected = 120, !.src = "in1", !.dst = "out2", !.bytes = 10]

MCEvents ==
    {Critical, SameMinute, Encoded, Untimed, Volume,
     Pf(6, "pass", 5, {"em1"}, "in2", "out2"), Pf(7, "block", 10, {"em0"}, "in1", "out1"),
     Pf(8, "block", 20, {"em1"}, "in1", "out2"), Pf(9, "pass", 20, {"em0"}, "in1", "out1")}

MCMaxBatch == [local |-> 4, llm |-> 2]
MCModelScores == {0, 6, 11}

MCMaxTold == [local |-> 2, llm |-> 1]
MCReportedModels == {NoText, "m"}

MCAnalystScores == {NoNumber, 2, 9}

Http(code, marked) == [kind |-> "http", code |-> code, marked |-> marked]
Other(kind) == [kind |-> kind, code |-> 0, marked |-> FALSE]
MCModelErrors ==
    {Http(401, FALSE), Http(404, TRUE), Http(429, FALSE), Other("timeout"), Other("malformed")}
=============================================================================
