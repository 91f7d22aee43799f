---------------------------- MODULE MCIngestion ----------------------------
(* An instance of the polling daemon with every source it can poll. *)
EXTENDS Ingestion

MCClients == {"alerts_json", "indexer", "security_onion", "splunk"}
MCDocs == 1 .. 3
MCTime == <<1, 1, NoTime>>
MCLevel == <<NoLevel, 2, 2>>
MCMinLevel == [c \in MCClients |-> IF c = "security_onion" THEN 2 ELSE 1]
MCResults == MCDocs \cup {0}

Http(code, marked) == [kind |-> "http", code |-> code, marked |-> marked]
Other(kind) == [kind |-> kind, code |-> 0, marked |-> FALSE]

MCFailures ==
    {Http(401, TRUE), Http(503, FALSE), Http(404, TRUE), Other("malformed")}
MCPushFailures ==
    {Http(429, FALSE), Http(504, FALSE), Other("timeout"), Other("malformed"), Other("rejected")}
=============================================================================
