----------------------------- MODULE MCDetectionBus -----------------------------
EXTENDS DetectionBus, TLC

\* In the integrated mode every handler meets chunks and teardowns, which contend
\* for the behavioural engine.  In the standalone mode one handler meets the rule
\* alerts and DNS responses that feed the drain loop.
MCTraffic ==
    [m \in Modes |-> [h \in Handlers |->
        IF ~m THEN {"chunk", "teardown", "dnsresp"}
        ELSE IF h = CHOOSE g \in Handlers : TRUE THEN {"dnsresp", "nxflood"} ELSE {}]]
=============================================================================
