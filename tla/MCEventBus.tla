------------------------------ MODULE MCEventBus ------------------------------
EXTENDS EventBus

CONSTANTS p1, p2, s1, a1

MCPublishers == {p1, p2}
MCSiteStreams == {s1}
MCAdminStreams == {a1}
MCTypes == {"webhook.received", "data.insert"}
MCAllowed == {"data.insert"}
================================================================================
