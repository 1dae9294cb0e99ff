------------------------------ MODULE MC_BotDm ------------------------------
\* The bot's device b and one device p of a person.  A behaviour is about the
\* vault and the inbound messages, about the channels, or about what is sent.
EXTENDS BotDm, TLC

CONSTANTS b, p, r1, r2, i1, i2

MCDevice == {b, p}
MCRequest == {r1, r2}
MCInbound == {i1, i2}
MCOtpIds == 1 .. 2
MCPlans == {{"initialize", "rotate", "rebuild", "bundle"},
            {"initialize", "rotate", "rebuild", "enable"},
            {"initialize", "send", "publish", "prekeys", "bundle"}}
Symmetric == Permutations(MCRequest) \cup Permutations(MCInbound)
=============================================================================
