----------------------------- MODULE MCBootstrap -----------------------------
EXTENDS Bootstrap

\* No override; and that of the endpoint, with pins that are malformed.
MCSpecs == {[endpoint |-> FALSE, hashes |-> "none"], [endpoint |-> TRUE, hashes |-> "malformed"]}
=============================================================================
