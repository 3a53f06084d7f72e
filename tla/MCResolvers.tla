----------------------------- MODULE MCResolvers -----------------------------
EXTENDS Resolvers

AllKinds == <<"Image", "Network", "Firewalls", "SSHKeys", "PlacementGroup">>

\* A resource, a miss, a refusal and an error without a code; for the image also
\* one code of every other class and one the table does not name.
Representatives ==
  [k \in KindNames |->
     {"found", "nil", "unauthorized", "dial"}
       \cup IF k = "Image" THEN {"invalid_input", "maintenance", "resource_limit_exceeded", "rate_limit_exceeded", "new_code"}
            ELSE {}]
=============================================================================
