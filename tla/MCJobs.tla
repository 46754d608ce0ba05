------------------------------- MODULE MCJobs -------------------------------
(* Model-checking instance of Jobs: two definitions, of which the first has a
   schedule by default; the instance's release refuses every override with a
   schedule but the weekly ones, which leaves the defaults in force. *)
EXTENDS Jobs

MCNames == <<"purge", "digest">>
MCDefault == [d \in {"digest", "purge"} |-> IF d = "purge" THEN "daily" ELSE "none"]
MCAccepts == [i \in Instances |-> {"weekly"}]
=============================================================================
