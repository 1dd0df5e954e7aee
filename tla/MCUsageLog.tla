----------------------------- MODULE MCUsageLog -----------------------------
(* Requests 1 and 2 share a key and an account but not the result, and only  *)
(* the input tokens of 2 are known; 3 has another key, no account, no usage. *)
EXTENDS UsageLog

MCProfile ==
  [i \in Ids |->
    [key |-> IF i = 3 THEN "k2" ELSE "k1",
     account |-> IF i = 3 THEN "" ELSE "a",
     result |-> IF i = 2 THEN "failed" ELSE "success",
     input |-> IF i = 3 THEN Unknown ELSE i,
     output |-> IF i = 1 THEN 10 ELSE Unknown]]
=============================================================================
