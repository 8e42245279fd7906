-------------------------------- MODULE MCTiers --------------------------------
(***************************************************************************)
(* Three kinds of events, a rule of two selections: probes of sensitive    *)
(* paths, and logins.                                                      *)
(***************************************************************************)
EXTENDS Tiers

MCDetection ==
  [s |-> {[field |-> "path", modifier |-> "contains", patterns |-> {"/.env"}]},
   t |-> {[field |-> "path", modifier |-> "contains", patterns |-> {"/login"}],
          [field |-> "method", modifier |-> "equals", patterns |-> {"POST"}]}]

MCWithin == {<<"/app/.env", "/.env">>, <<"/login", "/login">>}

MCKinds ==
  {[path |-> "/",         method |-> "GET",  status |-> 200, ua |-> "browser"],
   [path |-> "/app/.env", method |-> "GET",  status |-> 404, ua |-> "gptbot"],
   [path |-> "/login",    method |-> "POST", status |-> 401, ua |-> "browser"]}

MCGaps == {-100, 100, 1700}

MCMarks == [p \in {"/", "/app/.env", "/login"} |->
              CASE p = "/app/.env" -> {"recon"} [] p = "/login" -> {"brute_force"} [] OTHER -> {}]

MCOwasp == [p \in {"/", "/app/.env", "/login"} |-> IF p = "/app/.env" THEN {"secrets_env"} ELSE {}]

MCBooster == {[confidence |-> 500, vector |-> "recon"]}

MCLive == {[condition |-> <<"s", "or", "t">>, level |-> "low"],
           [condition |-> <<"s", "and", "not", "t">>, level |-> "critical"]}
=============================================================================
