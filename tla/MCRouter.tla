------------------------------ MODULE MCRouter ------------------------------
(* Every interface of the router, one module at a time.                     *)
EXTENDS Router, TLC

Modules == {"locations", "tokens", "cdrs", "sessions", "tariffs", "commands",
            "hubclientinfo", "chargingprofiles", "payments"}

(* What is sent for another object: one that few members are required of,   *)
(* one that has much in common with others, and one of 2.2.1.               *)
MCMistaken == {"CommandResult", "Terminal", "Token"}

(* An error of every HTTP status and status class, and what a peer had told. *)
MCDeclines ==
    {e \in OcpiErrors({1000, 2004, 4001}) :
        e.is \in {"MalformedJson", "Invalid", "Unauthorized", "NotFound", "MethodNotAllowed",
                  "Timeout", "Remote", "MissingData"}}
=============================================================================
