----------------------------- MODULE Deployment -----------------------------
(***************************************************************************)
(* What is deployed and what is asked of it: the services of               *)
(* docker-compose.yml that run, the POST requests, the bill numbers and    *)
(* how many things may go wrong.                                           *)
(***************************************************************************)
EXTENDS Validation

CONSTANTS
  Services,    \* the services that are deployed
  Req,         \* POST requests
  Number,      \* bill numbers, as trimmed by the services
  MaxFaults    \* bound on crashes, lost connections and failed statements

ASSUME DeploymentAssumption ==
  /\ Services \subseteq Service
  /\ MaxFaults \in Nat

\* Go, Node and Rust connect to RabbitMQ before they listen.
EagerConnect == {"go", "node", "rust"}
=============================================================================
