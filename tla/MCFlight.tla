------------------------------- MODULE MCFlight -------------------------------
(***************************************************************************)
(* A small instance for TLC of what the local proxy does with a flight:    *)
(* the record streams of FsdRecords, and the alerts of FlightAlerts with   *)
(* any FSD proxy.  A behaviour is one of the part chosen initially.  How   *)
(* the FSD proxy and the alerts act together is FlightSession's subject.   *)
(***************************************************************************)
EXTENDS FsdRecords, FlightAlerts

VARIABLE part

mcVars == <<part, streamVars, flightVars>>

MCInit ==
    /\ part \in {"records", "alerts"}
    /\ RecordsInit
    /\ AnyProxyInit /\ (part # "alerts" => ~subscribed)

MCNext ==
    /\ UNCHANGED part
    /\ \/ part = "records" /\ UNCHANGED flightVars /\ RecordsNext
       \/ part = "alerts" /\ UNCHANGED streamVars /\ AnyProxyNext

\* Where the records rest, nothing of theirs is enabled that would have to happen.
MCSpec == MCInit /\ [][MCNext]_mcVars /\ RecordsFairness
==============================================================================
