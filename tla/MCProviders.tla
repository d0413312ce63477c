----------------------------- MODULE MCProviders -----------------------------
(***************************************************************************)
(* Five parts in one run: the pools of connections, the registry of worker     *)
(* threads, the ports between them, and the HTTP server.  They share nothing,    *)
(* and the first state picks the one whose behaviours follow.                  *)
(***************************************************************************)
EXTENDS MongoPool, SqlPool, WorkerThreads, MessagePorts, HttpServer

CONSTANT first  \* the clients that share an address are alike: the one that comes first

ASSUME FirstShares == first \in SamePeer

VARIABLE part

partsVars == <<part, vars, sqlVars, agentVars, portVars, httpVars>>

PartsInit ==
    /\ part \in {"mongo", "sql", "workers", "ports", "http"}
    /\ Init /\ SqlInit /\ AgentInit /\ PortInit /\ HttpInit

InOrderOfArrival == (\E c \in SamePeer : conn'[c] # "out") => conn'[first] # "out"

PartsNext ==
    \/ part = "mongo" /\ Next /\ UNCHANGED <<part, sqlVars, agentVars, portVars, httpVars>>
    \/ part = "sql" /\ SqlNext /\ UNCHANGED <<part, vars, agentVars, portVars, httpVars>>
    \/ part = "workers" /\ AgentNext /\ UNCHANGED <<part, vars, sqlVars, portVars, httpVars>>
    \/ part = "ports" /\ PortNext /\ UNCHANGED <<part, vars, sqlVars, agentVars, httpVars>>
    \/ /\ part = "http" /\ HttpNext /\ InOrderOfArrival
       /\ UNCHANGED <<part, vars, sqlVars, agentVars, portVars>>

PartsSpec ==
    /\ PartsInit /\ [][PartsNext]_partsVars
    /\ \A t \in Tickets : WF_vars(part = "mongo" /\ Progress(t))
    /\ \A c \in Callers : WF_sqlVars(part = "sql" /\ SqlProgress(c))
    /\ \A a \in Agents : /\ WF_agentVars(part = "workers" /\ Ending(a))
                         /\ WF_agentVars(part = "workers" /\ Retire(a))
    /\ \A h \in Objects : WF_portVars(part = "ports" /\ Pumping(h))
    /\ WF_httpVars(part = "http" /\ ServerGoesOn)
=============================================================================
