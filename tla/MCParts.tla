------------------------------ MODULE MCParts ------------------------------
(* Components that share no state, checked side by side: a behaviour       *)
(* chooses one of Parts, the others stay as they are.                      *)
EXTENDS ReplayWindow, DnsResolver, KeyRing

CONSTANT Parts

VARIABLE part

partsVars == <<part, vars, dnsVars, ringVars>>

\* The client's alternate is the exit's only context, or the exit's alternate the client's
\* only one; the client runs one pipeline or two, the exit one of these.
MCSetups ==
    LET both == {"session", "classic"}
        setup(client, clientRuns, exit, bound) ==
            [contexts |-> [client |-> client, exit |-> exit],
             runs |-> [client |-> clientRuns, exit |-> {"session"}],
             troubles |-> bound]
    IN  {setup(<<"a", "b">>, {"session"}, <<"b">>, 2),
         setup(<<"a", "b">>, both, <<"b">>, 0),
         setup(<<"a">>, both, <<"b", "a">>, 1)}

\* A component that was not chosen begins in one way only.
PartsInit ==
    /\ part \in Parts /\ Init /\ DnsInit /\ RingInit
    /\ part # "dns" => servers = 0
    /\ part # "ring" => troubles = 0

PartsNext ==
    \/ part = "window" /\ Next /\ UNCHANGED <<part, dnsVars, ringVars>>
    \/ part = "dns" /\ DnsNext /\ UNCHANGED <<part, vars, ringVars>>
    \/ part = "ring" /\ RingNext /\ UNCHANGED <<part, vars, dnsVars>>

\* Nothing is fair about a component that was not chosen.
PartsSpec ==
    /\ PartsInit /\ [][PartsNext]_partsVars
    /\ \A c \in Callers : WF_dnsVars(part = "dns" /\ Proceeds(c))
    /\ \A s \in Sides : WF_ringVars(part = "ring" /\ Derives(s))
    /\ \A r \in Rings :
         /\ WF_ringVars(part = "ring" /\ Sends(r))
         /\ WF_ringVars(part = "ring" /\ Waits(r))
         /\ WF_ringVars(part = "ring" /\ Receives(r))
----------------------------------------------------------------------------
\* The type invariants of the components.
TypesOK == TypeOK /\ DnsTypeOK /\ RingTypeOK

\* Returns of DnsResolver for one caller: the callers are interchangeable.
LookupReturns == ReturnsTo(CHOOSE c \in Callers : TRUE)

\* FindsContext of KeyRing, in the behaviours that are about key rings.
FindsCommon == part = "ring" => FindsContext
=============================================================================
