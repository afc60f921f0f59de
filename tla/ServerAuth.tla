---------------------------- MODULE ServerAuth ----------------------------
(***************************************************************************)
(* Authentication of clients and the gate in front of every packet.        *)
(*                                                                         *)
(* An AuthRequest is decided from the configured whitelist and tokens; an  *)
(* accepted one binds its client_id to the endpoint and run it came from,  *)
(* replacing any earlier binding.  All other client packets pass only when *)
(* they come from the endpoint and the run their client_id is bound to.    *)
(***************************************************************************)
EXTENDS ServerBase

CONSTANTS
    Tokens,          \* token material a client may present
    AllowedClients,  \* whitelist: client_id -> shared_token_id
    SharedTokens,    \* shared_token_id -> material, or Unresolved
    Unresolved       \* a secret reference that cannot be resolved

ASSUME ServerAuthAssumption ==
    /\ DOMAIN AllowedClients \subseteq Clients
    /\ Unresolved \notin Tokens

VARIABLES
    registry,   \* AuthenticatedSenderRegistry: client_id -> entry
    granted     \* history: the AuthRequests that were accepted

authVars == << registry, granted >>

AuthenticatedSenderEntry == [source : Sources, run : Runs]

AuthRequest ==
    [type : {"AuthRequest"}, source : Sources, client : Clients, run : Runs, token : Tokens]

AuthTypeOK ==
    /\ registry \in [DOMAIN registry -> AuthenticatedSenderEntry]
    /\ DOMAIN registry \subseteq Clients
    /\ granted \subseteq AuthRequest

AuthInit ==
    /\ registry = EmptyMap
    /\ granted = {}

---------------------------------------------------------------------------
\* Every configured token is resolved before any of them is looked at: one
\* that cannot be resolved turns every request into InternalError.
AllTokensResolved == \A t \in DOMAIN SharedTokens : SharedTokens[t] # Unresolved

\* The reason code of the decision on one AuthRequest.
decide_resolved(client, token) ==
    IF ~AllTokensResolved THEN "InternalError"
    ELSE IF client \notin DOMAIN AllowedClients THEN "UnknownClient"
    ELSE IF AllowedClients[client] \notin DOMAIN SharedTokens THEN "InternalError"
    ELSE IF token = SharedTokens[AllowedClients[client]] THEN "Ok"
    ELSE "InvalidToken"

\* register_with_summary: the insert is unconditional, so a new run or a new
\* endpoint takes the client_id over.
register(p) == MapInsert(registry, p.client, [source |-> p.source, run |-> p.run])

\* An AuthRequest passes the gate unconditionally; only an accepted decision
\* touches the registry.
HandleAuthRequest(p) ==
    /\ p.type = "AuthRequest"
    /\ IF decide_resolved(p.client, p.token) = "Ok"
       THEN /\ registry' = register(p)
            /\ granted' = granted \cup {p}
       ELSE UNCHANGED authVars

---------------------------------------------------------------------------
evaluate_client_packet_NoEndpointCheck(p) ==
    IF p.client \notin DOMAIN registry THEN "UnknownClient"
    ELSE IF registry[p.client].run # p.run THEN "RunIdMismatch"
    ELSE "Accepted"

\* check_packet_scope and evaluate_client_packet: the verdict on one packet
\* of an authenticated client.
evaluate_client_packet(p) ==
    IF p.client \notin DOMAIN registry
    THEN IF \E c \in DOMAIN registry : registry[c].source = p.source
         THEN "UnknownClient"
         ELSE "UnauthenticatedSource"
    ELSE IF registry[p.client].source # p.source THEN "EndpointMismatch"
    ELSE IF registry[p.client].run # p.run THEN "RunIdMismatch"
    ELSE "Accepted"

===========================================================================
