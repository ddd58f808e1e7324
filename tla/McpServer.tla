------------------------------ MODULE McpServer -----------------------------
(* Two parts of an MCP server that share nothing either model keeps: the items *)
(* of the store that are bound to messages, which its mail tools and the sync  *)
(* of accounts carry over (MailBindings), and the registry of handoffs in its  *)
(* memory (HandoffRegistry).  A behaviour is one of the two.                   *)
EXTENDS MailBindings

CONSTANTS Clients, Handoffs, MaxConsumes, MaxTime

VARIABLES handoffs, now, call, served,
          part   \* what happens

Registry == INSTANCE HandoffRegistry

registryVars == <<handoffs, now, call, served>>

ASSUME RegistryAssumption ==
    /\ MaxConsumes \in Nat /\ MaxTime \in Nat
    /\ None \notin Nat /\ None \notin Handoffs /\ None \notin Registry!Records

ServerInit == Registry!Init /\ Init /\ part \in {"handoffs", "mail"}

ServerNext == /\ UNCHANGED part
              /\ \/ part = "handoffs" /\ Registry!Next /\ UNCHANGED vars
                 \/ part = "mail" /\ Next /\ UNCHANGED registryVars

serverVars == <<vars, registryVars, part>>

ServerSpec == ServerInit /\ [][ServerNext]_serverVars

\* A payload is handed out at most max_consumes times, and every consume to one client.
ConsumesBounded == Registry!ConsumesBounded

\* A handoff that ended by revocation, expiry or use is over for good.
EndedForGood == Registry!EndedForGood

=============================================================================
