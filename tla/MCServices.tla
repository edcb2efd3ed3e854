------------------------------ MODULE MCServices ------------------------------
(***************************************************************************)
(* Parts that share no state, so that one of them runs at a time (subject) *)
(* and the others stay as they are: the reports of the reporting plugin,   *)
(* the mail queue with its monitor, the conflict check of the plugin       *)
(* loader, the configuration, the telemetry of libs/common, the tokens of  *)
(* the OAuth application, and the AuthManager, the API client and the      *)
(* inside of an MCP server.  The monitor of the queue runs with an SMTP    *)
(* server that refuses everything and without crashes, the queue itself    *)
(* with both and without the monitor.  The sessions of a server and its    *)
(* tools take turns in the same way.                                       *)
(***************************************************************************)
EXTENDS Reports, Mail, AuthManager, Conflicts, OAuthTokens, Telemetry, McpServer, ApiClient, Config

CONSTANTS users, userById

(* The key of GET /users/:id is cut to that of GET /users/. *)
CutToUsers == [r \in {users, userById} |-> users]

(* As dbConnectionOptions of the defaults with its empty driver; a caller  *)
(* sets something in the driver, sets nothing in it, or unsets either.     *)
GivenDefaults == [db |-> [driver |-> <<>>, host |-> "h"]]
GivenTrees ==
  {[db |-> [driver |-> [size |-> "v"]]],
   [db |-> [driver |-> [size |-> Vacant], host |-> "v"]],
   [db |-> [driver |-> Unset]],
   [db |-> Unset]}

VARIABLE subject

mcVars == <<subject, repVars, mailVars, authVars, catalogue, oauthVars, telVars,
            serverVars, clientVars, cfgVars>>

Init ==
  /\ RepInit /\ MailInit /\ AuthInit /\ ConInit /\ OAuthInit /\ TelInit
  /\ ServerInit /\ ClientInit /\ CfgInit
  /\ subject \in {"reports", "queue", "monitor", "auth", "conflicts", "oauth",
                  "telemetry", "life", "tools", "client", "config"}
  /\ subject # "queue" => ~configured
  /\ subject # "oauth" => keys = "none"
  /\ subject # "life" => sessionId = Blank /\ ~authEnabled
  /\ subject # "client" => ~autoLogin /\ ~hasCredentials

NotMcp == UNCHANGED <<repVars, mailVars, catalogue, oauthVars, telVars, cfgVars>>
OnlyMcp == UNCHANGED <<authVars, serverVars, clientVars, cfgVars>>

Next ==
  /\ UNCHANGED subject
  /\ \/ /\ subject = "reports" /\ RepNext
        /\ UNCHANGED <<mailVars, catalogue, oauthVars, telVars>> /\ OnlyMcp
     \/ /\ subject = "queue" /\ MailNext
        /\ UNCHANGED <<monitorVars, repVars, catalogue, oauthVars, telVars>> /\ OnlyMcp
     \/ /\ subject = "monitor" /\ MailNext /\ crashes' = 0
        /\ UNCHANGED <<repVars, catalogue, oauthVars, telVars>> /\ OnlyMcp
     \/ /\ subject = "conflicts" /\ ConNext
        /\ UNCHANGED <<repVars, mailVars, oauthVars, telVars>> /\ OnlyMcp
     \/ /\ subject = "oauth" /\ OAuthNext
        /\ UNCHANGED <<repVars, mailVars, catalogue, telVars>> /\ OnlyMcp
     \/ /\ subject = "telemetry" /\ TelNext
        /\ UNCHANGED <<repVars, mailVars, catalogue, oauthVars>> /\ OnlyMcp
     \/ subject = "auth" /\ AuthNext /\ NotMcp /\ UNCHANGED <<serverVars, clientVars>>
     \/ /\ subject = "life" /\ ServerNext /\ UNCHANGED tools
        /\ NotMcp /\ UNCHANGED <<authVars, clientVars>>
     \/ /\ subject = "tools" /\ ServerNext /\ made' = 0 /\ ~overlapped'
        /\ NotMcp /\ UNCHANGED <<authVars, clientVars>>
     \/ subject = "client" /\ ClientNext /\ NotMcp /\ UNCHANGED <<authVars, serverVars>>
     \/ /\ subject = "config" /\ CfgNext
        /\ UNCHANGED <<repVars, mailVars, catalogue, oauthVars, telVars>>
        /\ UNCHANGED <<authVars, serverVars, clientVars>>

Fairness == MailFairness /\ AuthFairness

Spec == Init /\ [][Next]_mcVars /\ Fairness
==============================================================================
