----------------------------- MODULE RedfishClient -----------------------------
(***************************************************************************)
(* The Redfish client and its session with the server (fdr_redfish.cpp,    *)
(* fdr_http.cpp).  The client logs in when it is created, and again when a *)
(* query is answered with 401.  Sessions are numbered in the order in      *)
(* which the server opens them; it may end one at any time.                *)
(***************************************************************************)
EXTENDS Integers, FiniteSets

CONSTANTS
  NeedLogin,   \* RedfishUser and RedfishPassword are configured
  MaxSessions  \* bound: how many sessions are opened

ASSUME RedfishClientAssumption == NeedLogin \in BOOLEAN /\ MaxSessions \in Nat

VARIABLES
  rfc,        \* there is a client: rfc is not nullptr
  token,      \* the session the client uses; 0 for ""
  request,    \* where query() stands
  sessions,   \* the sessions that are open in the server
  opened,     \* history: how many sessions were opened
  unanswered, \* history: the sessions whose login was not answered
  inherited   \* history: how many were opened before this process

clientVars == <<rfc, token, request>>
serverVars == <<sessions, opened, unanswered>>
redfishVars == <<clientVars, serverVars, inherited>>

RedfishInit ==
  /\ rfc = FALSE /\ token = 0 /\ request = "none"
  /\ sessions = {} /\ opened = 0 /\ unanswered = {} /\ inherited = 0

(* A new process has no client yet; the sessions of the old one stay open: *)
(* logout() sends no token.                                                *)
ForgetClient ==
  /\ rfc' = FALSE /\ token' = 0 /\ request' = "none"
  /\ inherited' = opened
  /\ UNCHANGED serverVars

-----------------------------------------------------------------------------
LoginSucceeds ==
  /\ opened < MaxSessions
  /\ opened' = opened + 1 /\ token' = opened + 1
  /\ sessions' = sessions \cup {opened + 1}
  /\ UNCHANGED unanswered

(* An error status, an answer without a token, a timeout: login() throws.  *)
LoginFails ==
  \/ UNCHANGED <<token, serverVars>>
  \/ /\ opened < MaxSessions
     /\ opened' = opened + 1
     /\ sessions' = sessions \cup {opened + 1}
     /\ unanswered' = unanswered \cup {opened + 1}
     /\ UNCHANGED token

(* InitExceptionRateLimiter is followed by new RedfishClient; an exception *)
(* is logged, and this process has no client.                              *)
CreateClient ==
  /\ \/ /\ NeedLogin /\ LoginSucceeds
        /\ rfc' = TRUE
     \/ /\ ~NeedLogin
        /\ rfc' = TRUE
        /\ UNCHANGED <<token, serverVars>>
     \/ /\ NeedLogin /\ LoginFails
        /\ rfc' = FALSE
  /\ UNCHANGED <<request, inherited>>

-----------------------------------------------------------------------------
(* query(), for a record that is refreshed                                 *)

Query ==
  /\ rfc /\ request = "none" /\ (NeedLogin => token # 0)
  /\ request' = "get"
  /\ UNCHANGED <<rfc, token, serverVars, inherited>>

(* The server knows the session: it answers, or it reports an error and    *)
(* HttpException is thrown to the record, which keeps its value.           *)
QueryEnds ==
  /\ request \in {"get", "again"}
  /\ request' = "none"
  /\ UNCHANGED <<rfc, token, serverVars, inherited>>

QueryIsRejected_onAnyError ==
  /\ request = "get" /\ NeedLogin
  /\ request' = "login"
  /\ UNCHANGED <<rfc, token, serverVars, inherited>>
QueryIsRejected ==
  /\ request = "get" /\ NeedLogin /\ token \notin sessions
  /\ request' = "login"
  /\ UNCHANGED <<rfc, token, serverVars, inherited>>

LoginAgain ==
  /\ request = "login"
  /\ \/ LoginSucceeds /\ request' = "again"
     \/ LoginFails /\ request' = "none"
  /\ UNCHANGED <<rfc, inherited>>

(* The session times out or the server is restarted.                       *)
SessionEnds ==
  /\ \E s \in sessions : sessions' = sessions \ {s}
  /\ UNCHANGED <<clientVars, opened, unanswered, inherited>>
================================================================================
