------------------------------ MODULE AuthGate ------------------------------
(***************************************************************************)
(* From a command line to a zenoh session: the authentication gate         *)
(* (src/auth.rs) of which the flo client, the flo server and the           *)
(* --print-zenoh-port mode of either (it opens a session only to print its *)
(* locators) have a copy each, the session config, and the session that is *)
(* opened (src/transport.rs).  What a process does besides, its inputs,    *)
(* its liveliness token and its engine, is module Startup's; here it only  *)
(* moves the process on.                                                   *)
(*                                                                         *)
(* A credential is the state of the file its flag names: "none" without    *)
(* the flag, "missing", "nopem" (no PEM header) or "good".                 *)
(***************************************************************************)
EXTENDS Topics, Results

VARIABLES
    args,     \* the command line
    phase,    \* what the process does next, or how it ended
    zenoh,    \* the session config that was built
    session   \* the config of the session that was opened, or NoSession
gateVars == <<args, phase, zenoh, session>>

NoSession == [mode |-> "none", tls |-> FALSE, acl |-> {}, scouting |-> FALSE, endpoints |-> {}]

-----------------------------------------------------------------------------
AuthMode == {"mtls", "ed25519", "none"}
Credentials == {"cert", "key", "trust"}

check_credentials(a) == a.mode = "none" \/ \A c \in Credentials : a.cred[c] = "good"

validate_production(a) ==
    /\ a.mode = "none" => a.insecure
    /\ check_credentials(a)

\* The keys the ACL of a robot allows; building them may panic.
acl_config(id) == {robot_namespace(id), rules_key(id)}

zenoh_config(a) ==
    CASE ~check_credentials(a) \/ a.mode = "ed25519" -> Err("auth")
      [] check_credentials(a) /\ a.mode = "none" ->
            [NoSession EXCEPT !.mode = "router", !.scouting = TRUE]
      [] check_credentials(a) /\ a.mode = "mtls" ->
            IF TopicErr \in acl_config(a.id) THEN Panic
            ELSE [mode |-> "peer", tls |-> TRUE, acl |-> acl_config(a.id),
                  scouting |-> TRUE, endpoints |-> {}]

\* Fault: a config of its own instead of the one that authentication built.
with_endpoints_afresh(config, endpoints) ==
    [NoSession EXCEPT !.mode = "client", !.endpoints = endpoints]

with_endpoints(config, endpoints) ==
    [config EXCEPT !.mode = "client", !.endpoints = endpoints, !.scouting = FALSE]

\* The endpoints of --connect go into the config: Runtime::bootstrap leaves that to
\* the transport, the client's --print-zenoh-port does it by hand and goes on
\* scouting, and the server has no use for them.
Merged(config, a) ==
    IF a.connect = {} \/ a.binary = "server" THEN config
    ELSE IF a.print THEN [config EXCEPT !.mode = "client", !.endpoints = a.connect]
    ELSE with_endpoints(config, a.connect)

-----------------------------------------------------------------------------
Goes(p) == phase' = p

\* AuthMode::parse and validate_production, in each of the four copies.
Authenticate ==
    /\ phase = "auth"
    /\ IF args.mode \in AuthMode /\ validate_production(args)
       THEN Goes(IF args.binary = "client" /\ ~args.print THEN "inputs" ELSE "config")
       ELSE Goes("exited")
    /\ UNCHANGED <<args, zenoh, session>>

BuildConfig ==
    /\ phase = "config"
    /\ LET config == zenoh_config(args)
       IN  IF IsErr(config)
           THEN Goes(IF config = Panic THEN "panicked" ELSE "exited") /\ UNCHANGED zenoh
           ELSE /\ zenoh' = Merged(config, args)
                /\ Goes(IF args.binary = "server" /\ ~args.print THEN "server_config" ELSE "open")
    /\ UNCHANGED <<args, session>>

\* run_server: its config file is optional, and one that is no server config ends it.
ServerConfig ==
    /\ phase = "server_config"
    /\ Goes(IF args.config.form \in {"absent", "server"} THEN "open" ELSE "exited")
    /\ UNCHANGED <<args, zenoh, session>>

\* Transport::open_with; a process that prints its locators is done.
Open ==
    /\ phase = "open"
    /\ \/ Goes("exited") /\ UNCHANGED session
       \/ /\ session' = zenoh
          /\ Goes(IF args.print THEN "exited"
                  ELSE IF args.binary = "client" THEN "token" ELSE "engine")
    /\ UNCHANGED <<args, zenoh>>

\* What a process may go on to from a phase that is not the gate's.
After ==
    [inputs |-> {"config", "panicked"},
     token |-> {"engine", "exited", "panicked"},
     engine |-> {"running", "exited"}]

Elsewhere ==
    /\ phase \in DOMAIN After
    /\ phase' \in After[phase]
    /\ UNCHANGED <<args, zenoh, session>>

-----------------------------------------------------------------------------
GateInit == phase = "auth" /\ zenoh = NoSession /\ session = NoSession
GateNext == Authenticate \/ BuildConfig \/ ServerConfig \/ Open \/ Elsewhere

\* The gate, for any command line: a process comes to a session by the gate's steps in
\* the gate's order, and what else it does, reading its inputs, declaring its token,
\* starting its engine, neither skips a step nor touches the config or the session
\* (the four paths of Runtime::bootstrap, run_server and the two mains).
GateSpec == GateInit /\ [][GateNext]_gateVars

\* A session is protected the way the command line asked for, or was explicitly
\* allowed not to be: whichever of the four copies of the gate the process went
\* through, and whatever --connect does to the config afterwards, "an invalid setup
\* is a loud error, never a silent downgrade" (build_auth).
NoSilentDowngrade ==
    session # NoSession =>
        \/ /\ args.mode = "mtls" /\ \A c \in Credentials : args.cred[c] = "good"
           /\ session.tls /\ session.acl = acl_config(args.id) /\ TopicErr \notin session.acl
        \/ args.mode = "none" /\ args.insecure /\ ~session.tls
=============================================================================
