---------------------------- MODULE MCProviders ----------------------------
(* TLC instances: a behaviour is about two HTTP calls, about one call of the *)
(* agent, or about one configuration file and the runtime made of it; the    *)
(* three share no state.                                                     *)
(*                                                                           *)
(* Calls: two that share a quota of one, with up to three attempts.  File: a *)
(* web provider that can search and one nobody knows, an academic provider,  *)
(* two resolvers with different requirements, two LLMs, an agent and a       *)
(* stage, against the whole of the build and of the teardown.                *)
EXTENDS HttpRetry, AgentProcess, Assembly

CONSTANTS c1, c2

VARIABLE component   \* what the behaviour is about

SmallRegistry ==
  [brave     |-> [roles |-> {"search"}, key |-> "required"],
   nobody    |-> None,
   core      |-> [key |-> "required", contact |-> "none"],
   unpaywall |-> [key |-> "none", contact |-> "required"],
   other     |-> [key |-> "optional", contact |-> "none"]]

-----------------------------------------------------------------------------
mcVars == <<retryVars, processVars, assemblyVars, component>>

MCInit ==
  /\ RetryInit /\ ProcessInit /\ AssemblyInit
  /\ component \in {"http", "agent", "file"}

MCNext ==
  \/ component = "http" /\ RetryNext /\ UNCHANGED <<processVars, assemblyVars, component>>
  \/ component = "agent" /\ ProcessNext /\ UNCHANGED <<retryVars, assemblyVars, component>>
  \/ component = "file" /\ AssemblyNext /\ UNCHANGED <<retryVars, processVars, component>>

MCSpec ==
  /\ MCInit /\ [][MCNext]_mcVars
  /\ \A c \in Calls : WF_retryVars(Progress(c))
  /\ WF_processVars(ProcessProgress)
=============================================================================
