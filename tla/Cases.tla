------------------------------- MODULE Cases --------------------------------
(***************************************************************************)
(* What the components of the engine pass to one another: environments,    *)
(* case references, the documents a notification names, the packet kept    *)
(* on disk, and the two ways the code names a case.                        *)
(*                                                                         *)
(* Document bodies, payloads and findings are abstracted to the identity   *)
(* of the document list they come from (a member of Docs): two requests    *)
(* with the same member name the same documents (_document_keys).          *)
(***************************************************************************)
CONSTANTS
  Env,         \* the Cartograph environments this host serves
  DefaultEnv,  \* the one whose rows are keyed by the bare case reference
  NoPrefix,    \* the missing "<environment>:" prefix of such a key
  Case,        \* case references (Cartograph's Job#ref_number)
  Docs,        \* document lists a notification can name
  NoDocs,      \* no request is stored on the row
  NoPacket     \* no packet is kept for the case

ASSUME EnvAssumption == DefaultEnv \in Env /\ NoPrefix \notin Env
ASSUME DocsAssumption == NoDocs \notin Docs /\ NoPacket \notin [env : Env, docs : Docs]

(* The job store key of a case in an environment: the bare reference in    *)
(* the default environment, "<environment>:<case_ref>" in any other.       *)
JobKey(env, case) == <<IF env = DefaultEnv THEN NoPrefix ELSE env, case>>

(* The name the code uses where it passes case_ref itself as the key.      *)
BareKey(case) == <<NoPrefix, case>>

Key == {JobKey(e, c) : e \in Env, c \in Case}

(* The packet fetched for a request; its file name under output_dir/pdfs   *)
(* carries the case reference and not the environment.                     *)
Packet == [env : Env, docs : Docs]

(* One call of audit_case: its keyword arguments.                          *)
Task == [env : Env, case : Case, docs : Docs, packet : Packet \cup {NoPacket}]

NotifiedTask(e, c, d) == [env |-> e, case |-> c, docs |-> d, packet |-> NoPacket]

(* How the line names a case: always with its environment, since every     *)
(* verified request has one.                                               *)
Label(t) == <<t.env, t.case>>

Job(t) == JobKey(t.env, t.case)
=============================================================================
