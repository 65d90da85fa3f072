---------------------------- MODULE MCDimmQueue ----------------------------
(***************************************************************************)
(* Tests for the single-core bench: writes only and reads only, with as    *)
(* many sub-commands as fit the slots.  (A test that mixes both can stall  *)
(* the channel manager; MCDimmCores runs one.)                             *)
(***************************************************************************)
EXTENDS QueueHost

Load(kind, req, depth) == [kinds |-> {kind}, req |-> req, depth |-> depth]

\* One-slot commands, more of them than there are slots, and commands that
\* need both slots.
UniformLoads ==
  {Load("WRITE", 1, 3), Load("READ", 1, 3), Load("WRITE", 2, 1), Load("READ", 2, 1)}

OneBankReads == {Load("READ", 1, 1)}
OneBankWrites == {Load("WRITE", 1, 2)}
=============================================================================
