---------------------------- MODULE MCDimmCores ----------------------------
(***************************************************************************)
(* Two tests for the bench with a thread per core: reads and writes of one *)
(* sub-command each, and writes of two.  In the second, core 0 may take a  *)
(* tag for its second command that core 1 still uses for the second        *)
(* sub-command of its own.                                                 *)
(***************************************************************************)
EXTENDS CoreHost

MixedLoads == {[kinds |-> {"READ", "WRITE"}, req |-> 1, depth |-> 1, cmds |-> 2],
               [kinds |-> {"WRITE"}, req |-> 2, depth |-> 1, cmds |-> 3]}
=============================================================================
