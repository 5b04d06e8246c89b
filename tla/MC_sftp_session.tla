-------------------------- MODULE MC_sftp_session --------------------------
(***************************************************************************)
(* Two sessions on a directory with a name at the root and one below it.   *)
(***************************************************************************)
EXTENDS SftpSession, TLC

MCPaths == {<<>>, <<"d">>, <<"f">>, <<"d", "f">>}

MCFlagSets ==
  {{"read"}, {"append"}, {"read", "create"}, {"read", "write", "create"},
   {"write", "create", "truncate"}, {"write", "create", "exclude"}}

Symmetric == Permutations(Files) \cup Permutations(Channels)

=============================================================================
