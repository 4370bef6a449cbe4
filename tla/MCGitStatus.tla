---------------------------- MODULE MCGitStatus ----------------------------
(* An instance of GitStatus: a root with two repositories, one with none.  *)
EXTENDS GitStatus

MCRootRepos == <<<<1, 2>>, <<>>>>
=============================================================================
