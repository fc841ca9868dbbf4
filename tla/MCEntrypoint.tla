---------------------------- MODULE MCEntrypoint ----------------------------
EXTENDS Entrypoint

Plain == [root |-> TRUE, uid |-> TRUE, oneShot |-> FALSE, config |-> NoPath,
          registration |-> NoPath, dataDirEnv |-> NoPath, wd |-> <<"work">>]

(* The Dockerfile's own way, one started elsewhere, one with the directory *)
(* pinned, absolute and relative flags, a system directory, and the ways   *)
(* that skip the bootstrap.                                                *)
MCDeployments ==
  {Plain,
   [Plain EXCEPT !.wd = Data],
   [Plain EXCEPT !.dataDirEnv = Absolute(<<"pinned">>)],
   [Plain EXCEPT !.config = Absolute(<<"work", "conf">>)],
   [Plain EXCEPT !.config = Absolute(<<"etc">>), !.registration = Absolute(<<"etc">>)],
   [Plain EXCEPT !.config = Absolute(<<"etc">>)],
   [Plain EXCEPT !.config = Absolute(<<"work">>), !.registration = Absolute(<<"work", "reg">>)],
   [Plain EXCEPT !.config = Here],
   [Plain EXCEPT !.config = [abs |-> FALSE, dir |-> <<"conf">>]],
   [Plain EXCEPT !.uid = FALSE], [Plain EXCEPT !.root = FALSE], [Plain EXCEPT !.oneShot = TRUE]}
MCDirNames == {"unset", "data", "work", "conf", "reg", "etc", "pinned"}
MCSystemDirs == {<<"etc">>}
=============================================================================
