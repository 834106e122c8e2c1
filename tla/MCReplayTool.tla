----------------------------- MODULE MCReplayTool ----------------------------
(***************************************************************************)
(* The replay tools for TLC.  Values are words of four bits, narrowed to   *)
(* three: 9 and 15 become negative anchors, and bands and pools of 1 and 7.*)
(***************************************************************************)
EXTENDS ReplayTool

Arg(flag, value) == [flag |-> flag, value |-> value]

Out == Arg("--out", 0)

MCGenerateArgs ==
    {<<Out>>,
     <<Arg("--ops", 3), Out, Arg("--seed", 2)>>,
     <<Arg("--ops", 0), Out>>,
     <<Arg("--anchor", 9), Out>>,
     <<Out, Arg("--ops", 3), Arg("--band", 9), Arg("--pool", 12), Arg("--seed", 2)>>,
     <<Out, Arg("--pool", 15)>>,
     <<Out, Arg("--ops", 15)>>,
     <<Arg("--ops", 3)>>,
     <<Out, Arg("--ops", -1)>>}

MCRunArgs == {<<Arg("FILE", 0)>>, <<>>}

File == Arg("FILE", 0)

MCE2eArgs ==
    {<<File>>, <<Arg("--warmup", 0), File>>, <<Arg("--warmup", 2), Arg("--csv", 0), File>>,
     <<File, Arg("--pin", 4)>>, <<File, File>>}

=============================================================================
