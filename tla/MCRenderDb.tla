------------------------------ MODULE MCRenderDb ------------------------------
(***************************************************************************)
(* RenderDb with the .env files and command lines of one run.              *)
(***************************************************************************)
EXTENDS RenderDb

Line(k, c, d) == [key |-> k, commented |-> c, value |-> d]

\* A host in use below a commented-out one; a URL in use, and no host.
MCFiles ==
  LET inUse == <<Line("OTHER", FALSE, None), Line("host", TRUE, None), Line("host", FALSE, None)>>
      withUrl == <<Line("url", FALSE, None), Line("host", TRUE, None), Line("OTHER", FALSE, None)>>
      first == CHOOSE m \in Machines : TRUE
  IN {[m \in Machines |-> IF m = first THEN inUse ELSE withUrl]}

MCCommandLines == {Defaults, [Defaults EXCEPT !.yes = FALSE, !.noService = TRUE],
                   [Defaults EXCEPT !.noSeed = TRUE, !.noEnvFile = TRUE, !.noHealthCheck = TRUE]}

MCEnvKeys == <<"host", "password">>
================================================================================
