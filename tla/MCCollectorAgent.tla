--------------------------- MODULE MCCollectorAgent ---------------------------
EXTENDS CollectorAgent

(* All nine collectors, in small registries.                               *)
SmallBootstraps ==
    {<<"cpu", "memory", "docker">>, <<"log", "memory">>, <<"network">>, <<"disk", "service">>,
     <<"system">>, <<"kubernetes">>, <<>>}
===============================================================================
